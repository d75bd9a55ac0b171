---------------------------- MODULE Crc_proofs ------------------------------
(***************************************************************************)
(* The proof that the checksum is the remainder of long division and sees  *)
(* every burst of up to four bytes, for contents of every length; and that *)
(* after zero bytes alone it sees up to 16 zero bytes more.                *)
(***************************************************************************)
EXTENDS Crc, FiniteSetTheorems, WellFoundedInduction, TLAPS

Words == SUBSET (0..31)

\* Induction over the numbers, for a set of them.
LEMMA AllNumbers ==
    ASSUME NEW T, 0 \in T, \A n \in Nat : n \in T => n + 1 \in T
    PROVE  Nat \subseteq T
<1> SUFFICES ASSUME Nat \ T # {} PROVE FALSE
  OBVIOUS
<1>1. PICK n \in Nat \ T : \A m \in Nat \ T : <<m, n>> \notin OpToRel(<, Nat)
  BY NatLessThanWellFounded, WFMin
<1>2. \A m \in Nat : m < n => m \in T
  BY <1>1 DEF OpToRel
<1> QED
  BY <1>2

----------------------------------------------------------------------------
(* Folds *)

LEMMA MaxIs ==
    ASSUME NEW n \in Nat, NEW S \in SUBSET (1..n), n \in S
    PROVE  Max(S) = n
<1>1. \A y \in S : n >= y
  OBVIOUS
<1>2. \A x \in S : (\A y \in S : x >= y) => x = n
  OBVIOUS
<1> QED
  BY <1>1, <1>2 DEF Max

LEMMA MaxIn ==
    ASSUME NEW n \in Nat, NEW S \in SUBSET (1..n), S # {}
    PROVE  Max(S) \in S
<1> DEFINE T == {k \in Nat : \A R \in SUBSET (1..k) : R # {} => Max(R) \in R}
<1>1. 0 \in T
  <2>1. \A R \in SUBSET (1..0) : R = {}
    OBVIOUS
  <2> QED
    BY <2>1
<1>2. ASSUME NEW k \in Nat, k \in T
      PROVE  k + 1 \in T
  <2> SUFFICES ASSUME NEW R \in SUBSET (1..(k + 1)), R # {}
               PROVE  Max(R) \in R
    OBVIOUS
  <2>1. CASE k + 1 \in R
    BY <2>1, MaxIs
  <2>2. CASE k + 1 \notin R
    BY <1>2, <2>2
  <2> QED
    BY <2>1, <2>2
<1> HIDE DEF T
<1>3. n \in T
  BY <1>1, <1>2, AllNumbers
<1> QED
  BY <1>3 DEF T

\* f is what the recursion of a fold of s by F takes from w for each set of indices.
Solves(f, F, w, s) == \A S \in SUBSET (1..Len(s)) :
    f[S] = IF S = {} THEN w ELSE F[<<f[S \ {Max(S)}], s[Max(S)]>>]

\* The recursion of a fold by F, whose steps take an A and a B to an A, has a
\* solution.
LEMMA FoldExists ==
    ASSUME NEW A, NEW B, NEW F \in [A \X B -> A], NEW w \in A, NEW s \in Seq(B)
    PROVE  \E f \in [SUBSET (1..Len(s)) -> A] : Solves(f, F, w, s)
<1> DEFINE T == {n \in Nat : \A t \in [1..n -> B] :
             \E f \in [SUBSET (1..n) -> A] : \A S \in SUBSET (1..n) :
               f[S] = IF S = {} THEN w ELSE F[<<f[S \ {Max(S)}], t[Max(S)]>>]}
<1>1. 0 \in T
  <2> SUFFICES ASSUME NEW t \in [1..0 -> B]
               PROVE  \E f \in [SUBSET (1..0) -> A] : \A S \in SUBSET (1..0) :
                        f[S] = IF S = {} THEN w ELSE F[<<f[S \ {Max(S)}], t[Max(S)]>>]
    OBVIOUS
  <2> WITNESS [S \in SUBSET (1..0) |-> w] \in [SUBSET (1..0) -> A]
  <2>1. \A S \in SUBSET (1..0) : S = {}
    OBVIOUS
  <2> QED
    BY <2>1
<1>2. ASSUME NEW n \in Nat, n \in T
      PROVE  n + 1 \in T
  <2> SUFFICES ASSUME NEW t \in [1..(n + 1) -> B]
               PROVE  \E f \in [SUBSET (1..(n + 1)) -> A] : \A S \in SUBSET (1..(n + 1)) :
                        f[S] = IF S = {} THEN w ELSE F[<<f[S \ {Max(S)}], t[Max(S)]>>]
    <3>1. n + 1 \in Nat
      OBVIOUS
    <3> QED
      BY <3>1, Zenon
  <2> DEFINE r == [i \in 1..n |-> t[i]]
  <2>1. r \in [1..n -> B]
    OBVIOUS
  <2>2. PICK f \in [SUBSET (1..n) -> A] : \A S \in SUBSET (1..n) :
          f[S] = IF S = {} THEN w ELSE F[<<f[S \ {Max(S)}], r[Max(S)]>>]
    BY <1>2, <2>1
  <2> DEFINE g == [S \in SUBSET (1..(n + 1)) |->
                     IF n + 1 \in S THEN F[<<f[S \ {n + 1}], t[n + 1]>>] ELSE f[S]]
  <2>3. \A S \in SUBSET (1..(n + 1)) : n + 1 \notin S => S \in SUBSET (1..n)
    OBVIOUS
  <2>4. \A S \in SUBSET (1..(n + 1)) : S \ {n + 1} \in SUBSET (1..n)
    OBVIOUS
  <2>5. g \in [SUBSET (1..(n + 1)) -> A]
    BY <2>3, <2>4
  <2>6. ASSUME NEW S \in SUBSET (1..(n + 1))
        PROVE  g[S] = IF S = {} THEN w ELSE F[<<g[S \ {Max(S)}], t[Max(S)]>>]
    <3>1. CASE n + 1 \in S
      <4>1. Max(S) = n + 1
        BY <3>1, MaxIs
      <4>2. g[S \ {n + 1}] = f[S \ {n + 1}]
        BY <2>4
      <4> QED
        BY <3>1, <4>1, <4>2
    <3>2. CASE n + 1 \notin S /\ S # {}
      <4>1. S \in SUBSET (1..n) /\ Max(S) \in S
        BY <2>3, <3>2, MaxIn
      <4>2. S \ {Max(S)} \in SUBSET (1..n) /\ Max(S) \in 1..n /\ n + 1 \notin S \ {Max(S)}
        BY <3>2, <4>1
      <4>3. g[S] = f[S] /\ g[S \ {Max(S)}] = f[S \ {Max(S)}] /\ r[Max(S)] = t[Max(S)]
        BY <3>2, <4>2
      <4> HIDE DEF g, r
      <4> QED
        BY <2>2, <3>2, <4>1, <4>3
    <3>3. CASE S = {}
      <4>1. g[S] = f[S]
        BY <3>3
      <4> HIDE DEF g, r
      <4> QED
        BY <2>2, <3>3, <4>1
    <3> QED
      BY <3>1, <3>2, <3>3
  <2> HIDE DEF g
  <2> QED
    BY <2>5, <2>6
<1> HIDE DEF T
<1>3. Len(s) \in T /\ s \in [1..Len(s) -> B]
  BY <1>1, <1>2, AllNumbers
<1>4. \E f \in [SUBSET (1..Len(s)) -> A] : \A S \in SUBSET (1..Len(s)) :
        f[S] = IF S = {} THEN w ELSE F[<<f[S \ {Max(S)}], s[Max(S)]>>]
  BY <1>3 DEF T
<1> QED
  BY <1>4 DEF Solves

\* v is what g takes for the first i indices, i from 0 to n, and g begins in A and
\* does not leave it.
Walks(v, g, n) == \A i \in 0..n : v[i] = g[1..i]

StaysIn(A, g, n) == g[{}] \in A /\ \A i \in 1..n : g[1..(i - 1)] \in A => g[1..i] \in A

LEMMA FoldWalk ==
    ASSUME NEW A, NEW n \in Nat, NEW g, StaysIn(A, g, n)
    PROVE  \E v \in [0..n -> A] : Walks(v, g, n)
<1> DEFINE T == {i \in Nat : i <= n => g[1..i] \in A}
<1>1. 0 \in T
  <2>1. 1..0 = {}
    OBVIOUS
  <2> QED
    BY <2>1 DEF StaysIn
<1>2. ASSUME NEW i \in Nat, i \in T
      PROVE  i + 1 \in T
  <2>1. CASE i + 1 <= n
    <3>1. i + 1 \in 1..n /\ (i + 1) - 1 = i
      BY <2>1
    <3>2. g[1..i] \in A
      BY <1>2, <2>1
    <3> QED
      BY <3>1, <3>2 DEF StaysIn
  <2>2. CASE ~(i + 1 <= n)
    BY <2>2
  <2> QED
    BY <2>1, <2>2
<1> HIDE DEF T
<1>3. Nat \subseteq T
  BY <1>1, <1>2, AllNumbers
<1> DEFINE v == [i \in 0..n |-> g[1..i]]
<1>4. v \in [0..n -> A]
  BY <1>3 DEF T
<1> QED
  BY <1>4 DEF Walks

----------------------------------------------------------------------------
(* Words and bytes *)

LEMMA XorTyped ==
    /\ \A u, v \in Words : Xor(u, v) \in Words
    /\ \A u, v \in Byte : Xor(u, v) \in Byte
BY DEF Xor, Words, Byte

LEMMA TopTyped ==
    ASSUME NEW w \in Words
    PROVE  Top(w) \in Byte /\ Shift(w) \in Words
BY DEF Words, Byte, Top, Shift

LEMMA TableTyped ==
    ASSUME NEW c \in Byte
    PROVE  crctab[c] \in Words
<1>1. \A n, width : Ones(n, width) \subseteq 0..(width - 1)
  BY DEF Ones
<1>2. ASSUME NEW l, NEW h, l \subseteq 0..15, h \subseteq 0..15
      PROVE  l \cup {b + 16 : b \in h} \subseteq 0..31
  <2>1. \A b \in 0..15 : b \in 0..31 /\ b + 16 \in 0..31
    OBVIOUS
  <2> QED
    BY <1>2, <2>1
<1>3. ASSUME NEW n
      PROVE  Word(n) \in Words
  <2> DEFINE l == Ones(Low[n + 1], 16)
  <2> DEFINE h == Ones(High[n + 1], 16)
  <2>1. l \subseteq 0..15 /\ h \subseteq 0..15
    BY <1>1
  <2>2. Word(n) = l \cup {b + 16 : b \in h}
    BY DEF Word
  <2> HIDE DEF l, h
  <2> QED
    BY <1>2, <2>1, <2>2 DEF Words
<1> HIDE DEF Word
<1> QED
  BY <1>3 DEF crctab

LEMMA TurnTyped ==
    ASSUME NEW w \in Words, NEW c \in Byte
    PROVE  Turn(w, c) \in Words
<1>1. Xor(Top(w), c) \in Byte /\ Shift(w) \in Words
  BY TopTyped, XorTyped
<1> QED
  BY <1>1, TableTyped, XorTyped DEF Turn

LEMMA DivideBitTyped ==
    ASSUME NEW w \in Words, NEW bit \in BOOLEAN
    PROVE  DivideBit(w, bit) \in Words
<1>1. {b + 1 : b \in w \ {31}} \in Words /\ Polynomial \in Words
  BY DEF Words, Polynomial
<1> QED
  BY <1>1, XorTyped DEF DivideBit

----------------------------------------------------------------------------
(* The folds of the checksum, as the words they go through *)

\* A fold is the last of the words it goes through.
LEMMA TurnFold ==
    ASSUME NEW w \in Words, NEW s \in Seq(Byte)
    PROVE  \E v \in [0..Len(s) -> Words] :
             /\ v[0] = w /\ v[Len(s)] = FoldLeft(Turn, w, s)
             /\ \A i \in 1..Len(s) : v[i] = Turn(v[i - 1], s[i])
<1> DEFINE F == [x \in Words \X Byte |-> Turn(x[1], x[2])]
<1>1. F \in [Words \X Byte -> Words]
  BY TurnTyped
<1>2. PICK f \in [SUBSET (1..Len(s)) -> Words] : Solves(f, F, w, s)
  <2> HIDE DEF F
  <2> QED
    BY <1>1, FoldExists
<1> HIDE DEF F
<1>3. Len(s) \in Nat /\ DOMAIN s = 1..Len(s) /\ \A i \in 1..Len(s) : s[i] \in Byte
  OBVIOUS
<1>4. f = [S \in SUBSET DOMAIN s |->
             IF S = {} THEN w ELSE Turn(f[S \ {Max(S)}], s[Max(S)])]
  <2>1. ASSUME NEW S \in SUBSET (1..Len(s)), S # {}
        PROVE  f[S] = Turn(f[S \ {Max(S)}], s[Max(S)])
    <3>1. Max(S) \in S
      BY <1>3, <2>1, MaxIn
    <3>2. S \ {Max(S)} \in SUBSET (1..Len(s)) /\ Max(S) \in 1..Len(s)
      BY <3>1
    <3>3. f[S \ {Max(S)}] \in Words /\ s[Max(S)] \in Byte
      BY <1>3, <3>2
    <3> QED
      BY <1>2, <2>1, <3>3 DEF F, Solves
  <2> QED
    BY <1>2, <1>3, <2>1 DEF Solves
<1>5. PICK g : /\ g = [S \in SUBSET DOMAIN s |->
                        IF S = {} THEN w ELSE Turn(g[S \ {Max(S)}], s[Max(S)])]
               /\ FoldLeft(Turn, w, s) = g[DOMAIN s]
  BY <1>4 DEF FoldLeft, MapThenFoldSet
<1>6. ASSUME NEW i \in 1..Len(s)
      PROVE  g[1..i] = Turn(g[1..(i - 1)], s[i])
  <2>1. Max(1..i) = i
    BY <1>3, MaxIs
  <2>2. (1..i) \ {i} = 1..(i - 1) /\ i \in 1..i /\ (1..i) \subseteq 1..Len(s)
    BY <1>3
  <2> QED
    BY <1>3, <1>5, <2>1, <2>2
<1>7. g[{}] = w /\ 1..0 = {}
  BY <1>5
<1>8. \A i \in 1..Len(s) : g[1..(i - 1)] \in Words => g[1..i] \in Words
  BY <1>3, <1>6, TurnTyped
<1>9. PICK v \in [0..Len(s) -> Words] : Walks(v, g, Len(s))
  <2>1. StaysIn(Words, g, Len(s))
    BY <1>7, <1>8 DEF StaysIn
  <2> QED
    BY <1>3, <2>1, FoldWalk
<1>10. v[0] = w /\ v[Len(s)] = FoldLeft(Turn, w, s)
  BY <1>3, <1>5, <1>7, <1>9 DEF Walks
<1>11. ASSUME NEW i \in 1..Len(s)
       PROVE  v[i] = Turn(v[i - 1], s[i])
  <2>1. i \in 0..Len(s) /\ i - 1 \in 0..Len(s)
    BY <1>3
  <2> QED
    BY <1>6, <1>9, <2>1 DEF Walks
<1> QED
  BY <1>10, <1>11

LEMMA DivideBitFold ==
    ASSUME NEW w \in Words, NEW s \in Seq(BOOLEAN)
    PROVE  \E v \in [0..Len(s) -> Words] :
             /\ v[0] = w /\ v[Len(s)] = FoldLeft(DivideBit, w, s)
             /\ \A i \in 1..Len(s) : v[i] = DivideBit(v[i - 1], s[i])
<1> DEFINE F == [x \in Words \X BOOLEAN |-> DivideBit(x[1], x[2])]
<1>1. F \in [Words \X BOOLEAN -> Words]
  BY DivideBitTyped
<1>2. PICK f \in [SUBSET (1..Len(s)) -> Words] : Solves(f, F, w, s)
  <2> HIDE DEF F
  <2> QED
    BY <1>1, FoldExists
<1> HIDE DEF F
<1>3. Len(s) \in Nat /\ DOMAIN s = 1..Len(s) /\ \A i \in 1..Len(s) : s[i] \in BOOLEAN
  OBVIOUS
<1>4. f = [S \in SUBSET DOMAIN s |->
             IF S = {} THEN w ELSE DivideBit(f[S \ {Max(S)}], s[Max(S)])]
  <2>1. ASSUME NEW S \in SUBSET (1..Len(s)), S # {}
        PROVE  f[S] = DivideBit(f[S \ {Max(S)}], s[Max(S)])
    <3>1. Max(S) \in S
      BY <1>3, <2>1, MaxIn
    <3>2. S \ {Max(S)} \in SUBSET (1..Len(s)) /\ Max(S) \in 1..Len(s)
      BY <3>1
    <3>3. f[S \ {Max(S)}] \in Words /\ s[Max(S)] \in BOOLEAN
      BY <1>3, <3>2
    <3> QED
      BY <1>2, <2>1, <3>3 DEF F, Solves
  <2> QED
    BY <1>2, <1>3, <2>1 DEF Solves
<1>5. PICK g : /\ g = [S \in SUBSET DOMAIN s |->
                        IF S = {} THEN w ELSE DivideBit(g[S \ {Max(S)}], s[Max(S)])]
               /\ FoldLeft(DivideBit, w, s) = g[DOMAIN s]
  BY <1>4 DEF FoldLeft, MapThenFoldSet
<1>6. ASSUME NEW i \in 1..Len(s)
      PROVE  g[1..i] = DivideBit(g[1..(i - 1)], s[i])
  <2>1. Max(1..i) = i
    BY <1>3, MaxIs
  <2>2. (1..i) \ {i} = 1..(i - 1) /\ i \in 1..i /\ (1..i) \subseteq 1..Len(s)
    BY <1>3
  <2> QED
    BY <1>3, <1>5, <2>1, <2>2
<1>7. g[{}] = w /\ 1..0 = {}
  BY <1>5
<1>8. \A i \in 1..Len(s) : g[1..(i - 1)] \in Words => g[1..i] \in Words
  BY <1>3, <1>6, DivideBitTyped
<1>9. PICK v \in [0..Len(s) -> Words] : Walks(v, g, Len(s))
  <2>1. StaysIn(Words, g, Len(s))
    BY <1>7, <1>8 DEF StaysIn
  <2> QED
    BY <1>3, <2>1, FoldWalk
<1>10. v[0] = w /\ v[Len(s)] = FoldLeft(DivideBit, w, s)
  BY <1>3, <1>5, <1>7, <1>9 DEF Walks
<1>11. ASSUME NEW i \in 1..Len(s)
       PROVE  v[i] = DivideBit(v[i - 1], s[i])
  <2>1. i \in 0..Len(s) /\ i - 1 \in 0..Len(s)
    BY <1>3
  <2> QED
    BY <1>6, <1>9, <2>1 DEF Walks
<1> QED
  BY <1>10, <1>11

----------------------------------------------------------------------------
(* Long division, bit by bit *)

\* Whether the polynomial is subtracted: the bit that leaves the word is not the
\* next of the content.
Feedback(w, bit) == (31 \in w) # bit

\* The lowest bit of a word tells whether the polynomial was subtracted; and between
\* two words from which it was, or was not, the other bits differ as they did, one
\* place lower, before.
LEMMA BitStep ==
    ASSUME NEW w \in Words, NEW x \in Words, NEW p \in BOOLEAN, NEW q \in BOOLEAN
    PROVE  /\ 0 \in DivideBit(w, p) <=> Feedback(w, p)
           /\ (Feedback(w, p) <=> Feedback(x, q)) => \A k \in 0..30 :
                (k + 1 \in DivideBit(w, p) <=> k + 1 \in DivideBit(x, q)) <=>
                (k \in w <=> k \in x)
<1>1. ASSUME NEW y \in Words
      PROVE  /\ 0 \notin {b + 1 : b \in y \ {31}}
             /\ \A k \in 0..30 : k + 1 \in {b + 1 : b \in y \ {31}} <=> k \in y
  BY DEF Words
<1>2. ASSUME NEW y \in Words, NEW r \in BOOLEAN
      PROVE  /\ 0 \in DivideBit(y, r) <=> Feedback(y, r)
             /\ \A k \in 0..30 : k + 1 \in DivideBit(y, r) <=>
                  IF Feedback(y, r) THEN ~(k \in y <=> k + 1 \in Polynomial) ELSE k \in y
  <2> DEFINE shifted == {b + 1 : b \in y \ {31}}
  <2>1. 0 \notin shifted /\ \A k \in 0..30 : k + 1 \in shifted <=> k \in y
    BY <1>1
  <2>2. DivideBit(y, r) = IF Feedback(y, r) THEN Xor(shifted, Polynomial) ELSE shifted
    BY DEF DivideBit, Feedback
  <2>3. 0 \in Polynomial
    BY DEF Polynomial
  <2> HIDE DEF shifted
  <2> QED
    BY <2>1, <2>2, <2>3 DEF Xor
<1> QED
  BY <1>2

LEMMA ByteBits ==
    ASSUME NEW c \in Byte
    PROVE  /\ [i \in 1..8 |-> 8 - i \in c] \in Seq(BOOLEAN)
           /\ Len([i \in 1..8 |-> 8 - i \in c]) = 8
  OBVIOUS

\* A byte is divided in eight steps.
LEMMA ByteWalk ==
    ASSUME NEW w \in Words, NEW c \in Byte
    PROVE  \E v \in [0..8 -> Words] :
             /\ v[0] = w /\ v[8] = DivideByte(w, c)
             /\ \A i \in 1..8 : v[i] = DivideBit(v[i - 1], 8 - i \in c)
<1> DEFINE s == [i \in 1..8 |-> 8 - i \in c]
<1>1. s \in Seq(BOOLEAN) /\ Len(s) = 8
  BY ByteBits
<1>2. \A i \in 1..8 : s[i] = (8 - i \in c)
  OBVIOUS
<1>3. DivideByte(w, c) = FoldLeft(DivideBit, w, s)
  BY DEF DivideByte
<1> HIDE DEF s
<1>4. PICK v \in [0..Len(s) -> Words] :
        /\ v[0] = w /\ v[Len(s)] = FoldLeft(DivideBit, w, s)
        /\ \A i \in 1..Len(s) : v[i] = DivideBit(v[i - 1], s[i])
  BY <1>1, DivideBitFold
<1>5. ASSUME NEW i \in 1..8
      PROVE  v[i] = DivideBit(v[i - 1], 8 - i \in c)
  <2>1. s[i] = (8 - i \in c)
    BY <1>2
  <2>2. v[i] = DivideBit(v[i - 1], s[i])
    BY <1>1, <1>4
  <2> QED
    BY <2>1, <2>2, Zenon
<1>6. v[0] = w /\ v[8] = DivideByte(w, c) /\ v \in [0..8 -> Words]
  BY <1>1, <1>3, <1>4
<1> QED
  BY <1>5, <1>6, Zenon

LEMMA DivideByteTyped ==
    ASSUME NEW w \in Words, NEW c \in Byte
    PROVE  DivideByte(w, c) \in Words
BY ByteWalk

LEMMA DivideFold ==
    ASSUME NEW w \in Words, NEW s \in Seq(Byte)
    PROVE  \E v \in [0..Len(s) -> Words] :
             /\ v[0] = w /\ v[Len(s)] = FoldLeft(DivideByte, w, s)
             /\ \A i \in 1..Len(s) : v[i] = DivideByte(v[i - 1], s[i])
<1> DEFINE F == [x \in Words \X Byte |-> DivideByte(x[1], x[2])]
<1>1. F \in [Words \X Byte -> Words]
  BY DivideByteTyped
<1>2. PICK f \in [SUBSET (1..Len(s)) -> Words] : Solves(f, F, w, s)
  <2> HIDE DEF F
  <2> QED
    BY <1>1, FoldExists
<1> HIDE DEF F
<1>3. Len(s) \in Nat /\ DOMAIN s = 1..Len(s) /\ \A i \in 1..Len(s) : s[i] \in Byte
  OBVIOUS
<1>4. f = [S \in SUBSET DOMAIN s |->
             IF S = {} THEN w ELSE DivideByte(f[S \ {Max(S)}], s[Max(S)])]
  <2>1. ASSUME NEW S \in SUBSET (1..Len(s)), S # {}
        PROVE  f[S] = DivideByte(f[S \ {Max(S)}], s[Max(S)])
    <3>1. Max(S) \in S
      BY <1>3, <2>1, MaxIn
    <3>2. S \ {Max(S)} \in SUBSET (1..Len(s)) /\ Max(S) \in 1..Len(s)
      BY <3>1
    <3>3. f[S \ {Max(S)}] \in Words /\ s[Max(S)] \in Byte
      BY <1>3, <3>2
    <3> QED
      BY <1>2, <2>1, <3>3 DEF F, Solves
  <2> QED
    BY <1>2, <1>3, <2>1 DEF Solves
<1>5. PICK g : /\ g = [S \in SUBSET DOMAIN s |->
                        IF S = {} THEN w ELSE DivideByte(g[S \ {Max(S)}], s[Max(S)])]
               /\ FoldLeft(DivideByte, w, s) = g[DOMAIN s]
  BY <1>4 DEF FoldLeft, MapThenFoldSet
<1>6. ASSUME NEW i \in 1..Len(s)
      PROVE  g[1..i] = DivideByte(g[1..(i - 1)], s[i])
  <2>1. Max(1..i) = i
    BY <1>3, MaxIs
  <2>2. (1..i) \ {i} = 1..(i - 1) /\ i \in 1..i /\ (1..i) \subseteq 1..Len(s)
    BY <1>3
  <2> QED
    BY <1>3, <1>5, <2>1, <2>2
<1>7. g[{}] = w /\ 1..0 = {}
  BY <1>5
<1>8. \A i \in 1..Len(s) : g[1..(i - 1)] \in Words => g[1..i] \in Words
  BY <1>3, <1>6, DivideByteTyped
<1>9. PICK v \in [0..Len(s) -> Words] : Walks(v, g, Len(s))
  <2>1. StaysIn(Words, g, Len(s))
    BY <1>7, <1>8 DEF StaysIn
  <2> QED
    BY <1>3, <2>1, FoldWalk
<1>10. v[0] = w /\ v[Len(s)] = FoldLeft(DivideByte, w, s)
  BY <1>3, <1>5, <1>7, <1>9 DEF Walks
<1>11. ASSUME NEW i \in 1..Len(s)
       PROVE  v[i] = DivideByte(v[i - 1], s[i])
  <2>1. i \in 0..Len(s) /\ i - 1 \in 0..Len(s)
    BY <1>3
  <2> QED
    BY <1>6, <1>9, <2>1 DEF Walks
<1> QED
  BY <1>10, <1>11

----------------------------------------------------------------------------
(* The table *)

\* One turn of update with the table is the division of one byte: what leaves the word
\* chooses, together with the byte, what is subtracted.
LEMMA TurnIsDivision ==
    ASSUME NEW w \in Words, NEW c \in Byte
    PROVE  Turn(w, c) = DivideByte(w, c)
<1> DEFINE x == Xor(Top(w), c)
<1>1. x \in Byte /\ {} \in Words
  BY TopTyped, XorTyped DEF Words
<1>2. ASSUME NEW i \in 1..8
      PROVE  8 - i \in x <=> ~(8 - i \in c <=> 32 - i \in w)
  <2>1. 8 - i \in Top(w) <=> 32 - i \in w
    BY DEF Top
  <2> QED
    BY <2>1 DEF Xor
<1> HIDE DEF x
<1>3. PICK v \in [0..8 -> Words] :
        /\ v[0] = w /\ v[8] = DivideByte(w, c)
        /\ \A i \in 1..8 : v[i] = DivideBit(v[i - 1], 8 - i \in c)
  BY ByteWalk
<1>4. PICK u \in [0..8 -> Words] :
        /\ u[0] = {} /\ u[8] = DivideByte({}, x)
        /\ \A i \in 1..8 : u[i] = DivideBit(u[i - 1], 8 - i \in x)
  BY <1>1, ByteWalk
\* After i bits the two words differ by w, i places higher.
<1> DEFINE Apart(i) == \A b \in 0..31 : (b \in v[i] <=> b \in u[i]) <=> b - i \notin w
<1>5. Apart(0)
  BY <1>3, <1>4
<1>6. ASSUME NEW i \in 1..8, Apart(i - 1)
      PROVE  Apart(i)
  <2> DEFINE p == 8 - i \in c
  <2> DEFINE q == 8 - i \in x
  <2>1. v[i - 1] \in Words /\ u[i - 1] \in Words /\ p \in BOOLEAN /\ q \in BOOLEAN
    OBVIOUS
  <2>2. v[i] = DivideBit(v[i - 1], p) /\ u[i] = DivideBit(u[i - 1], q)
    BY <1>3, <1>4, Zenon
  <2>3. (31 \in v[i - 1] <=> 31 \in u[i - 1]) <=> 32 - i \notin w
    BY <1>6
  <2>4. Feedback(v[i - 1], p) <=> Feedback(u[i - 1], q)
    BY <1>2, <2>3 DEF Feedback
  <2> HIDE DEF p, q
  <2>5. 0 \in v[i] <=> 0 \in u[i]
    BY <2>1, <2>2, <2>4, BitStep
  <2>6. \A k \in 0..30 : (k + 1 \in v[i] <=> k + 1 \in u[i]) <=>
                         (k \in v[i - 1] <=> k \in u[i - 1])
    BY <2>1, <2>2, <2>4, BitStep
  <2>7. ASSUME NEW b \in 0..31
        PROVE  (b \in v[i] <=> b \in u[i]) <=> b - i \notin w
    <3>1. CASE b = 0
      <4>1. 0 - i \notin w
        BY DEF Words
      <4> QED
        BY <2>5, <3>1, <4>1
    <3>2. CASE b # 0
      <4>1. b - 1 \in 0..30 /\ (b - 1) + 1 = b /\ (b - 1) - (i - 1) = b - i
        BY <3>2
      <4>2. (b - 1 \in v[i - 1] <=> b - 1 \in u[i - 1]) <=> b - i \notin w
        BY <1>6, <4>1
      <4> QED
        BY <2>6, <4>1, <4>2
    <3> QED
      BY <3>1, <3>2
  <2> QED
    BY <2>7
<1> HIDE DEF Apart
<1>7. Apart(8)
  BY <1>5, <1>6
<1>8. DivideByte(w, c) = Xor(DivideByte({}, x), Shift(w))
  <2>1. \A b \in 0..31 : b \in Shift(w) <=> b - 8 \in w
    BY DEF Shift, Words
  <2>2. Shift(w) \in Words /\ v[8] \in Words /\ u[8] \in Words
    BY TopTyped
  <2>3. v[8] = Xor(u[8], Shift(w))
    BY <1>7, <2>1, <2>2 DEF Apart, Xor, Words
  <2> QED
    BY <1>3, <1>4, <2>3
<1>9. crctab[x] = DivideByte({}, x)
  BY <1>1, TableAssumption
<1> QED
  BY <1>8, <1>9 DEF Turn, x

\* Over any content the table's words are those of long division.
LEMMA FoldIsDivision ==
    ASSUME NEW w \in Words, NEW s \in Seq(Byte)
    PROVE  FoldLeft(Turn, w, s) = FoldLeft(DivideByte, w, s)
<1>1. PICK v \in [0..Len(s) -> Words] :
        /\ v[0] = w /\ v[Len(s)] = FoldLeft(Turn, w, s)
        /\ \A i \in 1..Len(s) : v[i] = Turn(v[i - 1], s[i])
  BY TurnFold
<1>2. PICK u \in [0..Len(s) -> Words] :
        /\ u[0] = w /\ u[Len(s)] = FoldLeft(DivideByte, w, s)
        /\ \A i \in 1..Len(s) : u[i] = DivideByte(u[i - 1], s[i])
  BY DivideFold
<1>3. Len(s) \in Nat /\ \A i \in 1..Len(s) : s[i] \in Byte
  OBVIOUS
<1> DEFINE T == {i \in Nat : i <= Len(s) => v[i] = u[i]}
<1>4. 0 \in T
  BY <1>1, <1>2
<1>5. ASSUME NEW i \in Nat, i \in T
      PROVE  i + 1 \in T
  <2> SUFFICES ASSUME i + 1 <= Len(s)
               PROVE  v[i + 1] = u[i + 1]
    OBVIOUS
  <2>1. i + 1 \in 1..Len(s) /\ (i + 1) - 1 = i /\ i \in 0..Len(s)
    BY <1>3
  <2>2. v[i] = u[i] /\ v[i] \in Words
    BY <1>3, <1>5, <2>1
  <2> QED
    BY <1>1, <1>2, <1>3, <2>1, <2>2, TurnIsDivision
<1> HIDE DEF T
<1>6. Len(s) \in T
  BY <1>3, <1>4, <1>5, AllNumbers
<1> QED
  BY <1>1, <1>2, <1>6 DEF T

----------------------------------------------------------------------------
(* What the division keeps apart *)

LEMMA BitsDecide ==
    ASSUME NEW w \in Words, NEW x \in Words, \A b \in 0..31 : b \in w <=> b \in x
    PROVE  w = x
BY DEF Words

\* Different words stay different whatever byte comes next.
LEMMA ByteInjective ==
    ASSUME NEW w \in Words, NEW x \in Words, NEW c \in Byte,
           DivideByte(w, c) = DivideByte(x, c)
    PROVE  w = x
<1>1. PICK v \in [0..8 -> Words] :
        /\ v[0] = w /\ v[8] = DivideByte(w, c)
        /\ \A i \in 1..8 : v[i] = DivideBit(v[i - 1], 8 - i \in c)
  BY ByteWalk
<1>2. PICK u \in [0..8 -> Words] :
        /\ u[0] = x /\ u[8] = DivideByte(x, c)
        /\ \A i \in 1..8 : u[i] = DivideBit(u[i - 1], 8 - i \in c)
  BY ByteWalk
<1>3. ASSUME NEW i \in 1..8, v[i] = u[i]
      PROVE  v[i - 1] = u[i - 1]
  <2> DEFINE p == 8 - i \in c
  <2>1. v[i - 1] \in Words /\ u[i - 1] \in Words /\ p \in BOOLEAN
    OBVIOUS
  <2>2. v[i] = DivideBit(v[i - 1], p) /\ u[i] = DivideBit(u[i - 1], p)
    BY <1>1, <1>2, Zenon
  <2> HIDE DEF p
  <2>3. Feedback(v[i - 1], p) <=> Feedback(u[i - 1], p)
    <3>1. 0 \in v[i] <=> Feedback(v[i - 1], p)
      BY <2>1, <2>2, BitStep
    <3>2. 0 \in u[i] <=> Feedback(u[i - 1], p)
      BY <2>1, <2>2, BitStep
    <3> QED
      BY <1>3, <3>1, <3>2
  <2>4. \A k \in 0..30 : k \in v[i - 1] <=> k \in u[i - 1]
    <3>1. \A k \in 0..30 : (k + 1 \in v[i] <=> k + 1 \in u[i]) <=>
                           (k \in v[i - 1] <=> k \in u[i - 1])
      BY <2>1, <2>2, <2>3, BitStep
    <3> QED
      BY <1>3, <3>1
  <2>5. 31 \in v[i - 1] <=> 31 \in u[i - 1]
    BY <2>1, <2>3 DEF Feedback
  <2>6. \A b \in 0..31 : b \in v[i - 1] <=> b \in u[i - 1]
    BY <2>4, <2>5
  <2> QED
    BY <2>1, <2>6, BitsDecide
<1> QED
  BY <1>1, <1>2, <1>3

\* Whatever bytes come next.
LEMMA FoldInjective ==
    ASSUME NEW w \in Words, NEW x \in Words, NEW s \in Seq(Byte), w # x
    PROVE  FoldLeft(DivideByte, w, s) # FoldLeft(DivideByte, x, s)
<1>1. PICK v \in [0..Len(s) -> Words] :
        /\ v[0] = w /\ v[Len(s)] = FoldLeft(DivideByte, w, s)
        /\ \A i \in 1..Len(s) : v[i] = DivideByte(v[i - 1], s[i])
  BY DivideFold
<1>2. PICK u \in [0..Len(s) -> Words] :
        /\ u[0] = x /\ u[Len(s)] = FoldLeft(DivideByte, x, s)
        /\ \A i \in 1..Len(s) : u[i] = DivideByte(u[i - 1], s[i])
  BY DivideFold
<1>3. Len(s) \in Nat /\ \A i \in 1..Len(s) : s[i] \in Byte
  OBVIOUS
<1> DEFINE T == {i \in Nat : i <= Len(s) => v[i] # u[i]}
<1>4. 0 \in T
  BY <1>1, <1>2
<1>5. ASSUME NEW i \in Nat, i \in T
      PROVE  i + 1 \in T
  <2> SUFFICES ASSUME i + 1 <= Len(s)
               PROVE  v[i + 1] # u[i + 1]
    OBVIOUS
  <2>1. i + 1 \in 1..Len(s) /\ (i + 1) - 1 = i /\ i \in 0..Len(s)
    BY <1>3
  <2>2. v[i] # u[i] /\ v[i] \in Words /\ u[i] \in Words
    BY <1>3, <1>5, <2>1
  <2> QED
    BY <1>1, <1>2, <1>3, <2>1, <2>2, ByteInjective
<1> HIDE DEF T
<1>6. Len(s) \in T
  BY <1>3, <1>4, <1>5, AllNumbers
<1> QED
  BY <1>1, <1>2, <1>6 DEF T

\* Two words have the same bits 0..j.
LowBits(j, w, x) == \A b \in 0..j : b \in w <=> b \in x

\* Two words that agree in their bits 0..j after a byte each, j at least 7, agreed in
\* their bits 0..(j - 8) before it; and if they were equal, so are the bytes.
LEMMA ByteBack ==
    ASSUME NEW w \in Words, NEW x \in Words, NEW c \in Byte, NEW d \in Byte, NEW j \in 7..31,
           LowBits(j, DivideByte(w, c), DivideByte(x, d))
    PROVE  LowBits(j - 8, w, x) /\ (w = x => c = d)
<1>1. PICK v \in [0..8 -> Words] :
        /\ v[0] = w /\ v[8] = DivideByte(w, c)
        /\ \A i \in 1..8 : v[i] = DivideBit(v[i - 1], 8 - i \in c)
  BY ByteWalk
<1>2. PICK u \in [0..8 -> Words] :
        /\ u[0] = x /\ u[8] = DivideByte(x, d)
        /\ \A i \in 1..8 : u[i] = DivideBit(u[i - 1], 8 - i \in d)
  BY ByteWalk
<1> DEFINE Agree(i) == \A b \in 0..(j - 8 + i) : b \in v[i] <=> b \in u[i]
<1> DEFINE SameFeedback(i) ==
             Feedback(v[i - 1], 8 - i \in c) <=> Feedback(u[i - 1], 8 - i \in d)
<1>3. Agree(8)
  BY <1>1, <1>2 DEF LowBits
<1>4. ASSUME NEW i \in 1..8, Agree(i)
      PROVE  SameFeedback(i) /\ Agree(i - 1)
  <2> DEFINE p == 8 - i \in c
  <2> DEFINE q == 8 - i \in d
  <2>1. v[i - 1] \in Words /\ u[i - 1] \in Words /\ p \in BOOLEAN /\ q \in BOOLEAN
    OBVIOUS
  <2>2. v[i] = DivideBit(v[i - 1], p) /\ u[i] = DivideBit(u[i - 1], q)
    BY <1>1, <1>2, Zenon
  <2>3. SameFeedback(i) <=> (Feedback(v[i - 1], p) <=> Feedback(u[i - 1], q))
    BY Zenon
  <2> HIDE DEF p, q, SameFeedback
  <2>4. 0 \in v[i] <=> 0 \in u[i]
    BY <1>4
  <2>5. Feedback(v[i - 1], p) <=> Feedback(u[i - 1], q)
    BY <2>1, <2>2, <2>4, BitStep
  <2>6. \A k \in 0..30 : (k + 1 \in v[i] <=> k + 1 \in u[i]) <=>
                         (k \in v[i - 1] <=> k \in u[i - 1])
    BY <2>1, <2>2, <2>5, BitStep
  <2>7. ASSUME NEW b \in 0..(j - 8 + (i - 1))
        PROVE  b \in v[i - 1] <=> b \in u[i - 1]
    <3>1. b \in 0..30 /\ b + 1 \in 0..(j - 8 + i)
      OBVIOUS
    <3> QED
      BY <1>4, <2>6, <3>1
  <2> QED
    BY <2>3, <2>5, <2>7
<1>5. ASSUME NEW i \in 1..8, SameFeedback(i), v[i - 1] = u[i - 1]
      PROVE  v[i] = u[i] /\ (8 - i \in c <=> 8 - i \in d)
  <2>1. 8 - i \in c <=> 8 - i \in d
    BY <1>5 DEF Feedback
  <2>2. (8 - i \in c) = (8 - i \in d)
    BY <2>1
  <2>3. v[i] = DivideBit(v[i - 1], 8 - i \in c) /\ u[i] = DivideBit(u[i - 1], 8 - i \in d)
    BY <1>1, <1>2, Zenon
  <2> QED
    BY <1>5, <2>1, <2>2, <2>3, Zenon
<1> HIDE DEF Agree, SameFeedback
<1>6. Agree(0) /\ \A i \in 1..8 : SameFeedback(i)
  <2>1. \A i \in 1..8 : Agree(i) => SameFeedback(i) /\ Agree(i - 1)
    BY <1>4
  <2>2. Agree(7)
    <3>1. 8 \in 1..8 /\ 8 - 1 = 7
      OBVIOUS
    <3> QED
      BY <1>3, <2>1, <3>1
  <2>3. Agree(6) /\ Agree(5) /\ Agree(4) /\ Agree(3) /\ Agree(2) /\ Agree(1) /\ Agree(0)
    BY <2>1, <2>2
  <2> QED
    BY <1>3, <2>1, <2>2, <2>3
<1>7. ASSUME w = x
      PROVE  c = d
  <2>1. \A i \in 1..8 : 8 - i \in c <=> 8 - i \in d
    <3>1. v[0] = u[0]
      BY <1>1, <1>2, <1>7
    <3>2. \A i \in 1..8 : v[i - 1] = u[i - 1] => v[i] = u[i] /\ (8 - i \in c <=> 8 - i \in d)
      BY <1>5, <1>6
    <3> QED
      BY <3>1, <3>2
  <2>2. ASSUME NEW b \in 0..7
        PROVE  b \in c <=> b \in d
    <3>1. 8 - b \in 1..8 /\ 8 - (8 - b) = b
      OBVIOUS
    <3> QED
      BY <2>1, <3>1
  <2> QED
    BY <2>2 DEF Byte
<1> QED
  BY <1>1, <1>2, <1>6, <1>7 DEF Agree, LowBits

\* v are the words of a division of n bytes.
Divides(v, s, n) == \A i \in 1..n : v[i] = DivideByte(v[i - 1], s[i])

\* Two walks over at most four bytes each that begin and end with equal words have been
\* over the same bytes.
LEMMA SameBytes ==
    ASSUME NEW n \in 0..4, NEW v \in [0..n -> Words], NEW u \in [0..n -> Words],
           NEW s \in [1..n -> Byte], NEW r \in [1..n -> Byte],
           Divides(v, s, n), Divides(u, r, n),
           v[0] = u[0], v[n] = u[n]
    PROVE  \A i \in 1..n : s[i] = r[i]
\* Going back from the end the words agree in fewer and fewer bits, and always in
\* those that tell what was subtracted.
<1> DEFINE Agree(m) == LowBits(31 - 8 * m, v[n - m], u[n - m])
<1>1. ASSUME NEW m \in 0..(n - 1), Agree(m)
      PROVE  /\ Agree(m + 1)
             /\ v[n - m - 1] = u[n - m - 1] => s[n - m] = r[n - m] /\ v[n - m] = u[n - m]
  <2> DEFINE i == n - m
  <2> DEFINE j == 31 - 8 * m
  <2>1. /\ i \in 1..n /\ i - 1 \in 0..n
        /\ i - 1 = n - (m + 1) /\ i - 1 = n - m - 1
        /\ j \in 7..31 /\ j - 8 = 31 - 8 * (m + 1)
    <3>1. i \in 1..n /\ i - 1 \in 0..n
      OBVIOUS
    <3>2. i - 1 = n - (m + 1) /\ i - 1 = n - m - 1
      OBVIOUS
    <3>3. j \in 7..31 /\ j - 8 = 31 - 8 * (m + 1)
      OBVIOUS
    <3> QED
      BY <3>1, <3>2, <3>3
  <2>2. LowBits(j, v[i], u[i])
    BY <1>1
  <2> HIDE DEF i, j
  <2>3. v[i - 1] \in Words /\ u[i - 1] \in Words /\ s[i] \in Byte /\ r[i] \in Byte
    BY <2>1
  <2>4. v[i] = DivideByte(v[i - 1], s[i]) /\ u[i] = DivideByte(u[i - 1], r[i])
    BY <2>1 DEF Divides
  <2>5. LowBits(j - 8, v[i - 1], u[i - 1]) /\ (v[i - 1] = u[i - 1] => s[i] = r[i])
    <3>1. LowBits(j, DivideByte(v[i - 1], s[i]), DivideByte(u[i - 1], r[i]))
      BY <2>2, <2>4
    <3>2. j \in 7..31
      BY <2>1
    <3> DEFINE a == v[i - 1]
    <3> DEFINE b == u[i - 1]
    <3> DEFINE c == s[i]
    <3> DEFINE d == r[i]
    <3>3. a \in Words /\ b \in Words /\ c \in Byte /\ d \in Byte
          /\ LowBits(j, DivideByte(a, c), DivideByte(b, d))
      BY <2>3, <3>1
    <3> HIDE DEF a, b, c, d
    <3>4. LowBits(j - 8, a, b) /\ (a = b => c = d)
      BY <3>2, <3>3, ByteBack
    <3> QED
      BY <3>4 DEF a, b, c, d
  <2>6. v[i - 1] = u[i - 1] => s[i] = r[i] /\ v[i] = u[i]
    BY <2>4, <2>5
  <2>7. Agree(m + 1)
    BY <2>1, <2>5
  <2> QED
    BY <2>1, <2>6, <2>7 DEF i
<1> HIDE DEF Agree
<1>2. ASSUME NEW m \in 0..(n - 1)
      PROVE  v[n - m - 1] = u[n - m - 1] => s[n - m] = r[n - m] /\ v[n - m] = u[n - m]
  <2> DEFINE T == {k \in Nat : k <= n - 1 => Agree(k)}
  <2>1. 0 \in T
    BY DEF Agree, LowBits
  <2>2. ASSUME NEW k \in Nat, k \in T
        PROVE  k + 1 \in T
    BY <1>1, <2>2
  <2> HIDE DEF T
  <2>3. m \in Nat
    OBVIOUS
  <2>4. m \in T
    BY <2>1, <2>2, <2>3, AllNumbers
  <2> QED
    BY <1>1, <2>4 DEF T
\* So from the beginning on bytes and words are equal.
<1>3. ASSUME NEW i \in 1..n, v[i - 1] = u[i - 1]
      PROVE  s[i] = r[i] /\ v[i] = u[i]
  <2> DEFINE m == n - i
  <2>1. m \in 0..(n - 1) /\ n - m = i /\ n - m - 1 = i - 1
    OBVIOUS
  <2> HIDE DEF m
  <2> QED
    BY <1>2, <1>3, <2>1
<1> DEFINE T == {i \in Nat : i <= n => v[i] = u[i]}
<1>4. 0 \in T
  OBVIOUS
<1>5. ASSUME NEW i \in Nat, i \in T
      PROVE  i + 1 \in T
  <2> SUFFICES ASSUME i + 1 <= n
               PROVE  v[i + 1] = u[i + 1]
    OBVIOUS
  <2>1. i + 1 \in 1..n /\ (i + 1) - 1 = i /\ v[i] = u[i]
    BY <1>5
  <2> QED
    BY <1>3, <2>1
<1> HIDE DEF T
<1>6. ASSUME NEW i \in 1..n
      PROVE  s[i] = r[i]
  <2>1. i - 1 \in Nat /\ i - 1 <= n
    OBVIOUS
  <2>2. i - 1 \in T
    BY <1>4, <1>5, <2>1, AllNumbers
  <2>3. v[i - 1] = u[i - 1]
    BY <2>1, <2>2 DEF T
  <2> QED
    BY <1>3, <2>3
<1> QED
  BY <1>6

LEMMA FlippedTyped ==
    ASSUME NEW s \in Seq(Byte), NEW burst \in Damage, NEW at \in 1..(Len(s) - Len(burst) + 1)
    PROVE  /\ Len(burst) \in 1..4 /\ at + Len(burst) - 1 \in 1..Len(s)
           /\ Flipped(s, burst, at) \in Seq(Byte) /\ Len(Flipped(s, burst, at)) = Len(s)
           /\ \A i \in 1..Len(s) : Flipped(s, burst, at)[i] =
                IF i \in at..(at + Len(burst) - 1) THEN Xor(s[i], burst[i - at + 1]) ELSE s[i]
           /\ \E k \in 1..Len(burst) : burst[k] # {}
<1>1. burst \in Seq(Byte) /\ Len(burst) <= 4 /\ \E k \in DOMAIN burst : burst[k] # {}
  BY DamageAssumption
<1>2. Len(burst) \in 1..4 /\ \E k \in 1..Len(burst) : burst[k] # {}
  <2>1. DOMAIN burst = 1..Len(burst) /\ Len(burst) \in Nat
    BY <1>1
  <2>2. \E k \in 1..Len(burst) : burst[k] # {}
    BY <1>1, <2>1, Zenon
  <2> DEFINE n == Len(burst)
  <2>3. n \in Nat /\ n <= 4 /\ 1..n # {}
    BY <1>1, <2>1, <2>2, Zenon
  <2>4. n \in 1..4
    <3> HIDE DEF n
    <3> QED
      BY <2>3
  <2> QED
    BY <2>2, <2>4
<1>3. at + Len(burst) - 1 \in 1..Len(s) /\ Len(s) \in Nat /\ DOMAIN s = 1..Len(s)
  BY <1>2
<1> DEFINE r == [i \in 1..Len(s) |->
      IF i \in at..(at + Len(burst) - 1) THEN Xor(s[i], burst[i - at + 1]) ELSE s[i]]
<1>4. Flipped(s, burst, at) = r
  BY <1>3 DEF Flipped
<1>5. ASSUME NEW i \in 1..Len(s)
      PROVE  r[i] \in Byte
  <2>1. s[i] \in Byte
    OBVIOUS
  <2>2. ASSUME i \in at..(at + Len(burst) - 1)
        PROVE  burst[i - at + 1] \in Byte
    <3>1. i - at + 1 \in 1..Len(burst)
      BY <1>2, <2>2
    <3> QED
      BY <1>1, <3>1
  <2> QED
    BY <2>1, <2>2, XorTyped
<1>6. r \in Seq(Byte) /\ Len(r) = Len(s)
  BY <1>3, <1>5
<1> QED
  BY <1>2, <1>3, <1>4, <1>6

\* A burst changes the word it is in, whatever follows in the same buffer.
LEMMA BurstDiffers ==
    ASSUME NEW w \in Words, NEW s \in Seq(Byte),
           NEW burst \in Damage, NEW at \in 1..(Len(s) - Len(burst) + 1)
    PROVE  FoldLeft(DivideByte, w, Flipped(s, burst, at)) # FoldLeft(DivideByte, w, s)
<1> DEFINE r == Flipped(s, burst, at)
<1> DEFINE n == Len(burst)
<1> DEFINE e == at + n - 1
<1>1. /\ n \in 1..4 /\ at \in Nat /\ at >= 1 /\ e = at + n - 1
      /\ Len(s) \in Nat /\ e \in 1..Len(s)
  <2>1. n \in 1..4 /\ e \in 1..Len(s)
    BY FlippedTyped
  <2>2. Len(s) \in Nat
    OBVIOUS
  <2>3. at \in Nat /\ at >= 1
    BY <2>1, <2>2
  <2> QED
    BY <2>1, <2>2, <2>3
<1>2. /\ r \in Seq(Byte) /\ Len(r) = Len(s)
      /\ \A i \in 1..Len(s) : r[i] = IF i \in at..e THEN Xor(s[i], burst[i - at + 1]) ELSE s[i]
      /\ \A i \in 1..Len(s) : s[i] \in Byte /\ r[i] \in Byte
      /\ \E k \in 1..n : burst[k] # {}
  <2>1. /\ r \in Seq(Byte) /\ Len(r) = Len(s)
        /\ \A i \in 1..Len(s) : r[i] = IF i \in at..e THEN Xor(s[i], burst[i - at + 1]) ELSE s[i]
        /\ \E k \in 1..n : burst[k] # {}
    BY FlippedTyped
  <2> HIDE DEF r, n, e
  <2> QED
    BY <2>1
<1> HIDE DEF r, n, e
<1> SUFFICES ASSUME FoldLeft(DivideByte, w, r) = FoldLeft(DivideByte, w, s)
             PROVE  FALSE
  BY DEF r
<1>3. PICK v \in [0..Len(s) -> Words] :
        /\ v[0] = w /\ v[Len(s)] = FoldLeft(DivideByte, w, s)
        /\ \A i \in 1..Len(s) : v[i] = DivideByte(v[i - 1], s[i])
  BY DivideFold
<1>4. PICK u \in [0..Len(s) -> Words] :
        /\ u[0] = w /\ u[Len(s)] = FoldLeft(DivideByte, w, r)
        /\ \A i \in 1..Len(s) : u[i] = DivideByte(u[i - 1], r[i])
  <2>1. \E x \in [0..Len(r) -> Words] :
        /\ x[0] = w /\ x[Len(r)] = FoldLeft(DivideByte, w, r)
        /\ \A i \in 1..Len(r) : x[i] = DivideByte(x[i - 1], r[i])
    BY <1>2, DivideFold
  <2> QED
    BY <1>2, <2>1
\* Before the burst the words are equal ...
<1>5. v[at - 1] = u[at - 1]
  <2> DEFINE T == {i \in Nat : i <= at - 1 => v[i] = u[i]}
  <2>1. 0 \in T
    BY <1>3, <1>4
  <2>2. ASSUME NEW i \in Nat, i \in T
        PROVE  i + 1 \in T
    <3> SUFFICES ASSUME i + 1 <= at - 1
                 PROVE  v[i + 1] = u[i + 1]
      OBVIOUS
    <3>1. i + 1 \in 1..Len(s) /\ (i + 1) - 1 = i /\ i + 1 \notin at..e /\ v[i] = u[i]
      BY <1>1, <2>2
    <3>2. r[i + 1] = s[i + 1]
      BY <1>2, <3>1
    <3> QED
      BY <1>3, <1>4, <3>1, <3>2
  <2> HIDE DEF T
  <2>3. at - 1 \in T
    BY <2>1, <2>2, AllNumbers
  <2> QED
    BY <2>3 DEF T
\* ... and after it: had they been different they would have stayed so.
<1>6. v[e] = u[e]
  <2> SUFFICES ASSUME v[e] # u[e]
               PROVE  FALSE
    OBVIOUS
  <2> DEFINE T == {k \in Nat : e + k <= Len(s) => v[e + k] # u[e + k]}
  <2>1. 0 \in T
    BY <1>1
  <2>2. ASSUME NEW k \in Nat, k \in T
        PROVE  k + 1 \in T
    <3> SUFFICES ASSUME e + (k + 1) <= Len(s)
                 PROVE  v[e + (k + 1)] # u[e + (k + 1)]
      OBVIOUS
    <3> DEFINE i == e + (k + 1)
    <3>1. i \in 1..Len(s) /\ i - 1 \in 0..Len(s) /\ i \notin at..e /\ i - 1 = e + k
      BY <1>1
    <3>2. v[e + k] # u[e + k]
      BY <1>1, <2>2
    <3> HIDE DEF i
    <3>3. r[i] = s[i] /\ v[i - 1] # u[i - 1]
      BY <1>2, <3>1, <3>2
    <3>4. v[i] # u[i]
      <4>1. v[i - 1] \in Words /\ u[i - 1] \in Words /\ s[i] \in Byte
        BY <1>2, <3>1
      <4>2. v[i] = DivideByte(v[i - 1], s[i]) /\ u[i] = DivideByte(u[i - 1], s[i])
        BY <1>3, <1>4, <3>1, <3>3
      <4> QED
        BY <3>3, <4>1, <4>2, ByteInjective
    <3> QED
      BY <3>4 DEF i
  <2> HIDE DEF T
  <2>3. Len(s) - e \in Nat
    BY <1>1
  <2>4. Len(s) - e \in T
    BY <2>1, <2>2, <2>3, AllNumbers
  <2>5. e + (Len(s) - e) = Len(s)
    BY <1>1
  <2> QED
    BY <1>1, <1>3, <1>4, <2>4, <2>5 DEF T
\* So its bytes are the same.
<1>7. ASSUME NEW k \in 1..n
      PROVE  s[at + k - 1] = r[at + k - 1]
  <2> DEFINE a == [i \in 0..n |-> v[at - 1 + i]]
  <2> DEFINE b == [i \in 0..n |-> u[at - 1 + i]]
  <2> DEFINE c == [i \in 1..n |-> s[at + i - 1]]
  <2> DEFINE d == [i \in 1..n |-> r[at + i - 1]]
  <2>1. \A i \in 0..n : at - 1 + i \in 0..Len(s)
    BY <1>1
  <2>2. ASSUME NEW i \in 1..n
        PROVE  /\ at + i - 1 \in 1..Len(s) /\ at + i - 1 = at - 1 + i
               /\ at - 1 + (i - 1) = (at + i - 1) - 1 /\ i - 1 \in 0..n /\ i \in 0..n
    BY <1>1
  <2>3. a \in [0..n -> Words] /\ b \in [0..n -> Words]
    BY <2>1
  <2>4. c \in [1..n -> Byte] /\ d \in [1..n -> Byte]
    BY <1>2, <2>2
  <2>5. ASSUME NEW i \in 1..n
        PROVE  a[i] = DivideByte(a[i - 1], c[i]) /\ b[i] = DivideByte(b[i - 1], d[i])
    <3>1. /\ v[at + i - 1] = DivideByte(v[(at + i - 1) - 1], s[at + i - 1])
          /\ u[at + i - 1] = DivideByte(u[(at + i - 1) - 1], r[at + i - 1])
      BY <1>3, <1>4, <2>2
    <3>2. /\ a[i] = v[at + i - 1] /\ a[i - 1] = v[(at + i - 1) - 1]
          /\ b[i] = u[at + i - 1] /\ b[i - 1] = u[(at + i - 1) - 1]
      BY <2>2
    <3> QED
      BY <3>1, <3>2
  <2>6. a[0] = b[0] /\ a[n] = b[n]
    <3>1. 0 \in 0..n /\ n \in 0..n /\ at - 1 + 0 = at - 1 /\ at - 1 + n = e
      BY <1>1
    <3> QED
      BY <1>5, <1>6, <3>1
  <2>7. n \in 0..4
    BY <1>1
  <2>8. c[k] = d[k]
    <3>1. Divides(a, c, n) /\ Divides(b, d, n)
      BY <2>5 DEF Divides
    <3> HIDE DEF a, b, c, d
    <3> QED
      BY <2>3, <2>4, <2>6, <2>7, <3>1, SameBytes
  <2> QED
    BY <2>8
\* But one of the bytes was flipped.
<1>8. ASSUME NEW k \in 1..n
      PROVE  burst[k] = {}
  <2> DEFINE i == at + k - 1
  <2>1. s[i] = r[i]
    BY <1>7
  <2>2. i \in at..e /\ i - at + 1 = k
    BY <1>1
  <2>3. i \in 1..Len(s)
    BY <1>1
  <2> HIDE DEF i
  <2>4. s[i] = Xor(s[i], burst[k])
    BY <1>2, <2>1, <2>2, <2>3
  <2> QED
    BY <2>4 DEF Xor
<1> QED
  BY <1>2, <1>8

----------------------------------------------------------------------------
(* The class *)

LEMMA LengthTyped ==
    ASSUME NEW n \in Nat
    PROVE  LengthBytes(n) \in Seq(Byte)
<1> DEFINE K == {k \in 0..3 : 256^k <= n}
<1>1. Cardinality(K) \in Nat
  <2>1. IsFiniteSet(0..3)
    <3>1. 0 \in Int /\ 3 \in Int
      OBVIOUS
    <3> QED
      BY <3>1, FS_Interval, Zenon
  <2>2. IsFiniteSet(K)
    BY <2>1, FS_Subset
  <2> QED
    BY <2>2, FS_CardinalityType
<1>2. \A x : Ones(x, 8) \in Byte
  BY DEF Ones, Byte
<1>3. LengthBytes(n) = [i \in 1..Cardinality(K) |-> Ones((n \div 256^(i - 1)) % 256, 8)]
  BY DEF LengthBytes
<1> HIDE DEF K
<1> QED
  BY <1>1, <1>2, <1>3

LEMMA FoldTyped ==
    ASSUME NEW w \in Words, NEW s \in Seq(Byte)
    PROVE  FoldLeft(Turn, w, s) \in Words
<1>1. Len(s) \in 0..Len(s)
  OBVIOUS
<1>2. PICK v \in [0..Len(s) -> Words] : v[Len(s)] = FoldLeft(Turn, w, s)
  BY TurnFold
<1> QED
  BY <1>1, <1>2

\* A zero byte leaves the word 0 as it is ...
LEMMA ZeroByte == DivideByte({}, {}) = {}
<1>1. {} \in Words /\ {} \in Byte
  BY DEF Words, Byte
<1>2. PICK v \in [0..8 -> Words] :
        /\ v[0] = {} /\ v[8] = DivideByte({}, {})
        /\ \A i \in 1..8 : v[i] = DivideBit(v[i - 1], 8 - i \in {})
  BY <1>1, ByteWalk
<1>3. DivideBit({}, FALSE) = {}
  <2>1. {b + 1 : b \in {} \ {31}} = {}
    OBVIOUS
  <2>2. (31 \in {}) = FALSE
    OBVIOUS
  <2> QED
    BY <2>1, <2>2, Zenon DEF DivideBit
<1>4. ASSUME NEW i \in 1..8, v[i - 1] = {}
      PROVE  v[i] = {}
  <2>1. (8 - i \in {}) = FALSE
    OBVIOUS
  <2> QED
    BY <1>2, <1>3, <1>4, <2>1, Zenon
<1> QED
  BY <1>2, <1>4

\* ... and so do any number of them.
LEMMA ZeroBytes ==
    ASSUME NEW n \in Nat
    PROVE  FoldLeft(Turn, {}, [i \in 1..n |-> {}]) = {}
<1> DEFINE z == [i \in 1..n |-> {}]
<1>1. {} \in Words /\ z \in Seq(Byte) /\ Len(z) = n /\ \A i \in 1..n : z[i] = {}
  BY DEF Words, Byte
<1> HIDE DEF z
<1>2. FoldLeft(Turn, {}, z) = FoldLeft(DivideByte, {}, z)
  BY <1>1, FoldIsDivision
<1>3. PICK v \in [0..Len(z) -> Words] :
        /\ v[0] = {} /\ v[Len(z)] = FoldLeft(DivideByte, {}, z)
        /\ \A i \in 1..Len(z) : v[i] = DivideByte(v[i - 1], z[i])
  BY <1>1, DivideFold
<1> DEFINE T == {i \in Nat : i <= n => v[i] = {}}
<1>4. 0 \in T
  BY <1>3
<1>5. ASSUME NEW i \in Nat, i \in T
      PROVE  i + 1 \in T
  <2> SUFFICES ASSUME i + 1 <= n
               PROVE  v[i + 1] = {}
    OBVIOUS
  <2>1. i + 1 \in 1..n /\ (i + 1) - 1 = i /\ v[i] = {}
    BY <1>5
  <2> QED
    BY <1>1, <1>3, <2>1, ZeroByte
<1> HIDE DEF T
<1>6. n \in T
  BY <1>4, <1>5, AllNumbers
<1> QED
  <2>1. v[n] = {} /\ v[n] = FoldLeft(DivideByte, {}, z)
    BY <1>1, <1>3, <1>6 DEF T
  <2> QED
    BY <1>2, <2>1, Zenon DEF z

\* Contents of the same length, at most four bytes, are told apart.
LEMMA SameFold ==
    ASSUME NEW w \in Words, NEW s \in Seq(Byte), NEW r \in Seq(Byte),
           Len(s) = Len(r), Len(s) <= 4,
           FoldLeft(DivideByte, w, s) = FoldLeft(DivideByte, w, r)
    PROVE  s = r
<1> DEFINE n == Len(s)
<1>1. n \in 0..4 /\ s \in [1..n -> Byte] /\ r \in [1..n -> Byte]
  OBVIOUS
<1>2. PICK v \in [0..n -> Words] :
        /\ v[0] = w /\ v[n] = FoldLeft(DivideByte, w, s)
        /\ \A i \in 1..n : v[i] = DivideByte(v[i - 1], s[i])
  BY DivideFold
<1>3. PICK u \in [0..n -> Words] :
        /\ u[0] = w /\ u[n] = FoldLeft(DivideByte, w, r)
        /\ \A i \in 1..n : u[i] = DivideByte(u[i - 1], r[i])
  <2>1. \E u \in [0..Len(r) -> Words] :
          /\ u[0] = w /\ u[Len(r)] = FoldLeft(DivideByte, w, r)
          /\ \A i \in 1..Len(r) : u[i] = DivideByte(u[i - 1], r[i])
    BY DivideFold
  <2> QED
    BY <2>1
<1> HIDE DEF n
<1>4. Divides(v, s, n) /\ Divides(u, r, n) /\ v[0] = u[0] /\ v[n] = u[n]
  BY <1>2, <1>3 DEF Divides
<1>5. \A i \in 1..n : s[i] = r[i]
  BY <1>1, <1>4, SameBytes
<1> QED
  BY <1>1, <1>5

\* A zero byte in front of a content is not seen.
LEMMA ZeroPrefix ==
    ASSUME NEW s \in Seq(Byte), NEW r \in Seq(Byte),
           Len(r) = Len(s) + 1, r[1] = {}, \A i \in 1..Len(s) : r[i + 1] = s[i]
    PROVE  FoldLeft(DivideByte, {}, r) = FoldLeft(DivideByte, {}, s)
<1>1. {} \in Words /\ Len(s) \in Nat
  BY DEF Words
<1>2. PICK v \in [0..Len(s) -> Words] :
        /\ v[0] = {} /\ v[Len(s)] = FoldLeft(DivideByte, {}, s)
        /\ \A i \in 1..Len(s) : v[i] = DivideByte(v[i - 1], s[i])
  BY <1>1, DivideFold
<1>3. PICK u \in [0..Len(r) -> Words] :
        /\ u[0] = {} /\ u[Len(r)] = FoldLeft(DivideByte, {}, r)
        /\ \A i \in 1..Len(r) : u[i] = DivideByte(u[i - 1], r[i])
  BY <1>1, DivideFold
<1> DEFINE T == {i \in Nat : i <= Len(s) => u[i + 1] = v[i]}
<1>4. 0 \in T
  <2>1. 1 \in 1..Len(r) /\ 1 - 1 = 0 /\ 0 + 1 = 1
    BY <1>1
  <2>2. u[1] = {}
    BY <1>3, <2>1, ZeroByte
  <2> QED
    BY <1>2, <2>1, <2>2
<1>5. ASSUME NEW i \in Nat, i \in T
      PROVE  i + 1 \in T
  <2> SUFFICES ASSUME i + 1 <= Len(s)
               PROVE  u[(i + 1) + 1] = v[i + 1]
    OBVIOUS
  <2> DEFINE k == i + 1
  <2>1. /\ k \in 1..Len(s) /\ k + 1 \in 1..Len(r) /\ k - 1 = i /\ (k + 1) - 1 = k
        /\ u[k] = v[i]
    BY <1>1, <1>5
  <2> HIDE DEF k
  <2>2. u[k + 1] = DivideByte(u[k], r[k + 1]) /\ v[k] = DivideByte(v[i], s[k])
    BY <1>2, <1>3, <2>1
  <2>3. r[k + 1] = s[k]
    BY <2>1
  <2>4. u[k + 1] = v[k]
    BY <2>1, <2>2, <2>3
  <2> QED
    BY <2>4 DEF k
<1> HIDE DEF T
<1>6. Len(s) \in T
  BY <1>1, <1>4, <1>5, AllNumbers
<1> QED
  BY <1>1, <1>2, <1>3, <1>6 DEF T

----------------------------------------------------------------------------
(* The length *)

\* The powers of two by which a byte is cut into bits.
LEMMA Powers ==
    ASSUME NEW b
    PROVE  /\ b = 0 => 2^b = 1
           /\ b = 1 => 2^b = 2
           /\ b = 2 => 2^b = 4
           /\ b = 3 => 2^b = 8
           /\ b = 4 => 2^b = 16
           /\ b = 5 => 2^b = 32
           /\ b = 6 => 2^b = 64
           /\ b = 7 => 2^b = 128
<1>1. b = 0 => 2^b = 1
  OBVIOUS
<1>2. b = 1 => 2^b = 2
  OBVIOUS
<1>3. b = 2 => 2^b = 4
  OBVIOUS
<1>4. b = 3 => 2^b = 8
  OBVIOUS
<1>5. b = 4 => 2^b = 16
  OBVIOUS
<1>6. b = 5 => 2^b = 32
  OBVIOUS
<1>7. b = 6 => 2^b = 64
  OBVIOUS
<1>8. b = 7 => 2^b = 128
  OBVIOUS
<1> QED
  BY <1>1, <1>2, <1>3, <1>4, <1>5, <1>6, <1>7, <1>8

Bit(n, b) == (n \div 2^b) % 2

LEMMA OnesAre ==
    ASSUME NEW n
    PROVE  Ones(n, 8) = {b \in 0..7 : Bit(n, b) = 1}
<1>1. Ones(n, 8) = {b \in 0..(8 - 1) : Bit(n, b) = 1}
  BY Zenon DEF Ones, Bit
<1>2. 0..(8 - 1) = 0..7
  OBVIOUS
<1> QED
  BY <1>1, <1>2, Zenon

LEMMA BitsAre ==
    ASSUME NEW n \in Nat
    PROVE  /\ Bit(n, 0) = n % 2 /\ Bit(n, 1) = (n \div 2) % 2
           /\ Bit(n, 2) = (n \div 4) % 2 /\ Bit(n, 3) = (n \div 8) % 2
           /\ Bit(n, 4) = (n \div 16) % 2 /\ Bit(n, 5) = (n \div 32) % 2
           /\ Bit(n, 6) = (n \div 64) % 2 /\ Bit(n, 7) = (n \div 128) % 2
<1>1. n \div 1 = n
  OBVIOUS
<1> QED
  BY <1>1, Powers DEF Bit

LEMMA BitTyped ==
    ASSUME NEW n \in Nat, NEW b \in 0..7
    PROVE  Bit(n, b) \in {0, 1}
<1>1. 2^b \in Nat \ {0}
  BY Powers
<1> QED
  BY <1>1 DEF Bit

Octet == 0..255

\* The bits of a number below 256 tell which it is.
LEMMA OnesInjective ==
    ASSUME NEW x \in Octet, NEW y \in Octet, Ones(x, 8) = Ones(y, 8)
    PROVE  x = y
<1>1. ASSUME NEW b \in 0..7
      PROVE  Bit(x, b) = Bit(y, b)
  <2>1. Ones(x, 8) = {k \in 0..7 : Bit(x, k) = 1} /\ Ones(y, 8) = {k \in 0..7 : Bit(y, k) = 1}
    BY OnesAre, Zenon
  <2>2. b \in Ones(x, 8) <=> Bit(x, b) = 1
    BY <2>1, Zenon
  <2>3. b \in Ones(y, 8) <=> Bit(y, b) = 1
    BY <2>1, Zenon
  <2>4. x \in Nat /\ y \in Nat
    BY DEF Octet
  <2>5. Bit(x, b) \in {0, 1} /\ Bit(y, b) \in {0, 1}
    BY <2>4, BitTyped
  <2> QED
    BY <2>2, <2>3, <2>5
<1>2. /\ Bit(x, 0) = Bit(y, 0) /\ Bit(x, 1) = Bit(y, 1)
      /\ Bit(x, 2) = Bit(y, 2) /\ Bit(x, 3) = Bit(y, 3)
      /\ Bit(x, 4) = Bit(y, 4) /\ Bit(x, 5) = Bit(y, 5)
      /\ Bit(x, 6) = Bit(y, 6) /\ Bit(x, 7) = Bit(y, 7)
  <2>1. {0, 1, 2, 3, 4, 5, 6, 7} \subseteq 0..7
    BY DEF Octet
  <2> QED
    BY <1>1, <2>1, Zenon
<1>3. /\ x % 2 = y % 2
      /\ (x \div 2) % 2 = (y \div 2) % 2
      /\ (x \div 4) % 2 = (y \div 4) % 2
      /\ (x \div 8) % 2 = (y \div 8) % 2
      /\ (x \div 16) % 2 = (y \div 16) % 2
      /\ (x \div 32) % 2 = (y \div 32) % 2
      /\ (x \div 64) % 2 = (y \div 64) % 2
      /\ (x \div 128) % 2 = (y \div 128) % 2
  <2>1. x \in Nat /\ y \in Nat
    BY DEF Octet
  <2>2. /\ Bit(x, 0) = x % 2 /\ Bit(x, 1) = (x \div 2) % 2
        /\ Bit(x, 2) = (x \div 4) % 2 /\ Bit(x, 3) = (x \div 8) % 2
        /\ Bit(x, 4) = (x \div 16) % 2 /\ Bit(x, 5) = (x \div 32) % 2
        /\ Bit(x, 6) = (x \div 64) % 2 /\ Bit(x, 7) = (x \div 128) % 2
    BY <2>1, BitsAre, Zenon
  <2>3. /\ Bit(y, 0) = y % 2 /\ Bit(y, 1) = (y \div 2) % 2
        /\ Bit(y, 2) = (y \div 4) % 2 /\ Bit(y, 3) = (y \div 8) % 2
        /\ Bit(y, 4) = (y \div 16) % 2 /\ Bit(y, 5) = (y \div 32) % 2
        /\ Bit(y, 6) = (y \div 64) % 2 /\ Bit(y, 7) = (y \div 128) % 2
    BY <2>1, BitsAre, Zenon
  <2> QED
    BY <1>2, <2>2, <2>3
<1>4. x \div 128 = y \div 128
  BY <1>3 DEF Octet
<1>5. x \div 64 = y \div 64
  <2>1. (x \div 64) % 2 = (y \div 64) % 2
    BY <1>3
  <2> QED
    BY <1>4, <2>1 DEF Octet
<1>6. x \div 32 = y \div 32
  <2>1. (x \div 32) % 2 = (y \div 32) % 2
    BY <1>3
  <2> QED
    BY <1>5, <2>1 DEF Octet
<1>7. x \div 16 = y \div 16
  <2>1. (x \div 16) % 2 = (y \div 16) % 2
    BY <1>3
  <2> QED
    BY <1>6, <2>1 DEF Octet
<1>8. x \div 8 = y \div 8
  <2>1. (x \div 8) % 2 = (y \div 8) % 2
    BY <1>3
  <2> QED
    BY <1>7, <2>1 DEF Octet
<1>9. x \div 4 = y \div 4
  <2>1. (x \div 4) % 2 = (y \div 4) % 2
    BY <1>3
  <2> QED
    BY <1>8, <2>1 DEF Octet
<1>10. x \div 2 = y \div 2
  <2>1. (x \div 2) % 2 = (y \div 2) % 2
    BY <1>3
  <2> QED
    BY <1>9, <2>1 DEF Octet
<1> QED
  BY <1>3, <1>10 DEF Octet

LEMMA OnesZero == Ones(0, 8) = {}
<1>1. \A b \in Ones(0, 8) : b \in 0..7 /\ Bit(0, b) = 1
  BY OnesAre, Zenon
<1>2. ASSUME NEW b \in 0..7
      PROVE  Bit(0, b) = 0
  <2>1. 2^b \in Nat \ {0}
    BY Powers
  <2> QED
    BY <2>1 DEF Bit
<1> QED
  BY <1>1, <1>2

\* The number of bytes of n that the loop of digest takes, at most four.
Bytes(n) == IF n < 1 THEN 0 ELSE IF n < 256 THEN 1 ELSE
            IF n < 65536 THEN 2 ELSE IF n < 16777216 THEN 3 ELSE 4

Digit(n, i) == (n \div 256^(i - 1)) % 256

LEMMA ByteWeights ==
    ASSUME NEW k
    PROVE  /\ k = 0 => 256^k = 1
           /\ k = 1 => 256^k = 256
           /\ k = 2 => 256^k = 65536
           /\ k = 3 => 256^k = 16777216
<1>1. k = 0 => 256^k = 1
  OBVIOUS
<1>2. k = 1 => 256^k = 256
  OBVIOUS
<1>3. k = 2 => 256^k = 65536
  OBVIOUS
<1>4. k = 3 => 256^k = 16777216
  OBVIOUS
<1> QED
  BY <1>1, <1>2, <1>3, <1>4

LEMMA LengthIs ==
    ASSUME NEW n \in Nat
    PROVE  /\ LengthBytes(n) \in Seq(Byte) /\ Len(LengthBytes(n)) = Bytes(n)
           /\ \A i \in 1..Bytes(n) : LengthBytes(n)[i] = Ones(Digit(n, i), 8)
<1> DEFINE K == {k \in 0..3 : 256^k <= n}
<1>1. ASSUME NEW k \in 0..3
      PROVE  256^k <= n <=> k <= Bytes(n) - 1
  BY ByteWeights DEF Bytes
<1>2. K = 0..(Bytes(n) - 1) /\ Bytes(n) \in 0..4
  <2>1. Bytes(n) \in 0..4
    BY DEF Bytes
  <2>2. K = {k \in 0..3 : k <= Bytes(n) - 1}
    BY <1>1, Zenon
  <2> DEFINE p == Bytes(n)
  <2> HIDE DEF p
  <2>3. p \in 0..4 => {k \in 0..3 : k <= p - 1} = 0..(p - 1)
    OBVIOUS
  <2> QED
    BY <2>1, <2>2, <2>3, Zenon DEF p
<1>3. Cardinality(0..(Bytes(n) - 1)) = Bytes(n)
  <2>1. 0 \in Int /\ Bytes(n) - 1 \in Int
    BY <1>2
  <2>2. Cardinality(0..(Bytes(n) - 1)) =
          IF 0 > Bytes(n) - 1 THEN 0 ELSE (Bytes(n) - 1) - 0 + 1
    BY <2>1, FS_Interval
  <2> QED
    BY <1>2, <2>2
<1>4. LengthBytes(n) = [i \in 1..Bytes(n) |-> Ones(Digit(n, i), 8)]
  BY <1>2, <1>3, Zenon DEF LengthBytes, Digit
<1>5. \A x : Ones(x, 8) \in Byte
  BY DEF Ones, Byte
<1> QED
  BY <1>2, <1>4, <1>5

FourDigits(n) ==
    /\ Digit(n, 1) = n % 256 /\ Digit(n, 2) = (n \div 256) % 256
    /\ Digit(n, 3) = (n \div 65536) % 256 /\ Digit(n, 4) = (n \div 16777216) % 256

LEMMA DigitsAre ==
    ASSUME NEW n \in Nat
    PROVE  FourDigits(n)
<1>1. n \div 1 = n /\ 1 - 1 = 0 /\ 2 - 1 = 1 /\ 3 - 1 = 2 /\ 4 - 1 = 3
  OBVIOUS
<1> QED
  BY <1>1, ByteWeights DEF Digit, FourDigits

SameLength(n, m) ==
    /\ Bytes(m) = Bytes(n) /\ Bytes(n) \in 1..4
    /\ Digit(n, 1) \in Octet /\ Digit(m, 1) \in Octet /\ Digit(n, 1) # Digit(m, 1)

Longer(n, m) ==
    /\ Bytes(m) = Bytes(n) + 1 /\ Bytes(n) \in 0..3
    /\ Digit(m, Bytes(n) + 1) \in 1..16
    /\ Bytes(n) # 0 => Digit(n, Bytes(n)) \in 240..255

\* Up to 16 more change the lowest byte of a length, and if they make it a byte longer,
\* its highest byte is at most 16 where it was at least 240.
LEMMA Carry ==
    ASSUME NEW n \in Nat, NEW k \in 1..16
    PROVE  SameLength(n, n + k) \/ Longer(n, n + k)
<1> DEFINE m == n + k
<1>1. m \in Nat /\ m = n + k /\ n < m /\ m <= n + 16
  OBVIOUS
<1> HIDE DEF m
<1>2. /\ Digit(n, 1) = n % 256 /\ Digit(n, 2) = (n \div 256) % 256
      /\ Digit(n, 3) = (n \div 65536) % 256 /\ Digit(n, 4) = (n \div 16777216) % 256
  <2>1. FourDigits(n)
    BY DigitsAre
  <2> QED
    BY <2>1 DEF FourDigits
<1>3. /\ Digit(m, 1) = m % 256 /\ Digit(m, 2) = (m \div 256) % 256
      /\ Digit(m, 3) = (m \div 65536) % 256 /\ Digit(m, 4) = (m \div 16777216) % 256
  <2>1. FourDigits(m)
    BY <1>1, DigitsAre
  <2> QED
    BY <2>1 DEF FourDigits
<1>4. CASE Bytes(m) = Bytes(n)
  <2>1. Bytes(n) \in 1..4
    BY <1>1, <1>4 DEF Bytes
  <2>2. n % 256 \in 0..255 /\ m % 256 \in 0..255 /\ n % 256 # m % 256
    BY <1>1
  <2> QED
    BY <1>2, <1>3, <1>4, <2>1, <2>2 DEF m, SameLength, Octet
<1>5. CASE Bytes(m) # Bytes(n)
  <2>1. CASE n < 1
    <3>1. Bytes(n) = 0 /\ Bytes(m) = 1 /\ m % 256 \in 1..16
      BY <1>1, <2>1 DEF Bytes
    <3> QED
      BY <1>3, <3>1 DEF m, Longer
  <2>2. CASE n >= 1 /\ n < 256
    <3>1. m >= 256
      BY <1>1, <1>5, <2>2 DEF Bytes
    <3>2. Bytes(n) = 1 /\ Bytes(m) = 2
      BY <1>1, <2>2, <3>1 DEF Bytes
    <3>3. (m \div 256) % 256 = 1 /\ n % 256 \in 240..255
      BY <1>1, <2>2, <3>1
    <3> QED
      BY <1>2, <1>3, <3>2, <3>3 DEF m, Longer
  <2>3. CASE n >= 256 /\ n < 65536
    <3>1. m >= 65536
      BY <1>1, <1>5, <2>3 DEF Bytes
    <3>2. Bytes(n) = 2 /\ Bytes(m) = 3
      BY <1>1, <2>3, <3>1 DEF Bytes
    <3>3. (m \div 65536) % 256 = 1 /\ (n \div 256) % 256 \in 240..255
      BY <1>1, <2>3, <3>1
    <3> QED
      BY <1>2, <1>3, <3>2, <3>3 DEF m, Longer
  <2>4. CASE n >= 65536 /\ n < 16777216
    <3>1. m >= 16777216
      BY <1>1, <1>5, <2>4 DEF Bytes
    <3>2. Bytes(n) = 3 /\ Bytes(m) = 4
      BY <1>1, <2>4, <3>1 DEF Bytes
    <3>3. (m \div 16777216) % 256 = 1 /\ (n \div 65536) % 256 \in 240..255
      BY <1>1, <2>4, <3>1
    <3> QED
      BY <1>2, <1>3, <3>2, <3>3 DEF m, Longer
  <2>5. CASE n >= 16777216
    BY <1>1, <1>5, <2>5 DEF Bytes
  <2> QED
    BY <2>1, <2>2, <2>3, <2>4, <2>5
<1> QED
  BY <1>4, <1>5

\* So the divisions of two lengths up to 16 apart end with different words.
LEMMA LengthsDiffer ==
    ASSUME NEW n \in Nat, NEW k \in 1..16
    PROVE  FoldLeft(DivideByte, {}, LengthBytes(n)) # FoldLeft(DivideByte, {}, LengthBytes(n + k))
<1> DEFINE s == LengthBytes(n)
<1> DEFINE r == LengthBytes(n + k)
<1> DEFINE p == Bytes(n)
<1> DEFINE q == Bytes(n + k)
<1>1. n + k \in Nat /\ {} \in Words
  BY DEF Words
<1>2. s \in Seq(Byte) /\ Len(s) = p /\ \A i \in 1..p : s[i] = Ones(Digit(n, i), 8)
  BY LengthIs
<1>3. r \in Seq(Byte) /\ Len(r) = q /\ \A i \in 1..q : r[i] = Ones(Digit(n + k, i), 8)
  BY <1>1, LengthIs
<1>4. SameLength(n, n + k) \/ Longer(n, n + k)
  BY Carry
<1> HIDE DEF s, r, p, q
<1> SUFFICES ASSUME FoldLeft(DivideByte, {}, s) = FoldLeft(DivideByte, {}, r)
             PROVE  FALSE
  BY DEF s, r
<1>5. CASE SameLength(n, n + k)
  <2>0. /\ q = p /\ p \in 1..4
        /\ Digit(n, 1) \in Octet /\ Digit(n + k, 1) \in Octet
        /\ Digit(n, 1) # Digit(n + k, 1)
    BY <1>5 DEF SameLength, p, q
  <2>1. s = r
    <3>1. Len(s) = Len(r) /\ Len(s) <= 4
      BY <1>2, <1>3, <2>0
    <3> QED
      BY <1>1, <1>2, <1>3, <3>1, SameFold
  <2>2. 1 \in 1..p /\ 1 \in 1..q
    BY <2>0
  <2>3. Ones(Digit(n, 1), 8) = Ones(Digit(n + k, 1), 8)
    BY <1>2, <1>3, <2>1, <2>2
  <2> DEFINE c == Digit(n, 1)
  <2> DEFINE d == Digit(n + k, 1)
  <2>4. c \in Octet /\ d \in Octet /\ c # d /\ Ones(c, 8) = Ones(d, 8)
    BY <2>0, <2>3
  <2> HIDE DEF c, d
  <2> QED
    BY <2>4, OnesInjective
<1>6. CASE Longer(n, n + k)
  <2>1. /\ q = p + 1 /\ p \in 0..3 /\ Digit(n + k, p + 1) \in 1..16
        /\ p # 0 => Digit(n, p) \in 240..255
    BY <1>6 DEF Longer, p, q
  <2> DEFINE t == [i \in 1..q |-> IF i = 1 THEN {} ELSE s[i - 1]]
  <2>2. t \in Seq(Byte) /\ Len(t) = q
    <3>1. ASSUME NEW i \in 1..q, i # 1
          PROVE  s[i - 1] \in Byte
      <4>1. i - 1 \in 1..p
        BY <2>1, <3>1
      <4> QED
        BY <1>2, <4>1
    <3>2. {} \in Byte
      BY DEF Byte
    <3>3. q \in Nat
      BY <2>1
    <3>4. \A i \in 1..q : (IF i = 1 THEN {} ELSE s[i - 1]) \in Byte
      BY <3>1, <3>2
    <3>5. t \in [1..q -> Byte]
      BY <3>4
    <3> HIDE DEF t
    <3> QED
      BY <3>3, <3>5
  <2>3. t[1] = {} /\ \A i \in 1..p : t[i + 1] = s[i]
    <3>1. 1 \in 1..q /\ \A i \in 1..p : i + 1 \in 1..q /\ i + 1 # 1 /\ (i + 1) - 1 = i
      BY <2>1
    <3> QED
      BY <3>1
  <2> HIDE DEF t
  <2>4. FoldLeft(DivideByte, {}, t) = FoldLeft(DivideByte, {}, s)
    BY <1>2, <2>1, <2>2, <2>3, ZeroPrefix
  <2>5. q <= 4 /\ q \in 1..q
    BY <2>1
  <2>6. t = r
    <3>1. Len(t) = Len(r) /\ Len(t) <= 4
      BY <1>3, <2>2, <2>5
    <3> QED
      BY <1>1, <1>3, <2>2, <2>4, <3>1, SameFold
  <2>7. t[q] = Ones(Digit(n + k, q), 8)
    BY <1>3, <2>5, <2>6
  <2> DEFINE d == Digit(n + k, q)
  <2>8. d \in 1..16 /\ d \in Octet
    BY <2>1 DEF Octet
  <2> HIDE DEF d
  <2>9. CASE p = 0
    <3> DEFINE z == 0
    <3>1. Ones(d, 8) = Ones(z, 8)
      BY <2>1, <2>3, <2>7, <2>9, OnesZero DEF d
    <3>2. d \in Octet /\ z \in Octet /\ z # d
      BY <2>8 DEF Octet
    <3> HIDE DEF z
    <3> QED
      BY <3>1, <3>2, OnesInjective
  <2>10. CASE p # 0
    <3> DEFINE c == Digit(n, p)
    <3>1. p \in 1..p /\ c \in 240..255
      BY <2>1, <2>10
    <3>2. t[q] = s[p] /\ s[p] = Ones(c, 8)
      BY <1>2, <2>1, <2>3, <3>1
    <3> HIDE DEF c
    <3>3. Ones(c, 8) = Ones(d, 8)
      BY <2>7, <3>2 DEF d
    <3>4. c # d
      BY <2>8, <3>1
    <3>5. c \in Octet /\ d \in Octet
      BY <2>8, <3>1 DEF Octet
    <3> QED
      BY <3>3, <3>4, <3>5, OnesInjective
  <2> QED
    BY <2>9, <2>10
<1> QED
  BY <1>4, <1>5, <1>6

\* The running checksum is the remainder, and no damaged word is equal to it.
CrcInv ==
    /\ nchars \in Nat
    /\ crc \in Words
    /\ remainder = crc
    /\ damaged \subseteq Words \ {crc}

LEMMA InitCrc == Init => CrcInv
BY StartAssumption DEF Init, CrcInv, Words

LEMMA NextCrc == CrcInv /\ [Next]_vars => CrcInv'
<1> SUFFICES ASSUME CrcInv, [Next]_vars
             PROVE  CrcInv'
  OBVIOUS
<1>1. CASE UNCHANGED vars
  BY <1>1 DEF CrcInv, vars
<1>2. ASSUME NEW buf \in Buf, Update(buf)
      PROVE  CrcInv'
  <2>1. buf \in Seq(Byte) /\ nchars \in Nat /\ crc \in Words /\ remainder = crc
        /\ damaged \subseteq Words \ {crc}
    BY BufAssumption DEF CrcInv
  <2>2. crc' = FoldLeft(Turn, crc, buf) /\ crc' \in Words
    BY <1>2, <2>1, FoldTyped DEF Update
  <2>3. crc' = FoldLeft(DivideByte, crc, buf)
    BY <2>1, <2>2, FoldIsDivision
  <2>4. remainder' = crc'
    BY <1>2, <2>1, <2>3 DEF Update
  <2>5. nchars' \in Nat
    BY <1>2, <2>1 DEF Update
  <2>6. ASSUME NEW w \in damaged
        PROVE  FoldLeft(Turn, w, buf) \in Words \ {crc'}
    <3>1. w \in Words /\ w # crc
      BY <2>1
    <3>2. FoldLeft(DivideByte, w, buf) # FoldLeft(DivideByte, crc, buf)
      BY <2>1, <3>1, FoldInjective
    <3>3. FoldLeft(Turn, w, buf) = FoldLeft(DivideByte, w, buf)
      BY <2>1, <3>1, FoldIsDivision
    <3>4. FoldLeft(Turn, w, buf) \in Words
      BY <2>1, <3>1, FoldTyped
    <3> QED
      BY <2>3, <3>2, <3>3, <3>4
  <2>7. ASSUME NEW flipped \in Bursts(buf)
        PROVE  FoldLeft(Turn, crc, flipped) \in Words \ {crc'}
    <3>1. PICK burst \in Damage : flipped \in
            {Flipped(buf, burst, at) : at \in 1..(Len(buf) - Len(burst) + 1)}
      BY <2>7 DEF Bursts
    <3>2. PICK at \in 1..(Len(buf) - Len(burst) + 1) : flipped = Flipped(buf, burst, at)
      BY <3>1
    <3>3. flipped \in Seq(Byte)
      BY <2>1, <3>2, FlippedTyped
    <3>4. FoldLeft(DivideByte, crc, flipped) # FoldLeft(DivideByte, crc, buf)
      BY <2>1, <3>2, BurstDiffers
    <3>5. FoldLeft(Turn, crc, flipped) = FoldLeft(DivideByte, crc, flipped)
      BY <2>1, <3>3, FoldIsDivision
    <3>6. FoldLeft(Turn, crc, flipped) \in Words
      BY <2>1, <3>3, FoldTyped
    <3> QED
      BY <2>3, <3>4, <3>5, <3>6
  <2>8. damaged' = {FoldLeft(Turn, w, buf) : w \in damaged} \cup
                   {FoldLeft(Turn, crc, flipped) : flipped \in Bursts(buf)}
    BY <1>2 DEF Update
  <2>9. damaged' \subseteq Words \ {crc'}
    BY <2>6, <2>7, <2>8
  <2> QED
    BY <2>2, <2>4, <2>5, <2>9 DEF CrcInv
<1> QED
  BY <1>1, <1>2 DEF Next

LEMMA CrcCorrect == Spec => []CrcInv
BY InitCrc, NextCrc, PTL DEF Spec

\* Every variable of the checksum has its type: no bit is carried out of the word by the
\* shift of update.
THEOREM CrcTypeCorrect == Spec => []TypeOK
<1>1. CrcInv => TypeOK
  BY DEF CrcInv, TypeOK, Words
<1> QED
  BY <1>1, CrcCorrect, PTL

\* Whatever the content and however it is cut into the buffers of update, the digest by
\* the table is that of long division, and so is the word after any next byte.
THEOREM DigestStaysRemainder == Spec => []DigestIsRemainder
<1>1. CrcInv => DigestIsRemainder
  <2> SUFFICES ASSUME CrcInv
               PROVE  DigestIsRemainder
    OBVIOUS
  <2>1. crc \in Words /\ remainder = crc /\ LengthBytes(nchars) \in Seq(Byte)
    BY LengthTyped DEF CrcInv
  <2>2. FoldLeft(Turn, crc, LengthBytes(nchars)) = FoldLeft(DivideByte, crc, LengthBytes(nchars))
    BY <2>1, FoldIsDivision
  <2>3. \A c \in Byte : Turn(crc, c) = DivideByte(crc, c)
    BY <2>1, TurnIsDivision
  <2> QED
    BY <2>1, <2>2, <2>3 DEF DigestIsRemainder, digest
<1> QED
  BY <1>1, CrcCorrect, PTL

\* A word of 32 bits comes back from the four bytes it is packed in.
LEMMA WordReturns == \A w \in Words : Wire!Returns(w, 4) = w
<1> SUFFICES ASSUME NEW w \in Words PROVE Wire!Returns(w, 4) = w
  OBVIOUS
<1> DEFINE Read(i) == Wire!ShiftLeft(Wire!Operand(Wire!pack(w, 4)[i]), 8 * i)
           Part(i) == {b \in w : 8 * i <= b /\ b <= 8 * i + 7}
<1>1. ASSUME NEW i \in 0..3 PROVE Read(i) = Part(i)
  <2>1. Wire!Operand(Wire!pack(w, 4)[i]) = {b \in 0..7 : b + 8 * i \in w}
    BY SMT DEF Wire!Operand, Wire!OperandSigned, Wire!pack
  <2>2. ASSUME NEW c \in w, 8 * i <= c, c <= 8 * i + 7
        PROVE  c \in {b + 8 * i : b \in {a \in 0..7 : a + 8 * i \in w}}
    <3>1. c - 8 * i \in 0..7 /\ (c - 8 * i) + 8 * i = c
      BY <2>2, SMT DEF Words
    <3>2. c - 8 * i \in {a \in 0..7 : a + 8 * i \in w}
      BY <3>1
    <3> QED
      BY <3>1, <3>2
  <2>3. ASSUME NEW b \in {a \in 0..7 : a + 8 * i \in w}
        PROVE  b + 8 * i \in w /\ 8 * i <= b + 8 * i /\ b + 8 * i <= 8 * i + 7
    BY <2>3, SMT
  <2>4. w \subseteq 0..31
    BY DEF Words
  <2>5. Read(i) = {b + 8 * i : b \in {a \in 0..7 : a + 8 * i \in w}} \cap 0..31
    BY <2>1, Zenon DEF Wire!ShiftLeft
  <2> HIDE DEF Read
  <2> QED
    BY <2>2, <2>3, <2>4, <2>5, Zenon
<1>2. \A b : b \in w <=> \E i \in 0..3 : b \in Part(i)
  <2>1. ASSUME NEW b \in w PROVE \E i \in 0..3 : b \in Part(i)
    <3>1. b \div 8 \in 0..3 /\ 8 * (b \div 8) <= b /\ b <= 8 * (b \div 8) + 7
      BY SMT DEF Words
    <3> QED
      BY <3>1, Zenon
  <2> QED
    BY <2>1
<1>3. UNION {Read(i) : i \in 0..3} = w
  <2> HIDE DEF Read, Part
  <2> QED
    BY <1>1, <1>2
<1>4. Wire!Returns(w, 4) = 0..(8 * 4 - 1) \cap UNION {Read(i) : i \in 0..(4 - 1)}
  BY Zenon DEF Wire!Returns, Wire!deserialize
<1>5. 8 * 4 - 1 = 31 /\ 4 - 1 = 3
  BY SMT
<1> HIDE DEF Read
<1> QED
  BY <1>3, <1>4, <1>5 DEF Words

\* Every digest the server computes reaches the client's comparison as it is, though the
\* client takes it out of an array of char.
THEOREM DigestsArrive == Spec => []DigestArrives
<1>1. CrcInv => DigestArrives
  <2>1. digest(crc, nchars) \in Words
    BY DEF digest, Words
  <2> QED
    BY <2>1, WordReturns DEF DigestArrives
<1> QED
  BY <1>1, CrcCorrect, PTL

\* A transfer that damages bits of at most four successive bytes, anywhere in a content
\* of any length, is seen in the digest.
THEOREM BurstsStaySeen == Spec => []BurstsSeen
<1>1. CrcInv => BurstsSeen
  <2> SUFFICES ASSUME CrcInv, NEW w \in damaged
               PROVE  digest(w, nchars) # digest(crc, nchars)
    BY DEF BurstsSeen
  <2> DEFINE s == LengthBytes(nchars)
  <2>1. crc \in Words /\ w \in Words /\ w # crc /\ s \in Seq(Byte)
    BY LengthTyped DEF CrcInv
  <2>2. digest(w, nchars) = (0..31) \ FoldLeft(Turn, w, s)
        /\ digest(crc, nchars) = (0..31) \ FoldLeft(Turn, crc, s)
    BY DEF digest
  <2> HIDE DEF s
  <2>3. FoldLeft(DivideByte, w, s) # FoldLeft(DivideByte, crc, s)
    BY <2>1, FoldInjective
  <2>4. FoldLeft(Turn, w, s) # FoldLeft(Turn, crc, s)
    BY <2>1, <2>3, FoldIsDivision
  <2>5. FoldLeft(Turn, w, s) \in Words /\ FoldLeft(Turn, crc, s) \in Words
    BY <2>1, FoldTyped
  <2>6. \A x, y \in Words : (0..31) \ x = (0..31) \ y => x = y
    BY DEF Words
  <2> QED
    BY <2>2, <2>4, <2>5, <2>6
<1> QED
  BY <1>1, CrcCorrect, PTL

\* Up to 16 zero bytes more after nothing, or after any number of zero bytes alone, are
\* seen in the digest, though they leave the word at 0: by the length digest adds.
THEOREM PaddingStaysSeen == Spec => []PaddingSeen
<1>1. CrcInv => PaddingSeen
  <2> SUFFICES ASSUME CrcInv, crc = {}, NEW n \in 1..16
               PROVE  digest(FoldLeft(Turn, crc, [i \in 1..n |-> {}]), nchars + n)
                        # digest(crc, nchars)
    BY DEF PaddingSeen
  <2> DEFINE s == LengthBytes(nchars)
  <2> DEFINE r == LengthBytes(nchars + n)
  <2>1. {} \in Words /\ n \in Nat /\ nchars \in Nat /\ nchars + n \in Nat
    BY DEF CrcInv, Words
  <2>2. FoldLeft(Turn, crc, [i \in 1..n |-> {}]) = {}
    BY <2>1, ZeroBytes
  <2>3. s \in Seq(Byte) /\ r \in Seq(Byte)
    BY <2>1, LengthTyped
  <2>4. FoldLeft(DivideByte, {}, s) # FoldLeft(DivideByte, {}, r)
    BY <2>1, LengthsDiffer
  <2>5. digest({}, nchars) = (0..31) \ FoldLeft(Turn, {}, s)
        /\ digest({}, nchars + n) = (0..31) \ FoldLeft(Turn, {}, r)
    BY DEF digest
  <2> HIDE DEF s, r
  <2>6. FoldLeft(Turn, {}, s) # FoldLeft(Turn, {}, r)
    BY <2>1, <2>3, <2>4, FoldIsDivision
  <2>7. FoldLeft(Turn, {}, s) \in Words /\ FoldLeft(Turn, {}, r) \in Words
    BY <2>1, <2>3, FoldTyped
  <2>8. \A x, y \in Words : (0..31) \ x = (0..31) \ y => x = y
    BY DEF Words
  <2>9. digest({}, nchars + n) # digest({}, nchars)
    BY <2>5, <2>6, <2>7, <2>8
  <2> QED
    BY <2>2, <2>9
<1> QED
  BY <1>1, CrcCorrect, PTL
=============================================================================
