-------------------------------- MODULE Crc ---------------------------------
(***************************************************************************)
(* The checksum by which the client decides whether its file has arrived:  *)
(* class crc32 of Server/crc.py; class CRC of Client/crc.cpp is the same   *)
(* with the same table, its words 32 bits wide by their type instead of by *)
(* the mask.  It is the POSIX cksum: the remainder of the content and of   *)
(* its length, taken as a polynomial over bits, by a fixed polynomial.     *)
(*                                                                         *)
(* A word is the set of the positions of its ones, 0..31, a byte likewise, *)
(* so that ^ is Xor; TLC's integers end at 2^31 - 1.                       *)
(***************************************************************************)
EXTENDS Integers, SequencesExt

CONSTANTS
    Buf,        \* the buffers given to update
    Start,      \* numbers of zero bytes a content may begin with
    MaxLength,  \* bound on what follows them
    Damage      \* what a transfer may flip: some bits of at most four bytes

Byte == SUBSET (0..7)

ASSUME BufAssumption == Buf \subseteq Seq(Byte)
ASSUME StartAssumption == Start \subseteq Nat
ASSUME MaxLengthAssumption == MaxLength \in Nat

\* No length is 2^32 or more, with 16 bytes to spare: its size is sent in 32 bits.
ASSUME SizeAssumption == \A n \in Start : (n + MaxLength + 16) \div 65536 < 65536

ASSUME DamageAssumption ==
    Damage \subseteq {s \in Seq(Byte) : Len(s) <= 4 /\ \E i \in DOMAIN s : s[i] # {}}

VARIABLES
    crc, nchars,    \* the fields of crc32
    remainder,      \* of the content update was given, by long division
    damaged         \* crc as it would be had one burst of bits been flipped

vars == <<crc, nchars, remainder, damaged>>

----------------------------------------------------------------------------
(* Words *)

Ones(n, width) == {b \in 0..(width - 1) : (n \div 2^b) % 2 = 1}

Xor(u, v) == (u \ v) \cup (v \ u)

\* Faulty: << without the mask.
ShiftUnmasked(w) == {b + 8 : b \in w}

\* (w << 8) & 0xFFFFFFFF, and w >> 24.
Shift(w) == {b + 8 : b \in w \cap 0..23}

Top(w) == {b - 24 : b \in w \cap 24..31}

\* crctab, its words' upper halves ...
High == <<
    \h0000, \h04C1, \h0982, \h0D43, \h1304, \h17C5, \h1A86, \h1E47, \h2608, \h22C9, \h2F8A, \h2B4B, \h350C, \h31CD, \h3C8E, \h384F,
    \h4C11, \h48D0, \h4593, \h4152, \h5F15, \h5BD4, \h5697, \h5256, \h6A19, \h6ED8, \h639B, \h675A, \h791D, \h7DDC, \h709F, \h745E,
    \h9823, \h9CE2, \h91A1, \h9560, \h8B27, \h8FE6, \h82A5, \h8664, \hBE2B, \hBAEA, \hB7A9, \hB368, \hAD2F, \hA9EE, \hA4AD, \hA06C,
    \hD432, \hD0F3, \hDDB0, \hD971, \hC736, \hC3F7, \hCEB4, \hCA75, \hF23A, \hF6FB, \hFBB8, \hFF79, \hE13E, \hE5FF, \hE8BC, \hEC7D,
    \h3486, \h3047, \h3D04, \h39C5, \h2782, \h2343, \h2E00, \h2AC1, \h128E, \h164F, \h1B0C, \h1FCD, \h018A, \h054B, \h0808, \h0CC9,
    \h7897, \h7C56, \h7115, \h75D4, \h6B93, \h6F52, \h6211, \h66D0, \h5E9F, \h5A5E, \h571D, \h53DC, \h4D9B, \h495A, \h4419, \h40D8,
    \hACA5, \hA864, \hA527, \hA1E6, \hBFA1, \hBB60, \hB623, \hB2E2, \h8AAD, \h8E6C, \h832F, \h87EE, \h99A9, \h9D68, \h902B, \h94EA,
    \hE0B4, \hE475, \hE936, \hEDF7, \hF3B0, \hF771, \hFA32, \hFEF3, \hC6BC, \hC27D, \hCF3E, \hCBFF, \hD5B8, \hD179, \hDC3A, \hD8FB,
    \h690C, \h6DCD, \h608E, \h644F, \h7A08, \h7EC9, \h738A, \h774B, \h4F04, \h4BC5, \h4686, \h4247, \h5C00, \h58C1, \h5582, \h5143,
    \h251D, \h21DC, \h2C9F, \h285E, \h3619, \h32D8, \h3F9B, \h3B5A, \h0315, \h07D4, \h0A97, \h0E56, \h1011, \h14D0, \h1993, \h1D52,
    \hF12F, \hF5EE, \hF8AD, \hFC6C, \hE22B, \hE6EA, \hEBA9, \hEF68, \hD727, \hD3E6, \hDEA5, \hDA64, \hC423, \hC0E2, \hCDA1, \hC960,
    \hBD3E, \hB9FF, \hB4BC, \hB07D, \hAE3A, \hAAFB, \hA7B8, \hA379, \h9B36, \h9FF7, \h92B4, \h9675, \h8832, \h8CF3, \h81B0, \h8571,
    \h5D8A, \h594B, \h5408, \h50C9, \h4E8E, \h4A4F, \h470C, \h43CD, \h7B82, \h7F43, \h7200, \h76C1, \h6886, \h6C47, \h6104, \h65C5,
    \h119B, \h155A, \h1819, \h1CD8, \h029F, \h065E, \h0B1D, \h0FDC, \h3793, \h3352, \h3E11, \h3AD0, \h2497, \h2056, \h2D15, \h29D4,
    \hC5A9, \hC168, \hCC2B, \hC8EA, \hD6AD, \hD26C, \hDF2F, \hDBEE, \hE3A1, \hE760, \hEA23, \hEEE2, \hF0A5, \hF464, \hF927, \hFDE6,
    \h89B8, \h8D79, \h803A, \h84FB, \h9ABC, \h9E7D, \h933E, \h97FF, \hAFB0, \hAB71, \hA632, \hA2F3, \hBCB4, \hB875, \hB536, \hB1F7>>

\* ... and lower halves.
Low == <<
    \h0000, \h1DB7, \h3B6E, \h26D9, \h76DC, \h6B6B, \h4DB2, \h5005, \hEDB8, \hF00F, \hD6D6, \hCB61, \h9B64, \h86D3, \hA00A, \hBDBD,
    \hDB70, \hC6C7, \hE01E, \hFDA9, \hADAC, \hB01B, \h96C2, \h8B75, \h36C8, \h2B7F, \h0DA6, \h1011, \h4014, \h5DA3, \h7B7A, \h66CD,
    \hB6E0, \hAB57, \h8D8E, \h9039, \hC03C, \hDD8B, \hFB52, \hE6E5, \h5B58, \h46EF, \h6036, \h7D81, \h2D84, \h3033, \h16EA, \h0B5D,
    \h6D90, \h7027, \h56FE, \h4B49, \h1B4C, \h06FB, \h2022, \h3D95, \h8028, \h9D9F, \hBB46, \hA6F1, \hF6F4, \hEB43, \hCD9A, \hD02D,
    \h7077, \h6DC0, \h4B19, \h56AE, \h06AB, \h1B1C, \h3DC5, \h2072, \h9DCF, \h8078, \hA6A1, \hBB16, \hEB13, \hF6A4, \hD07D, \hCDCA,
    \hAB07, \hB6B0, \h9069, \h8DDE, \hDDDB, \hC06C, \hE6B5, \hFB02, \h46BF, \h5B08, \h7DD1, \h6066, \h3063, \h2DD4, \h0B0D, \h16BA,
    \hC697, \hDB20, \hFDF9, \hE04E, \hB04B, \hADFC, \h8B25, \h9692, \h2B2F, \h3698, \h1041, \h0DF6, \h5DF3, \h4044, \h669D, \h7B2A,
    \h1DE7, \h0050, \h2689, \h3B3E, \h6B3B, \h768C, \h5055, \h4DE2, \hF05F, \hEDE8, \hCB31, \hD686, \h8683, \h9B34, \hBDED, \hA05A,
    \hE0EE, \hFD59, \hDB80, \hC637, \h9632, \h8B85, \hAD5C, \hB0EB, \h0D56, \h10E1, \h3638, \h2B8F, \h7B8A, \h663D, \h40E4, \h5D53,
    \h3B9E, \h2629, \h00F0, \h1D47, \h4D42, \h50F5, \h762C, \h6B9B, \hD626, \hCB91, \hED48, \hF0FF, \hA0FA, \hBD4D, \h9B94, \h8623,
    \h560E, \h4BB9, \h6D60, \h70D7, \h20D2, \h3D65, \h1BBC, \h060B, \hBBB6, \hA601, \h80D8, \h9D6F, \hCD6A, \hD0DD, \hF604, \hEBB3,
    \h8D7E, \h90C9, \hB610, \hABA7, \hFBA2, \hE615, \hC0CC, \hDD7B, \h60C6, \h7D71, \h5BA8, \h461F, \h161A, \h0BAD, \h2D74, \h30C3,
    \h9099, \h8D2E, \hABF7, \hB640, \hE645, \hFBF2, \hDD2B, \hC09C, \h7D21, \h6096, \h464F, \h5BF8, \h0BFD, \h164A, \h3093, \h2D24,
    \h4BE9, \h565E, \h7087, \h6D30, \h3D35, \h2082, \h065B, \h1BEC, \hA651, \hBBE6, \h9D3F, \h8088, \hD08D, \hCD3A, \hEBE3, \hF654,
    \h2679, \h3BCE, \h1D17, \h00A0, \h50A5, \h4D12, \h6BCB, \h767C, \hCBC1, \hD676, \hF0AF, \hED18, \hBD1D, \hA0AA, \h8673, \h9BC4,
    \hFD09, \hE0BE, \hC667, \hDBD0, \h8BD5, \h9662, \hB0BB, \hAD0C, \h10B1, \h0D06, \h2BDF, \h3668, \h666D, \h7BDA, \h5D03, \h40B4>>

Number(byte) == FoldSet(LAMBDA b, n : n + 2^b, 0, byte)

Word(n) == Ones(Low[n + 1], 16) \cup {b + 16 : b \in Ones(High[n + 1], 16)}

crctab == [c \in Byte |-> Word(Number(c))]

----------------------------------------------------------------------------
(* What it should be *)

\* x^32 + x^26 + x^23 + ... + 1 without its highest term.
Polynomial == {0, 1, 2, 4, 5, 7, 8, 10, 11, 12, 16, 22, 23, 26}

\* Long division, one bit at a time, the byte's highest first.
DivideBit(w, bit) ==
    LET shifted == {b + 1 : b \in w \ {31}}
    IN  IF (31 \in w) # bit THEN Xor(shifted, Polynomial) ELSE shifted

DivideByte(w, byte) == FoldLeft(DivideBit, w, [i \in 1..8 |-> 8 - i \in byte])

\* The table has the remainder of each byte.  This is no assumption about a parameter:
\* the table is written out above, and TLC evaluates the statement for all its words.
ASSUME TableAssumption == \A c \in Byte : crctab[c] = DivideByte({}, c)

----------------------------------------------------------------------------
(* The class *)

\* Faulty: the byte that leaves the word is forgotten.
TurnForgetting(w, c) == Xor(crctab[c], Shift(w))

Turn(w, c) == Xor(crctab[Xor(Top(w), c)], Shift(w))

\* Faulty: the length is left out.
NoLength(n) == << >>

\* The bytes the loop of digest takes from nchars, the lowest first: as many as n has,
\* which are four at most by SizeAssumption.
LengthBytes(n) ==
    [i \in 1..Cardinality({k \in 0..3 : 256^k <= n}) |-> Ones((n \div 256^(i - 1)) % 256, 8)]

digest(w, n) == (0..31) \ FoldLeft(Turn, w, LengthBytes(n))

Flipped(buf, burst, at) == [i \in DOMAIN buf |->
    IF i \in at..(at + Len(burst) - 1) THEN Xor(buf[i], burst[i - at + 1]) ELSE buf[i]]

Bursts(buf) == UNION {{Flipped(buf, burst, at) : at \in 1..(Len(buf) - Len(burst) + 1)} :
                        burst \in Damage}

\* Zero bytes leave crc at 0: update of them all at once is in the initial state.
Init == crc = {} /\ nchars \in Start /\ remainder = {} /\ damaged = {}

HasRoom(buf) == \E n \in Start : nchars + Len(buf) \in n..(n + MaxLength)

\* Faulty: each buffer starts at 0.
UpdateFresh(buf) ==
    /\ HasRoom(buf)
    /\ crc' = FoldLeft(Turn, {}, buf)
    /\ nchars' = nchars + Len(buf)
    /\ remainder' = FoldLeft(DivideByte, remainder, buf)
    /\ UNCHANGED damaged

Update(buf) ==
    /\ HasRoom(buf)
    /\ crc' = FoldLeft(Turn, crc, buf)
    /\ nchars' = nchars + Len(buf)
    /\ remainder' = FoldLeft(DivideByte, remainder, buf)
    /\ damaged' = {FoldLeft(Turn, w, buf) : w \in damaged} \cup
                  {FoldLeft(Turn, crc, flipped) : flipped \in Bursts(buf)}

Next == \E buf \in Buf : Update(buf)

Spec == Init /\ [][Next]_vars

----------------------------------------------------------------------------
(* The reply that carries the digest *)

Wire == INSTANCE WireFormat

----------------------------------------------------------------------------
(* Properties *)

\* Every variable has its type: no bit is carried out of the word.
TypeOK ==
    /\ crc \subseteq 0..31 /\ remainder \subseteq 0..31
    /\ nchars \in Nat
    /\ damaged \subseteq SUBSET (0..31)

\* The digest, over whatever buffers the content came in, is the remainder of the
\* content followed by its length; and whichever byte comes next, the word the table
\* has for it continues the division.
DigestIsRemainder ==
    /\ digest(crc, nchars) = (0..31) \ FoldLeft(DivideByte, remainder, LengthBytes(nchars))
    /\ \A c \in Byte : Turn(crc, c) = DivideByte(remainder, c)

\* The client reads the digest of the reply as the server packed it, whichever of its
\* bytes are negative as a char: otherwise it would resend a file that has arrived.
DigestArrives == Wire!Returns(digest(crc, nchars), 4) = digest(crc, nchars)

\* A burst of flipped bits changes the digest, whatever follows it: the client does
\* not answer CRC_OK to a file that was damaged so.
BurstsSeen == \A w \in damaged : digest(w, nchars) # digest(crc, nchars)

\* So do up to 16 zero bytes more after zero bytes alone, or after nothing: they leave
\* the remainder 0 as it is, and only the length tells such contents apart.  (Not all
\* of them: n and 256 * n zero bytes have the same digest.)
PaddingSeen == crc = {} => \A n \in 1..16 :
    digest(FoldLeft(Turn, crc, [i \in 1..n |-> {}]), nchars + n) # digest(crc, nchars)
=============================================================================
