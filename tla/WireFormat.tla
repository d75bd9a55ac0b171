----------------------------- MODULE WireFormat -----------------------------
(***************************************************************************)
(* The number fields of a request: how the client writes them              *)
(* (Client/RequestProcessor.cpp) and what the server reads in their place  *)
(* (struct.unpack "<...I" in Server/RequestProcessor.py); and those of a   *)
(* reply, the other way round (struct.pack in Server/ResponseProcessor.py, *)
(* deserialize in Client/ResponseProcessor.cpp).                           *)
(*                                                                         *)
(* numberToBytes fills a buffer with the number's bytes, the least         *)
(* significant one first, and makes a std::string of it as of a C string,  *)
(* which ends before the first zero byte; padString fills it up with       *)
(* zeros.  A byte after a zero byte is lost.                               *)
(***************************************************************************)
EXTENDS Naturals, Sequences

Byte == 0..255

\* A uint32_t by its bytes.
Field == [1..4 -> Byte]

Bytes(n) == <<n % 256, (n \div 256) % 256, (n \div 65536) % 256, (n \div 16777216) % 256>>

\* struct.unpack("<I").
Value(b) == b[1] + 256 * b[2] + 65536 * b[3] + 16777216 * b[4]

\* The length std::string(const char*) finds.
StringLength(b) == CHOOSE k \in 0..4 :
    /\ \A i \in 1..k : b[i] # 0
    /\ k = 4 \/ b[k + 1] = 0

numberToBytes(b) == SubSeq(b, 1, StringLength(b))

\* A string that is too long is returned as it is: len - str.size() wraps, the
\* constructor throws and the handler returns str.
padString(s, len) ==
    IF Len(s) >= len THEN s ELSE s \o [i \in 1..(len - Len(s)) |-> 0]

\* What the server reads for a number the client sends.
Arrives(n) == Value(padString(numberToBytes(Bytes(n)), 4))

----------------------------------------------------------------------------
(* The numbers of a reply: its version, its code, its size and the CRC.    *)
(* Here a number is the set of the positions of its ones, so that | is     *)
(* union, and a byte a subset of 0..7.                                     *)

\* The bytes of a number of len bytes, packed with "<B", "<H" or "<I".
pack(w, len) == [i \in 0..(len - 1) |-> {b \in 0..7 : b + 8 * i \in w}]

\* Faulty: without the cast.  A char is signed: its highest bit fills up the int.
OperandSigned(byte) == IF 7 \in byte THEN byte \cup 8..31 ELSE byte

\* (uint8_t)buffer[i], the int that is shifted.
Operand(byte) == OperandSigned(byte) \cap 0..7

\* << n of an int, of which a cast to uint32_t keeps every bit.
ShiftLeft(w, n) == {b + n : b \in w} \cap 0..31

\* The bytes, each shifted to its place, joined by |= in a T of len bytes.
deserialize(buffer, len) ==
    0..(8 * len - 1) \cap UNION {ShiftLeft(Operand(buffer[i]), 8 * i) : i \in 0..(len - 1)}

\* What the client reads for a number of len bytes the server packs.
Returns(w, len) == deserialize(pack(w, len), len)

----------------------------------------------------------------------------
(* The two numbers of a SEND_FILE request *)

\* CLIENT_ID_LEN + CONTENT_SIZE_SIZE + FILE_NAME_LEN
PREFIX_LEN == 16 + 4 + 255

\* AES in CBC mode pads the content to the next whole block.
EncryptedSize(size) == 16 * (size \div 16 + 1)

\* What the server makes of the request for a file of size bytes.  It handles it;
\* or the file it unpacks has not the announced size; or it announces a payload
\* that ends within a block received ("Payload is too long"; the payload's size
\* is 3 modulo 16 and what arrives of it is never a number of whole blocks), and
\* the rest of the stream is taken for headers.
FileFate(size) ==
    LET enc == EncryptedSize(size)
    IN  IF Arrives(PREFIX_LEN + enc) # PREFIX_LEN + enc THEN "misframed"
        ELSE IF Arrives(enc) # enc THEN "illegal"
        ELSE "handled"
----------------------------------------------------------------------------
(* Properties *)

\* What arrives is the remainder of the number by the power of 256 its lowest
\* zero byte stands for.
RemainderArrives(n) == Arrives(n) =
    IF n % 256 = 0 THEN 0
    ELSE IF (n \div 256) % 256 = 0 THEN n % 256
    ELSE IF (n \div 65536) % 256 = 0 THEN n % 65536
    ELSE n

\* No file below 64 KB - 291 is misframed; it is handled unless its encrypted size
\* is a multiple of 256, which is the case of one size in sixteen blocks.
SmallFileFate(size) == size < 65536 - 291 =>
    FileFate(size) = IF EncryptedSize(size) % 256 = 0 THEN "illegal" ELSE "handled"

\* "Moving a number into bytes string for sending in binary format".
NumberArrives(n) == Arrives(n) = n
=============================================================================
