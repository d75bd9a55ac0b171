---------------------------- MODULE MCWireFormat ----------------------------
(* A file that grows byte by byte, through the sizes where a byte of the size *)
(* or of the payload's size becomes zero.                                     *)
EXTENDS WireFormat

CONSTANTS From, To  \* the file grows from each of From until it meets one of To

VARIABLE size

Init == size \in From

Grow == size \notin To /\ size' = size + 1

Spec == Init /\ [][Grow]_size

\* numberToBytes: "Moving a number into bytes string for sending in binary
\* format"; what the server reads in its place is the number.
SizeArrives == NumberArrives(size)
=============================================================================
