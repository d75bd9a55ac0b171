---------------------- MODULE MCSecuredFileTransfer ----------------------
(* Instances of SecuredFileTransfer for TLC. *)
EXTENDS SecuredFileTransfer, TLC

CONSTANTS c1, c2, c3, h1, h2, alice, bob, f, x, y, z

\* Two runs on one host, and one of another user on another host.
MCHostOf == [c \in Conn |-> IF c = c3 THEN h2 ELSE h1]
MCNameOf == [h \in Host |-> IF h = h1 THEN alice ELSE bob]
MCFileOf == [h \in Host |-> f]
\* 1024 bytes are 0x410 encrypted and arrive; 1023 are 0x400 and do not.
MCSizeOf == [c \in Conn |-> 1024]
MCSomeSizeLost == [c \in Conn |-> IF c = c2 THEN 1023 ELSE 1024]
MCContentOf == [c \in Conn |-> IF c = c1 THEN x ELSE IF c = c2 THEN y ELSE z]
=============================================================================
