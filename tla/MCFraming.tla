----------------------------- MODULE MCFraming ------------------------------
(* Instances of Framing for TLC. *)
EXTENDS Framing

\* Honest requests of no block, two blocks, one and a half, and the last announced
\* as one byte and as one block.
MCRequest == {[size |-> n, announced |-> n] : n \in {0, 3, 4}} \cup
             {[size |-> 3, announced |-> n] : n \in {1, 2}}
=============================================================================
