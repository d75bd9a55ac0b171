------------------------------- MODULE MCCrc --------------------------------
(* Instances of Crc for TLC. *)
EXTENDS Crc

\* Nothing, a zero byte, a byte of ones, a byte of a text, and four bytes.
MCBuf == {<< >>, <<{}>>, <<0..7>>, <<{0, 5, 6}>>, <<{1, 5, 6}, {}, {0}, {7}>>}

\* With MaxLength bytes more the length gets its second, its third, its fourth byte.
MCStart == {0, 256 - 2, 65536 - 2, 16777216 - 2}

\* Each bit alone, a whole byte, and bursts of two and four bytes.
MCDamage == {<<{b}>> : b \in 0..7} \cup
            {<<0..7>>, <<{0}, {7}>>, <<{7}, {0}>>, <<{0}, {}, {}, {7}>>, <<{7}, 0..7, 0..7, {0}>>}
=============================================================================
