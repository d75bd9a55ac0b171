-------------------------- MODULE MCMemoryManager --------------------------
(* Instances of MemoryManager for TLC. *)
EXTENDS MemoryManager, TLC

\* The methods compare identifiers, names, threads and contents for equality
\* and nothing else.
Symmetry == Permutations(ID) \cup Permutations(Name) \cup Permutations(Conn)
              \cup Permutations(FileName) \cup Permutations(Content)
=============================================================================
