----------------------------- MODULE MCRemovals -----------------------------
(* An instance of Removals for TLC. *)
EXTENDS MCMemoryManager, Removals
=============================================================================
