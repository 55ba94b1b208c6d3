---------------------------- MODULE MCMemoryLink ----------------------------
(***************************************************************************)
(* MemoryLink for TLC, over the blocks of MCWriteMemory.                   *)
(***************************************************************************)
EXTENDS MemoryLink, MCWriteMemory
=============================================================================
