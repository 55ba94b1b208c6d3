--------------------------- MODULE MCWriteMemory ---------------------------
(***************************************************************************)
(* WriteMemory for TLC.  The packet leaves room for six bytes of data: the *)
(* blocks reach from nothing to beyond what two packets could hold.        *)
(***************************************************************************)
EXTENDS WriteMemory

SmallBlocks == UNION {[1 .. n -> Bytes] : n \in 0 .. 8}

\* With the real size: a block of one byte more than a packet has room for.
LongBlock == {[i \in 1 .. 1002 |-> "plain"]}
=============================================================================
