----------------------------- MODULE MCScanner -----------------------------
(***************************************************************************)
(* Scanner for TLC: every stream of up to three bytes, and those of up to  *)
(* six bytes a packet is made of.                                          *)
(***************************************************************************)
EXTENDS Scanner

UpTo(n, S) == UNION {[1 .. k -> S] : k \in 0 .. n}

SmallStreams == UpTo(3, Bytes) \cup UpTo(6, {"$", "#", "hex"}) \cup UpTo(5, {"$", "hex", "nul"})
=============================================================================
