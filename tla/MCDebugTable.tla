---------------------------- MODULE MCDebugTable ----------------------------
(***************************************************************************)
(* DebugTable for TLC.  Five places stand for the 64 of debug.c: enough    *)
(* for a search that goes left, right, hits, and ends on an empty range,   *)
(* and for the table to be full with names given twice.                    *)
(***************************************************************************)
EXTENDS DebugTable

FourNames == 1 .. 4
=============================================================================
