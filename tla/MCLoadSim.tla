----------------------------- MODULE MCLoadSim -----------------------------
(***************************************************************************)
(* LoadSim for TLC: files of up to three sections, allocated or not,       *)
(* empty, short or long, whose bytes are in the file or not, and files     *)
(* that stop short.                                                        *)
(***************************************************************************)
EXTENDS LoadSim

Readable ==
  [header : {TRUE}, tables : {TRUE}, sections : UNION {[1 .. n -> Section] : n \in 0 .. 3}]

Unreadable == [header : BOOLEAN, tables : {FALSE}, sections : {<< >>}]

AllFiles == Readable \cup Unreadable
=============================================================================
