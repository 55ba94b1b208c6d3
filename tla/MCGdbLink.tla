----------------------------- MODULE MCGdbLink -----------------------------
(***************************************************************************)
(* GdbLink for TLC: programs with every kind of command.                  *)
(***************************************************************************)
EXTENDS GdbLink

LongerProgram == <<"set", "set", "step", "set", "step", "cont">>

SmallProgram == <<"set", "step", "set", "cont">>
=============================================================================
