---------------------------- MODULE MCToolchain ----------------------------
(***************************************************************************)
(* Toolchain for TLC, over all objects of MCProcessRel.                    *)
(***************************************************************************)
EXTENDS MCProcessRel, Toolchain
=============================================================================
