------------------------------ MODULE RelocArith ------------------------------
(***************************************************************************)
(* The arithmetic of one relocation entry: apply_relocation of             *)
(* src/process_rel.c.  A relocated place is a "cell" of the target         *)
(* section: the bytes the entry writes there.  What the model keeps of an  *)
(* ARM word is what the code distinguishes, its top byte (condition and    *)
(* opcode) and its 24-bit branch field.                                    *)
(*                                                                         *)
(* Values are those of the code, unscaled: symbol values and places are    *)
(* non-negative and below 2^31, so the int32_t subtraction is exact.       *)
(***************************************************************************)
EXTENDS Integers

Reach == 8388608          \* 0x800000, words a signed 24-bit field reaches
FieldSize == 16777216     \* 2^24, values of the field
HalfSize == 65536         \* 2^16
ByteSize == 256
CallOpcode == 235         \* 0xEB, "always" condition and BL opcode
Kept == 256               \* no byte: the top byte is left as it was

RelocTypes == {"ABS32", "ABS16", "ABS8", "JUMP24", "CALL", "OTHER"}

(* The bytes an entry stores: a value of some width, or a branch word.     *)
Data(width, value) == [width |-> width, value |-> value]
Branch(top, field) == [top |-> top, field |-> field]

Cells == [width : {1, 2, 4}, value : Nat]
           \cup [top : {Kept, CallOpcode}, field : 0 .. (FieldSize - 1)]

-----------------------------------------------------------------------------
(* Mutant of Displacement: forgets that the PC is ahead of the word.       *)
DisplacementFromWord(S, P) == S - P

(* place is the address of the word; the processor's PC is 8 further.      *)
Displacement(S, P) == S - P - 8

(* displacement & 0x00FFFFFF, on a displacement already shifted right by 2 *)
Field(words) == words % FieldSize

(* R_ARM_JUMP24 refuses a target that is not word aligned, then a          *)
(* displacement in bytes outside -33554432 .. 33554428.                    *)
JumpAccepted(S, P) ==
  /\ S % 4 = 0
  /\ Displacement(S, P) >= -33554432
  /\ Displacement(S, P) <= 33554428

(* R_ARM_CALL tests the alignment of the displacement instead, and its     *)
(* range once it is counted in words.                                      *)
CallAccepted(S, P) ==
  /\ Displacement(S, P) % 4 = 0
  /\ Displacement(S, P) \div 4 >= -8388608
  /\ Displacement(S, P) \div 4 <= 8388607

Accepted(type, S, P) ==
  \/ type \in {"ABS32", "ABS16", "ABS8"}
  \/ type = "JUMP24" /\ JumpAccepted(S, P)
  \/ type = "CALL" /\ CallAccepted(S, P)

(* What an accepted entry writes.  The addend the word held is not read.   *)
Relocated(type, S, P) ==
  CASE type = "ABS32"  -> Data(4, S)
    [] type = "ABS16"  -> Data(2, S % HalfSize)
    [] type = "ABS8"   -> Data(1, S % ByteSize)
    [] type = "JUMP24" -> Branch(Kept, Field(Displacement(S, P) \div 4))
    [] type = "CALL"   -> Branch(CallOpcode, Field(Displacement(S, P) \div 4))

-----------------------------------------------------------------------------
(* How an ARM processor decodes a branch: the reference the encoding is    *)
(* judged by.  It is not in the code.                                      *)
SignExtend(field) == IF field < Reach THEN field ELSE field - FieldSize
BranchTarget(P, field) == P + 8 + 4 * SignExtend(field)

=============================================================================
