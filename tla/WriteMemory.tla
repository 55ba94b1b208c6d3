---------------------------- MODULE WriteMemory ----------------------------
(***************************************************************************)
(* gdb_write_memory: a block of memory is cut into packets, the bytes the  *)
(* protocol gives a meaning to are escaped, and every packet is framed in  *)
(* the fixed buffer gdb->packet.  MemoryLink adds the calls of write that  *)
(* carry it; GdbLink has the retransmissions.                              *)
(*                                                                         *)
(* Only whether a byte has to be escaped matters: a block is a sequence of *)
(* "plain" and "special" bytes.                                            *)
(***************************************************************************)
EXTENDS Integers, Sequences, SequencesExt

CONSTANTS
  MaxPacketSize,  \* MAX_PACKET_SIZE
  Blocks          \* the blocks the callers write

Bytes == {"plain", "special"}  \* special: '$', '#' and 0x7d
PacketBytes == {"plain", "escape", "flipped"}  \* flipped: a special byte ^ 0x20

ASSUME PacketSizeAssumption == MaxPacketSize \in Nat
ASSUME BlocksAssumption == Blocks \subseteq Seq(Bytes)

MaxBufferSize == MaxPacketSize - 6
DataStart == 20  \* '$' and "X%08x,%08x:" come before the data in the packet

VARIABLES
  pc,       \* "filling" a packet, "done", or "undefined" after a write out of bounds
  block,    \* the caller's buffer
  start,    \* how many of its bytes went out in the packets before this one
  copied,   \* bytes_copied
  data,     \* the packet's data; buffer_size is its length
  memory    \* the simulator's memory from the block's address on

vars == <<pc, block, start, copied, data, memory>>

Size == Len(block) - start

Init ==
  /\ block \in Blocks
  /\ pc = IF Len(block) > 0 THEN "filling" ELSE "done"
  /\ start = 0
  /\ copied = 0
  /\ data = << >>
  /\ memory = << >>

(* Mutant of Encoded: the byte after the escape is not changed.            *)
EncodedUnflipped(b) == IF b = "special" THEN <<"escape", "plain">> ELSE <<"plain">>

Encoded(b) == IF b = "special" THEN <<"escape", "flipped">> ELSE <<"plain">>

BufferFull == Len(data) >= MaxBufferSize - 1

(***************************************************************************)
(* What follows the packet in the structure is its length, which           *)
(* gdb_send_buffer sets last, and the pointer gdb->buffer.  A data byte or *)
(* a digit of the checksum stored there is lost or destroys the pointer;   *)
(* only the NUL that ends the packet does no harm when it is the one byte  *)
(* too many.                                                               *)
(***************************************************************************)
InPacket(index) == index < MaxPacketSize

(* Mutant of LastDigit: the checksum is formatted with four digits.        *)
LastDigitLater(n) == DataStart + n + 4

LastDigit(n) == DataStart + n + 2  \* where the packet with n bytes of data ends

CopyByte ==
  /\ pc = "filling"
  /\ ~BufferFull
  /\ copied < Size
  /\ LET encoded == Encoded(block[start + copied + 1])
     IN /\ data' = data \o encoded
        /\ pc' = IF InPacket(DataStart + Len(data) + Len(encoded) - 1)
                 THEN "filling" ELSE "undefined"
  /\ copied' = copied + 1
  /\ UNCHANGED <<block, start, memory>>

\* The simulator undoes the escapes and stores the bytes it was told to expect.
Decoded(s, count) ==
  LET stored == SelectSeq(s, LAMBDA b : b # "escape")
  IN [i \in 1 .. count |-> IF stored[i] = "flipped" THEN "special" ELSE stored[i]]

SendPacket ==
  /\ pc = "filling"
  /\ BufferFull \/ copied = Size
  /\ IF InPacket(LastDigit(Len(data)))
     THEN /\ memory' = memory \o Decoded(data, copied)
          /\ start' = start + copied
          /\ pc' = IF copied < Size THEN "filling" ELSE "done"
          /\ copied' = 0
          /\ data' = << >>
     ELSE /\ pc' = "undefined"
          /\ UNCHANGED <<start, copied, data, memory>>
  /\ UNCHANGED block

Terminating == pc # "filling" /\ UNCHANGED vars

Next == CopyByte \/ SendPacket \/ Terminating

\* One thread runs the loops, and GdbLink answers every packet.
Spec == Init /\ [][Next]_vars /\ WF_vars(CopyByte \/ SendPacket)

(***************************************************************************)
(* Properties                                                              *)
(***************************************************************************)
EncodedBlock == FlattenSeq([i \in DOMAIN block |-> Encoded(block[i])])

\* The data the packet can hold with its header and its checksum.
Room == MaxPacketSize - DataStart - 3

\* A store never leaves gdb->packet while the block, were every byte of it
\* escaped, would fit in one packet.
StaysInPacket == 2 * Len(block) <= Room => pc # "undefined"

\* README.md:53 loads the executable into the simulator with load_sim, which
\* writes every section in one call: every block ends up in its memory.
BlocksWritten == pc # "undefined"
=============================================================================
