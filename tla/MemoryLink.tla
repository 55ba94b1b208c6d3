----------------------------- MODULE MemoryLink -----------------------------
(***************************************************************************)
(* gdb_write_memory over Rio_writen: a packet leaves in the pieces the     *)
(* kernel takes, and the simulator carries it out and answers when it has  *)
(* the whole of it, made of the bytes it got.                              *)
(***************************************************************************)
EXTENDS WriteMemory

VARIABLES call, n, nleft, bufp, errno, received

W == INSTANCE RioWriten

link == <<call, n, nleft, bufp, errno, received>>

\* The packet in gdb->packet: the data between the header and the checksum,
\* which the simulator checks.
PacketByte(offset) ==
  IF offset < DataStart THEN "header"
  ELSE IF offset < DataStart + Len(data) THEN data[offset - DataStart + 1]
  ELSE "trailer"

Packet == [i \in 1 .. LastDigit(Len(data)) |-> PacketByte(i - 1)]
ReceivedPacket == [i \in DOMAIN received |-> PacketByte(received[i])]

LinkInit == Init /\ W!Init

Fill == call = "none" /\ CopyByte /\ UNCHANGED link

Overrun ==
  /\ ~InPacket(LastDigit(Len(data)))
  /\ SendPacket
  /\ UNCHANGED link

\* gdb_send_buffer, gdb_transmit_packet.
Transmit ==
  /\ pc = "filling"
  /\ BufferFull \/ copied = Size
  /\ InPacket(LastDigit(Len(data)))
  /\ W!Start(LastDigit(Len(data)))
  /\ UNCHANGED vars

Writing == W!Next /\ UNCHANGED vars

\* gdb_get_answer: there is no answer to a packet with a wrong checksum.
Answered ==
  /\ W!Done
  /\ ReceivedPacket = Packet
  /\ SendPacket

LinkNext == Fill \/ Overrun \/ Transmit \/ Writing \/ Answered

LinkSpec ==
  /\ LinkInit /\ [][LinkNext]_<<vars, link>>
  /\ WF_<<vars, link>>(Fill \/ Transmit \/ Answered)
  /\ WF_<<vars, link>>(W!WriteSome /\ UNCHANGED vars)
  /\ WF_<<vars, link>>(W!Returns /\ UNCHANGED vars)

(***************************************************************************)
(* Properties                                                              *)
(***************************************************************************)
\* A block whose escaped bytes fit in one packet ends up in the simulator's
\* memory whole, unchanged and once, into however many pieces the kernel cuts
\* the packets and however often it is interrupted, unless a write fails: the
\* program then exits (csapp.c:597 and 728).
SmallBlocksWritten ==
  Len(EncodedBlock) <= Room => <>((pc = "done" /\ memory = block) \/ call = "exited")
=============================================================================
