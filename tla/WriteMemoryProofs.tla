-------------------------- MODULE WriteMemoryProofs --------------------------
(***************************************************************************)
(* For every packet size and every block: no store of gdb_write_memory     *)
(* leaves the packet when the block, were all of its bytes escaped, fits.  *)
(***************************************************************************)
EXTENDS MemoryLink, TLAPS

(***************************************************************************)
(* The inductive invariant: a byte copied takes two places of the packet   *)
(* at most, so the data never outgrows twice the block.  The block is      *)
(* never written, and the packet never counts more bytes than it has left. *)
(***************************************************************************)
Counts ==
  /\ block \in Seq(Bytes)
  /\ start \in Nat
  /\ copied \in Nat
  /\ start + copied <= Len(block)

DataBounded == data \in Seq(PacketBytes) /\ Len(data) <= 2 * copied

IInv == Counts /\ DataBounded /\ StaysInPacket

-----------------------------------------------------------------------------
\* A byte takes one place or two.
LEMMA EncodedFacts ==
  ASSUME NEW b \in Bytes
  PROVE  Encoded(b) \in Seq(PacketBytes) /\ Len(Encoded(b)) <= 2 /\ Len(Encoded(b)) \in Nat
<1>1. CASE b = "special"
  <2>1. Encoded(b) = <<"escape", "flipped">>
    BY <1>1 DEF Encoded
  <2> QED
    BY <2>1 DEF PacketBytes
<1>2. CASE b # "special"
  <2>1. Encoded(b) = <<"plain">>
    BY <1>2 DEF Encoded
  <2> QED
    BY <2>1 DEF PacketBytes
<1> QED
  BY <1>1, <1>2

LEMMA InitHolds == Init => IInv
<1> SUFFICES ASSUME Init PROVE IInv
  OBVIOUS
<1>1. block \in Seq(Bytes) /\ Len(block) \in Nat
  BY BlocksAssumption DEF Init
<1>2. Counts
  BY <1>1 DEF Init, Counts
<1>3. DataBounded
  BY DEF Init, DataBounded
<1>4. StaysInPacket
  BY DEF Init, StaysInPacket
<1> QED
  BY <1>2, <1>3, <1>4 DEF IInv

\* The stores of CopyByte are below 20 + 2 * Len(block).
LEMMA CopyByteStep ==
  ASSUME IInv, CopyByte
  PROVE  IInv'
<1> DEFINE b == block[start + copied + 1]
           s == Encoded(b)
<1>1. /\ data' = data \o s
      /\ pc' = IF InPacket(DataStart + Len(data) + Len(s) - 1) THEN "filling" ELSE "undefined"
      /\ copied' = copied + 1
      /\ block' = block /\ start' = start
      /\ pc = "filling" /\ copied < Len(block) - start
  BY DEF CopyByte, Size
<1>2. Len(block) \in Nat /\ start \in Nat /\ copied \in Nat /\ block \in Seq(Bytes)
  BY DEF IInv, Counts
<1>3. b \in Bytes
  BY <1>1, <1>2
<1>4. s \in Seq(PacketBytes) /\ Len(s) <= 2 /\ Len(s) \in Nat
  BY <1>3, EncodedFacts
<1>5. data \in Seq(PacketBytes) /\ Len(data) \in Nat /\ Len(data) <= 2 * copied
  BY DEF IInv, DataBounded
<1> HIDE DEF b, s
<1>6. data' \in Seq(PacketBytes) /\ Len(data') = Len(data) + Len(s)
  BY <1>1, <1>4, <1>5
<1>7. Counts'
  BY <1>1, <1>2 DEF Counts
<1>8. DataBounded'
  BY <1>1, <1>2, <1>4, <1>5, <1>6 DEF DataBounded
<1>9. StaysInPacket'
  <2> SUFFICES ASSUME 2 * Len(block) <= Room PROVE pc' # "undefined"
    BY <1>1 DEF StaysInPacket
  <2>1. DataStart + Len(data) + Len(s) - 1 < MaxPacketSize
    BY <1>1, <1>2, <1>4, <1>5, PacketSizeAssumption DEF DataStart, Room
  <2> QED
    BY <1>1, <2>1 DEF InPacket
<1> QED
  BY <1>7, <1>8, <1>9 DEF IInv

\* The checksum ends below 23 + 2 * Len(block).
LEMMA SendPacketStep ==
  ASSUME IInv, SendPacket
  PROVE  IInv'
<1>1. Len(block) \in Nat /\ start \in Nat /\ copied \in Nat /\ start + copied <= Len(block)
  BY DEF IInv, Counts
<1>2. data \in Seq(PacketBytes) /\ Len(data) \in Nat /\ Len(data) <= 2 * copied
  BY DEF IInv, DataBounded
<1>3. block' = block
  BY DEF SendPacket
<1>4. CASE InPacket(LastDigit(Len(data)))
  <2>1. start' = start + copied /\ copied' = 0 /\ data' = << >> /\ pc' \in {"filling", "done"}
    BY <1>4 DEF SendPacket
  <2>2. Counts'
    BY <1>1, <1>3, <2>1 DEF IInv, Counts
  <2>3. DataBounded'
    BY <2>1 DEF DataBounded
  <2>4. StaysInPacket'
    BY <2>1 DEF StaysInPacket
  <2> QED
    BY <2>2, <2>3, <2>4 DEF IInv
<1>5. CASE ~InPacket(LastDigit(Len(data)))
  <2>1. UNCHANGED <<start, copied, data, block>>
    BY <1>5 DEF SendPacket
  <2>2. Counts' /\ DataBounded'
    BY <2>1 DEF IInv, Counts, DataBounded
  <2>3. ~(2 * Len(block) <= Room)
    BY <1>1, <1>2, <1>5, PacketSizeAssumption DEF InPacket, LastDigit, DataStart, Room
  <2>4. StaysInPacket'
    BY <1>3, <2>3, PacketSizeAssumption DEF StaysInPacket, Room, DataStart
  <2> QED
    BY <2>2, <2>4 DEF IInv
<1> QED
  BY <1>4, <1>5

LEMMA StepHolds == IInv /\ [Next]_vars => IInv'
<1> SUFFICES ASSUME IInv, [Next]_vars PROVE IInv'
  OBVIOUS
<1>1. CASE CopyByte
  BY <1>1, CopyByteStep
<1>2. CASE SendPacket
  BY <1>2, SendPacketStep
<1>3. CASE Terminating \/ UNCHANGED vars
  BY <1>3 DEF Terminating, vars, IInv, Counts, DataBounded, StaysInPacket, Room, DataStart
<1> QED
  BY <1>1, <1>2, <1>3 DEF Next

\* No write leaves gdb->packet for a block that fits with every byte escaped,
\* whatever the size of the packet and the bytes of the block.
THEOREM PacketNeverOverflows == Spec => []StaysInPacket
<1>1. IInv => StaysInPacket
  BY DEF IInv
<1> QED
  BY <1>1, InitHolds, StepHolds, PTL DEF Spec

\* The composition with Rio_writen makes the stores of gdb_write_memory and no
\* others: however the kernel cuts and interrupts the writes, none leaves
\* gdb->packet either.
THEOREM LinkNeverOverflows == LinkSpec => []StaysInPacket
<1>1. [LinkNext]_<<vars, link>> => [Next]_vars
  BY DEF LinkNext, Fill, Overrun, Transmit, Writing, Answered, Next
<1>2. LinkInit => IInv
  BY InitHolds DEF LinkInit
<1>3. IInv /\ [LinkNext]_<<vars, link>> => IInv'
  BY <1>1, StepHolds
<1>4. IInv => StaysInPacket
  BY DEF IInv
<1> QED
  BY <1>2, <1>3, <1>4, PTL DEF LinkSpec
=============================================================================
