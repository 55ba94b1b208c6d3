CONSTANTS
  MaxPacketSize = 29
  Blocks <- SmallBlocks
SPECIFICATION LinkSpec
INVARIANTS
  StaysInPacket
PROPERTIES
  SmallBlocksWritten
\* The block is written, a write failed, or the program is undefined.
CHECK_DEADLOCK FALSE
