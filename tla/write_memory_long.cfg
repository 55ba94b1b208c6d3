CONSTANTS
  MaxPacketSize = 1024
  Blocks <- LongBlock
SPECIFICATION Spec
INVARIANTS
  BlocksWritten
