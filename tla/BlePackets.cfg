SPECIFICATION Spec
CONSTANTS
  Room = 2
  PacketHeader = 1
  BlobHeader = 1
  SeqValues = 3
  Lengths = {1, 2, 4, 8}
  MaxPayloads = 3
  MaxExtras = 1
  MaxDrops = 1
INVARIANTS
  WholeOrNothing
  BackInStep
CHECK_DEADLOCK FALSE
