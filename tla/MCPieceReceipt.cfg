CONSTANTS
  BlockSize = 3
  BlocksPerPiece = 3
  FileSize = 16
  PieceIndex = 1
  NumBlocks = 3
  RequestSize = 1
  c1 = c1
  c2 = c2
  Connection <- MCConnection
  Data <- MCData
SPECIFICATION ReceiptSpec
INVARIANTS TypeOK_Receipt PendingBlocksAreRight SortedFirstCopies HashIsOfPrefix HashedIsTheFile
PROPERTY EachIsAPendingBlock
SYMMETRY Symmetric
CHECK_DEADLOCK FALSE
