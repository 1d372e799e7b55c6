CONSTANTS
  NumPieces = 2
  BlocksPerPiece = 2
  LastPieceBlocks = 1
  RequestSize = 2
  NoPeer = NoPeer
  a = a
  b = b
  c = c
  Peer <- MCPeer
  Speed <- MCSpeed
SPECIFICATION Spec
INVARIANTS TypeOK Consistent Accounting NoPanic
PROPERTY ImplementsBlockPool
