CONSTANTS
  NumPieces = 3
  BlocksPerPiece = 2
  LastPieceBlocks = 1
  RequestSize = 3
  DataChanCap = 1
  BigFile = TRUE
  NoRecord = NoRecord
  NoPeer = NoPeer
  Peer = {p1, p2}
  Faults = {}
  MaxFaults = 0
  Speed <- MCSpeed
SPECIFICATION FairSpec
PROPERTY Completes
