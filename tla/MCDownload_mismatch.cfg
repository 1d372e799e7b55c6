CONSTANTS
  NumPieces = 2
  BlocksPerPiece = 2
  LastPieceBlocks = 1
  RequestSize = 2
  DataChanCap = 1
  BigFile = TRUE
  NoRecord = NoRecord
  NoPeer = NoPeer
  Peer = {p1}
  Faults = {"bad"}
  MaxFaults = 1
  Speed <- MCSpeed
SPECIFICATION Spec
INVARIANT RejectedPieceIsDownloadedAgain
