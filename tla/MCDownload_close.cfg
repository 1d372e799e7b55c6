CONSTANTS
  NumPieces = 1
  BlocksPerPiece = 2
  LastPieceBlocks = 2
  RequestSize = 1
  DataChanCap = 1
  BigFile = FALSE
  NoRecord = NoRecord
  NoPeer = NoPeer
  Peer = {p1, p2}
  Faults = {"drop", "stop", "stray"}
  MaxFaults = 2
  Speed <- MCSpeed
SPECIFICATION LocalFairSpec
INVARIANT ArrivalAssertionsHold
PROPERTY ClosedConnectionsEnd
