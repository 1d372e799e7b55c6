CONSTANTS
  NumPieces = 2
  BlocksPerPiece = 2
  LastPieceBlocks = 1
  RequestSize = 2
  DataChanCap = 1
  BigFile = TRUE
  NoRecord = NoRecord
  NoPeer = NoPeer
  Peer = {p1, p2}
  Faults = {"crash", "drop", "io", "bad", "stop"}
  MaxFaults = 2
  Speed <- MCSpeed
SPECIFICATION Spec
INVARIANTS TypeOK ClaimsAreOnDisk OneCopyUnderWay ArrivalAssertionsHold
PROPERTIES SavedProgressIsKept ImplementsDurablePool
SYMMETRY Peers
