CONSTANTS
  ByteBits = 2
  CountLimit = 65536
  NumPieces = 2
  BlocksPerPiece = 3
  LastPieceBlocks = 1
  MaxElems = 1
  MaxWriteErrors = 1
  CutAt = {0, 5}
  NoFile = NoFile
  NoRecord = NoRecord
SPECIFICATION Spec
INVARIANTS TypeOK_ResumeFile ReadsBack CompleteIsVerified BitsAreASet
CHECK_DEADLOCK FALSE
