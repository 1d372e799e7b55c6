---------------------------- MODULE PiecePicker ----------------------------
(***************************************************************************)
(* The piece picker of a transfer: piece_picker.go and                     *)
(* downloading_piece.go.  It decides which blocks the next connection      *)
(* requests and remembers, for every piece being downloaded, which blocks  *)
(* were requested, how many connections download each, and which arrived.  *)
(*                                                                         *)
(* This module has the picker's state and one operator per method; it has  *)
(* no Next of its own.  PickerUse drives it with an arbitrary well-behaved *)
(* caller, Download with the goroutines of a transfer.                     *)
(***************************************************************************)
EXTENDS Integers, Sequences, FiniteSets

CONSTANTS
  NumPieces,        \* pieces.Bits()
  BlocksPerPiece,   \* proto.BLOCKS_PER_PIECE, 50 in the program
  LastPieceBlocks,  \* second result of NumPiecesAndBlocks
  Peer,             \* the transfer's Peer records, told apart by endpoint
  NoPeer,           \* nil
  Speed             \* Peer.Speed: 0 is PEER_SPEED_SLOW, 1 MEDIUM, 2 FAST

ASSUME PickerAssumption ==
  /\ NumPieces \in Nat \ {0}
  /\ BlocksPerPiece \in Nat \ {0}
  /\ LastPieceBlocks \in 1..BlocksPerPiece
  /\ IsFiniteSet(Peer)
  /\ NoPeer \notin Peer
  /\ Speed \in [Peer -> Nat]

VARIABLES
  blocksInLastPiece, \* BlocksInLastPiece
  pieces,            \* indices of the bits set in pieces
  downloading,       \* downloadingPieces: their indices, in slice order
  size,              \* len(blocks) of each downloading piece, 0 for the others
  requested,         \* blocksRequested of the downloading pieces
  finished,          \* blocksFinished of the downloading pieces
  downloaders,       \* downloadersCount of their blocks
  lastDownloader     \* lastDownloader of their blocks

pickerVars == <<blocksInLastPiece, pieces, downloading, size, requested,
                finished, downloaders, lastDownloader>>

Piece == 0..(NumPieces - 1)
Block == Piece \X (0..(BlocksPerPiece - 1))
Slow  == 0

\* The blocks the file really has: the last piece may be shorter.
RealBlocks(p) ==
  {<<p, i>> : i \in 0..((IF p = NumPieces - 1 THEN LastPieceBlocks
                                              ELSE BlocksPerPiece) - 1)}
FileBlocks == UNION {RealBlocks(p) : p \in Piece}

----------------------------------------------------------------------------
InProgress == {downloading[i] : i \in DOMAIN downloading}

Position(p) == CHOOSE i \in DOMAIN downloading : downloading[i] = p

BlocksInPiece(p) == IF p + 1 = NumPieces THEN blocksInLastPiece
                                         ELSE BlocksPerPiece

\* The blocks of the DownloadingPiece of p.
BlocksOf(p) == {b \in Block : b[1] = p /\ b[2] < size[p]}

NumHave(p)     == Cardinality({b \in BlocksOf(p) : b \in finished})
IsFinished     == pieces = Piece /\ downloading = <<>>

\* Mutant: the resume data is made from blocksRequested.
DownloadedBlocksRequested == [p \in InProgress |-> requested \cap BlocksOf(p)]

DownloadedBlocks == [p \in InProgress |-> finished \cap BlocksOf(p)]

----------------------------------------------------------------------------
(* PickPieces(n, peer).  The slices are walked in order, so the result is   *)
(* the first n candidates: free blocks of the downloading pieces, then, for *)
(* a peer that is not slow, blocks others already download, then the blocks *)
(* of pieces nobody chose, each of which is put on downloadingPieces only   *)
(* when the candidates before it are not enough.                            *)

\* Mutant: what has not arrived is free, requested or not.
FreeUnlessFinished == {b \in Block \ finished : b[1] \in InProgress /\ b[2] < size[b[1]]}

\* Mutant: the walk over the blocks of a piece ends one too early.
FreeButLast == {b \in Block \ requested : b[1] \in InProgress /\ b[2] + 1 < size[b[1]]}

FreeBlocks == {b \in Block \ requested : b[1] \in InProgress /\ b[2] < size[b[1]]}

\* Mutant: a third connection may join a block (downloadersCount <= 2).
ReRequestableByThird(peer) ==
  {b \in requested \ finished :
     /\ downloaders[b] <= 2
     /\ \/ lastDownloader[b] = NoPeer
        \/ Speed[lastDownloader[b]] < Speed[peer] /\ lastDownloader[b] # peer}

ReRequestable(peer) ==
  {b \in requested \ finished :
     /\ downloaders[b] < 2
     /\ \/ lastDownloader[b] = NoPeer
        \/ Speed[lastDownloader[b]] < Speed[peer] /\ lastDownloader[b] # peer}

OldCandidates(peer) ==
  FreeBlocks \cup (IF Speed[peer] # Slow THEN ReRequestable(peer) ELSE {})

NewBlocks(P) == {b \in Block : b[1] \in P /\ b[2] < BlocksInPiece(b[1])}

\* Mutant: the walk over the pieces goes one too far (i <= Bits()).
ChosenPastEnd(n, peer) ==
  {p \in (0..NumPieces) \ pieces :
     Cardinality(OldCandidates(peer))
       + Cardinality(NewBlocks({q \in Piece \ pieces : q < p})) < n}

Chosen(n, peer) ==
  {p \in Piece \ pieces :
     Cardinality(OldCandidates(peer))
       + Cardinality(NewBlocks({q \in Piece \ pieces : q < p})) < n}

Candidates(n, peer) == OldCandidates(peer) \cup NewBlocks(Chosen(n, peer))

PickRank(b) ==
  IF b[1] \notin InProgress THEN <<2, b[1], b[2]>>
  ELSE <<IF b \in requested THEN 1 ELSE 0, Position(b[1]), b[2]>>

PickedBefore(b, c) ==
  LET r == PickRank(b)
      s == PickRank(c)
  IN  \E i \in 1..3 : r[i] < s[i] /\ \A j \in 1..(i - 1) : r[j] = s[j]

Picked(n, peer) ==
  {b \in Candidates(n, peer) :
     Cardinality({c \in Candidates(n, peer) : PickedBefore(c, b)}) < n}

\* S as a sequence, each element once; and in ascending order.
Arrangements(S) == {s \in [1..Cardinality(S) -> S] :
                      /\ \A x \in S : \E i \in DOMAIN s : s[i] = x
                      /\ \A i, j \in DOMAIN s : s[i] = s[j] => i = j}
Ascending(S) == {s \in Arrangements(S) : \A i, j \in DOMAIN s : i < j => s[i] < s[j]}

PickPieces(n, peer) ==
  LET picked == Picked(n, peer)
      chosen == Chosen(n, peer)
  IN  /\ pieces' = pieces \cup chosen
      /\ \E new \in Ascending(chosen) : downloading' = downloading \o new
      /\ size' = [p \in Piece |-> IF p \in chosen THEN BlocksInPiece(p) ELSE size[p]]
      /\ requested' = requested \cup picked
      /\ downloaders' = [b \in Block |-> IF b \in picked THEN downloaders[b] + 1
                                                         ELSE downloaders[b]]
      /\ lastDownloader' = [b \in Block |-> IF b \in picked THEN peer
                                                            ELSE lastDownloader[b]]
      /\ UNCHANGED <<blocksInLastPiece, finished>>

----------------------------------------------------------------------------
\* Mutant: the count is compared before it is decremented.
AbortBlockTestsFirst(b, peer) ==
  IF b[1] \notin InProgress \/ b \in finished THEN UNCHANGED pickerVars
  ELSE /\ downloaders' = [downloaders EXCEPT ![b] = @ - 1]
       /\ requested' = IF downloaders[b] = 0 THEN requested \ {b} ELSE requested
       /\ lastDownloader' = [lastDownloader EXCEPT ![b] = IF @ = peer THEN NoPeer ELSE @]
       /\ UNCHANGED <<blocksInLastPiece, pieces, downloading, size, finished>>

\* Mutant: the block is freed although another connection downloads it.
AbortBlockFreesShared(b, peer) ==
  IF b[1] \notin InProgress \/ b \in finished THEN UNCHANGED pickerVars
  ELSE /\ downloaders' = [downloaders EXCEPT ![b] = @ - 1]
       /\ requested' = requested \ {b}
       /\ lastDownloader' = [lastDownloader EXCEPT ![b] = IF @ = peer THEN NoPeer ELSE @]
       /\ UNCHANGED <<blocksInLastPiece, pieces, downloading, size, finished>>

\* AbortBlock(b, peer): a finished block, or one of a piece that is no longer
\* downloading, stays as it is.
AbortBlock(b, peer) ==
  IF b[1] \notin InProgress \/ b \in finished THEN UNCHANGED pickerVars
  ELSE /\ downloaders' = [downloaders EXCEPT ![b] = @ - 1]
       /\ requested' = IF downloaders[b] = 1 THEN requested \ {b} ELSE requested
       /\ lastDownloader' = [lastDownloader EXCEPT ![b] = IF @ = peer THEN NoPeer ELSE @]
       /\ UNCHANGED <<blocksInLastPiece, pieces, downloading, size, finished>>

\* "finish not requested block"
FinishPanics(b) == b[1] \in InProgress /\ b \notin requested

FinishBlock(b) ==
  IF b[1] \notin InProgress THEN UNCHANGED pickerVars
  ELSE /\ finished' = finished \cup {b}
       /\ downloaders' = [downloaders EXCEPT ![b] = @ - 1]
       /\ lastDownloader' = [lastDownloader EXCEPT ![b] = NoPeer]
       /\ UNCHANGED <<blocksInLastPiece, pieces, downloading, size, requested>>

----------------------------------------------------------------------------
\* Mutant: the slice is not shortened.
RemoveSwapKeepsLast(s, i) == [s EXCEPT ![i] = s[Len(s)]]

\* remove(s, i): the last element takes the place of the removed one.
RemoveSwap(s, i) == [j \in 1..(Len(s) - 1) |-> IF j = i THEN s[Len(s)] ELSE s[j]]

\* The DownloadingPiece of p is dropped, and what it recorded with it.
Forget(p) ==
  /\ downloading' = RemoveSwap(downloading, Position(p))
  /\ size' = [size EXCEPT ![p] = 0]
  /\ requested' = {b \in requested : b[1] # p}
  /\ finished' = {b \in finished : b[1] # p}
  /\ downloaders' = [b \in Block |-> IF b[1] = p THEN 0 ELSE downloaders[b]]
  /\ lastDownloader' = [b \in Block |-> IF b[1] = p THEN NoPeer ELSE lastDownloader[b]]
  /\ UNCHANGED blocksInLastPiece

RemoveDownloadingPiece(p) ==
  IF p \notin InProgress THEN UNCHANGED pickerVars
  ELSE Forget(p) /\ pieces' = pieces \ {p}

\* "set have to already finished piece", "set piece have when not all
\* downloading blocks are finished"
SetHavePanics(p) ==
  \/ p \notin pieces
  \/ p \in InProgress /\ NumHave(p) # size[p]

\* Mutant: the piece is taken off like a rejected one.
SetHaveClearsBit(p) == RemoveDownloadingPiece(p)

SetHave(p) ==
  IF p \notin InProgress THEN UNCHANGED pickerVars
  ELSE Forget(p) /\ UNCHANGED pieces

----------------------------------------------------------------------------
\* CreatePiecePicker(NumPieces, LastPieceBlocks)
CreatePiecePicker ==
  /\ blocksInLastPiece = LastPieceBlocks
  /\ pieces = {}
  /\ downloading = <<>>
  /\ size = [p \in Piece |-> 0]
  /\ requested = {}
  /\ finished = {}
  /\ downloaders = [b \in Block |-> 0]
  /\ lastDownloader = [b \in Block |-> NoPeer]

\* FromResumeData(atp): the saved map is walked in an order Go leaves open,
\* and BlocksInLastPiece keeps its zero value.  The length of a restored
\* piece is that of the bit field that was saved.
FromResumeData(savedPieces, savedBlocks, savedSize) ==
  /\ blocksInLastPiece' = 0
  /\ pieces' = savedPieces
  /\ downloading' \in Arrangements(DOMAIN savedBlocks)
  /\ size' = [p \in Piece |-> IF p \in DOMAIN savedBlocks THEN savedSize[p] ELSE 0]
  /\ requested' = UNION {savedBlocks[p] : p \in DOMAIN savedBlocks}
  /\ finished' = UNION {savedBlocks[p] : p \in DOMAIN savedBlocks}
  /\ downloaders' = [b \in Block |-> 0]
  /\ lastDownloader' = [b \in Block |-> NoPeer]

\* After a restart a last piece that was not begun has no blocks.
LastPieceIsLost ==
  /\ blocksInLastPiece = 0
  /\ size[NumPieces - 1] = 0
  /\ NumPieces - 1 \notin pieces \ InProgress

----------------------------------------------------------------------------
\* Types of the picker's state, for the type invariants of its users.
PickerTypeOK ==
  /\ blocksInLastPiece \in {0, LastPieceBlocks}
  /\ pieces \subseteq Piece
  /\ downloading \in Seq(Piece)
  /\ size \in [Piece -> 0..BlocksPerPiece]
  /\ requested \subseteq Block
  /\ finished \subseteq Block
  /\ downloaders \in [Block -> Int]
  /\ lastDownloader \in [Block -> Peer \cup {NoPeer}]
=============================================================================
