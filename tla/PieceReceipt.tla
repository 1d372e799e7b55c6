---------------------------- MODULE PieceReceipt ----------------------------
(***************************************************************************)
(* The way of a piece from the connections that receive it to its hash:    *)
(* the read loop of peer_connection.go finds the pending block a part is   *)
(* for from the offset in the file, complete blocks go to the transfer,    *)
(* and the transfer inserts them into the ReceivingPiece.  It composes one *)
(* PendingBlock for each block a connection was asked for with the         *)
(* ReceivingPiece of piece PieceIndex.                                     *)
(*                                                                         *)
(* A byte of the file is named by its position, so the contents of a       *)
(* buffer say which bytes of the file it holds, and where.                 *)
(***************************************************************************)
EXTENDS ReceivingPiece, Region, SequencesExt

CONSTANTS
  BlockSize,       \* proto.BLOCK_SIZE
  BlocksPerPiece,  \* proto.BLOCKS_PER_PIECE
  FileSize,        \* Transfer.Size
  PieceIndex,      \* the piece that is received
  RequestSize,     \* proto.REQUEST_QUEUE_SIZE
  Connection       \* the peer connections

Zero == -1         \* a byte of a buffer nothing was read into

PieceSize == BlockSize * BlocksPerPiece

\* DivCeil64 and NumPiecesAndBlocks
DivCeil(a, b) == (a + b - 1) \div b
BlocksInLastPiece ==
  LET n == DivCeil(FileSize % PieceSize, BlockSize)
  IN  IF n = 0 THEN BlocksPerPiece ELSE n
NumPieces == DivCeil(FileSize, PieceSize)

ASSUME ReceiptAssumption ==
  /\ {BlockSize, BlocksPerPiece, FileSize, RequestSize} \subseteq Nat \ {0}
  /\ PieceIndex \in 0..(NumPieces - 1)
  /\ NumBlocks = IF PieceIndex + 1 = NumPieces THEN BlocksInLastPiece ELSE BlocksPerPiece

\* PieceBlock.Start, FromOffset and InBlockOffset
Start(i) == PieceIndex * PieceSize + i * BlockSize
FromOffset(offset) == <<offset \div PieceSize, (offset % PieceSize) \div BlockSize>>
\* Mutant: the offset in the piece.
InPieceOffset(offset) == offset % PieceSize
InBlockOffset(offset) == offset % BlockSize

\* The end of the block, by MakePendingBlock.
End(i) == IF Start(i) + BlockSize < FileSize THEN Start(i) + BlockSize ELSE FileSize

----------------------------------------------------------------------------
VARIABLES
  pending,   \* requestedBlocks of each connection
  region,    \* what its pending blocks miss
  data,      \* and the buffers
  failed     \* connections a read failed on

receiptVars == <<vars, pending, region, data, failed>>

EmptyBuffer(i) == [n \in 1..(End(i) - Start(i)) |-> Zero]

\* The pending block of c for block i.  What it holds is what lies in its buffer
\* at the place of the block where the hash will look for it.
Pending(c, i) == INSTANCE PendingBlock WITH
  BlockBegin <- Start(i), BlockEnd <- End(i), region <- region[c][i],
  filled <- {x \in Start(i)..(End(i) - 1) : data[c][i][x - Start(i) + 1] = x},
  failed <- c \in failed

InitReceipt ==
  /\ Init
  /\ pending = [c \in Connection |-> {}]
  /\ region = [c \in Connection |-> [i \in Index |-> {}]]
  /\ data = [c \in Connection |-> [i \in Index |-> EmptyBuffer(i)]]
  /\ failed = {}

\* The transfer asks c for blocks (transfer.go:262-272); another connection may
\* have been asked for the same.
Request(c) ==
  /\ pending[c] = {} /\ c \notin failed
  /\ \E S \in SUBSET (Index \ DOMAIN first) :
       /\ Cardinality(S) \in 1..RequestSize
       /\ pending' = [pending EXCEPT ![c] = S]
       /\ region' = [region EXCEPT ![c] = [i \in Index |->
            IF i \in S THEN {Make(Start(i), End(i))} ELSE {}]]
       /\ data' = [data EXCEPT ![c] = [i \in Index |-> EmptyBuffer(i)]]
  /\ UNCHANGED <<vars, failed>>

\* data with the bytes [b, e) of the file read into it from InBlockOffset(b) on.
ReadInto(buffer, b, e) ==
  [n \in DOMAIN buffer |-> LET k == n - 1 - InBlockOffset(b)
                           IN  IF 0 <= k /\ k < e - b THEN b + k ELSE buffer[n]]

\* The block goes to the transfer (dataChan), which inserts it unless it has it,
\* and is no longer pending (RemovePendingBlock).
HandOver(c, i, buffer) ==
  /\ pending' = [pending EXCEPT ![c] = @ \ {i}]
  /\ region' = [region EXCEPT ![c][i] = {}]
  /\ data' = [data EXCEPT ![c][i] = EmptyBuffer(i)]
  /\ InsertBlock(i, buffer)
  /\ first' = [j \in DOMAIN first \cup {i} |->
                 IF j \in DOMAIN first THEN first[j] ELSE buffer]

\* The part [b, e) is read; a block whose region is empty is handed over.
\* Mutant: a block is handed over when one segment is left.
ReadPartHandsOver(c, i, b, e) ==
  LET rest == RegionSub(region[c][i], Make(b, e))
      read == ReadInto(data[c][i], b, e)
  IN  /\ IF Cardinality(rest) <= 1 THEN HandOver(c, i, read)
         ELSE /\ region' = [region EXCEPT ![c][i] = rest]
              /\ data' = [data EXCEPT ![c][i] = read]
              /\ UNCHANGED <<pending, vars>>
      /\ UNCHANGED failed
ReadPart(c, i, b, e) ==
  LET rest == RegionSub(region[c][i], Make(b, e))
      read == ReadInto(data[c][i], b, e)
  IN  /\ IF rest = {} THEN HandOver(c, i, read)
         ELSE /\ region' = [region EXCEPT ![c][i] = rest]
              /\ data' = [data EXCEPT ![c][i] = read]
              /\ UNCHANGED <<pending, vars>>
      /\ UNCHANGED failed

\* The block that the part is for, if the connection waits for it.
Expected(c, b, i) == FromOffset(b) = <<PieceIndex, i>> /\ i \in pending[c] /\ c \notin failed

Positions == Start(0)..(End(NumBlocks - 1) - 1)

\* OP_SENDINGPART: a part, or none, of a block that was asked for.  That the part
\* ends within its block is not checked: Receive slices the buffer (line 49), and
\* a slice that leaves it panics and ends the process.  Such a behaviour stops
\* here, as behaviours of ReceiptSpec may; a part that does not stop the process
\* is one of these.
SendingPart(c) ==
  \E b \in Positions, i \in Index :
    /\ Expected(c, b, i)
    /\ \E e \in b..End(i) : ReadPart(c, i, b, e)

\* The peer goes away after n bytes: they are in the buffer, the region is as it was.
SendingPartFails(c) ==
  \E b \in Positions, i \in Index :
    /\ Expected(c, b, i)
    /\ \E e \in b..(End(i) - 1) : data' = [data EXCEPT ![c][i] = ReadInto(@, b, e)]
    /\ failed' = failed \cup {c}
    /\ UNCHANGED <<vars, pending, region>>

\* OP_COMPRESSEDPART: what is unpacked fills the block from b to its end.
CompressedPart(c) ==
  \E b \in Positions, i \in Index : Expected(c, b, i) /\ ReadPart(c, i, b, End(i))

\* A part of a block that was not asked for, or was received: "has not
\* corresponding index".
UnexpectedPart(c) ==
  /\ c \notin failed /\ pending[c] # {}
  /\ \E b \in Positions : ~\E i \in Index : Expected(c, b, i)
  /\ failed' = failed \cup {c}
  /\ UNCHANGED <<vars, pending, region, data>>

\* The connection ends (unregister): its blocks are returned, what they held is
\* lost; another connection takes its place.
Unregister(c) ==
  /\ c \in failed
  /\ pending' = [pending EXCEPT ![c] = {}]
  /\ region' = [region EXCEPT ![c] = [i \in Index |-> {}]]
  /\ data' = [data EXCEPT ![c] = [i \in Index |-> EmptyBuffer(i)]]
  /\ failed' = failed \ {c}
  /\ UNCHANGED vars

NextReceipt ==
  \E c \in Connection :
    \/ Request(c) \/ SendingPart(c) \/ SendingPartFails(c) \/ CompressedPart(c)
    \/ UnexpectedPart(c) \/ Unregister(c)

ReceiptSpec == InitReceipt /\ [][NextReceipt]_receiptVars

----------------------------------------------------------------------------
\* Every variable has its type.
TypeOK_Receipt ==
  /\ TypeOK
  /\ pending \in [Connection -> SUBSET Index]
  /\ failed \subseteq Connection
  /\ \A c \in Connection, i \in Index : Pending(c, i)!TypeOK

\* The bytes outside the region of a pending block are in its buffer, at their
\* places: a block is not handed over with a hole in it (peer_connection.go:257).
NothingMissing ==
  \A c \in Connection : \A i \in pending[c] : Pending(c, i)!NothingMissing

\* No pending block waits for an empty segment or for bytes outside it, so the
\* last byte that arrives completes it.
NoEmptySegment ==
  \A c \in Connection : \A i \in pending[c] :
    region[c][i] # {} /\ Pending(c, i)!NoEmptySegment

\* What a pending block waits for is exactly what has not been read, whatever
\* parts overlap or come again, until a read fails (Region.Sub, Receive).
RegionIsTheRest ==
  \A c \in Connection : \A i \in pending[c] : Pending(c, i)!RegionIsTheRest

\* A pending block is right in all three.
PendingBlocksAreRight == NothingMissing /\ NoEmptySegment /\ RegionIsTheRest

\* From its request until it is handed over or its connection ends, a block of a
\* connection is a PendingBlock: what PendingBlock promises for blocks of every
\* length holds here.
EachIsAPendingBlock ==
  [][\A c \in Connection : \A i \in pending[c] \cap pending'[c] :
       UNCHANGED Pending(c, i)!vars \/ Pending(c, i)!Next]_receiptVars

\* What was written to the hash is, byte by byte, the piece as it is in the file
\* from its start on, and with the last block it is all of it: no matter in which
\* parts, from which connections and in which order it came, and where one broke off.
HashedIsTheFile ==
  LET bytes == FlattenSeq(hashed)
      begin == PieceIndex * PieceSize
      end   == IF begin + PieceSize < FileSize THEN begin + PieceSize ELSE FileSize
  IN  /\ bytes = [n \in 1..Len(bytes) |-> begin + n - 1]
      /\ DOMAIN first = Index => Len(bytes) = end - begin
=============================================================================
