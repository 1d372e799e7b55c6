---------------------------- MODULE PendingBlock ----------------------------
(***************************************************************************)
(* The receipt of one block by a peer connection: PendingBlock of          *)
(* peer_connection.go over Region of data/region.go.  The peer sends the   *)
(* block in parts, in any order, overlapping or again; the region is what  *)
(* is still missing, and the block is complete when it is empty.           *)
(* Positions are bytes of the file.  The slice of segments is a set here:  *)
(* its order is used only while there is a single one (Region.Begin).      *)
(***************************************************************************)
EXTENDS Region

CONSTANTS BlockBegin, BlockEnd   \* the block in the file, [BlockBegin, BlockEnd)

BlockAssumption ==
  BlockBegin \in Nat /\ BlockEnd \in Nat /\ BlockBegin < BlockEnd

VARIABLES
  region,   \* Segments
  filled,   \* the positions of data that hold what the peer sent
  failed    \* a read failed: the connection ends

vars == <<region, filled, failed>>

BlockBytes == Bytes(Make(BlockBegin, BlockEnd))

----------------------------------------------------------------------------
\* MakePendingBlock
Init ==
  /\ region = {Make(BlockBegin, BlockEnd)}
  /\ filled = {}
  /\ failed = FALSE

\* Receive(reader, b, e), all bytes read.  A part that leaves the block, or ends
\* before it begins, panics in the slice expression (lines 49 and 63) and ends the
\* process: nothing of the block is left, and the behaviour stops.
Receive(b, e) ==
  /\ ~failed /\ region # {}
  /\ filled' = filled \cup Bytes(Make(b, e))
  /\ region' = RegionSub(region, Make(b, e))
  /\ UNCHANGED failed

\* The peer goes away after n bytes: they are in data, the region is as before.
ReceiveFails(b, e, n) ==
  /\ ~failed /\ region # {}
  /\ b + n < e
  /\ filled' = filled \cup Bytes(Make(b, b + n))
  /\ failed' = TRUE
  /\ UNCHANGED region

\* ReceiveToEof(reader, b): a compressed part fills the block from b to its end.
ReceiveToEof(b) == b < BlockEnd /\ Receive(b, BlockEnd)

Position == BlockBegin .. BlockEnd

Next ==
  \/ \E b, e \in Position : b <= e /\ Receive(b, e)
  \/ \E b, e \in Position : \E n \in 0..(e - b) : ReceiveFails(b, e, n)
  \/ \E b \in Position : ReceiveToEof(b)

Spec == Init /\ [][Next]_vars

----------------------------------------------------------------------------
\* Every variable has its type.
TypeOK ==
  /\ region \subseteq Ranges
  /\ filled \subseteq BlockBytes
  /\ failed \in BOOLEAN

\* The bytes outside the region have arrived: a block is never handed to the
\* transfer with a hole in it (peer_connection.go:257).
NothingMissing == BlockBytes \ BytesOf(region) \subseteq filled

\* No segment is empty and none leaves the block: once the last byte arrives
\* the region is empty too, and the block is not waited for in vain.
NoEmptySegment ==
  \A r \in region : BlockBegin <= r.begin /\ r.begin < r.end /\ r.end <= BlockEnd

\* While no read failed, the region is exactly the bytes that did not arrive,
\* whatever parts overlap or come again (Region.Sub is set difference).
RegionIsTheRest == ~failed => BytesOf(region) = BlockBytes \ filled
=============================================================================
