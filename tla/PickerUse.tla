----------------------------- MODULE PickerUse -----------------------------
(***************************************************************************)
(* The piece picker under every well-behaved caller: connections ask for   *)
(* blocks, deliver or return them in any order, full pieces are accepted   *)
(* or rejected, and the process may stop and resume from what              *)
(* GetPieces and GetDownloadedBlocks returned.                             *)
(*                                                                         *)
(* The caller's part, as transfer.go and peer_connection.go play it:       *)
(*  - a peer that can share blocks asks when it owes none                  *)
(*    (peer_connection.go:260-262);                                        *)
(*  - it delivers and returns only what it owes, each block once;          *)
(*  - a piece is accepted or rejected when all its blocks arrived          *)
(*    (transfer.go:215), and rejected only when nobody owes a block of it. *)
(* Download checks what happens when the real callers fail to.             *)
(***************************************************************************)
EXTENDS PiecePicker

CONSTANT RequestSize   \* proto.REQUEST_QUEUE_SIZE, 3 in the program

ASSUME RequestSizeAssumption == RequestSize \in Nat \ {0}

VARIABLE holders   \* the peers that owe each block (requestedBlocks)

vars == <<pickerVars, holders>>

Owed(peer) == {b \in Block : peer \in holders[b]}

Init ==
  /\ CreatePiecePicker
  /\ holders = [b \in Block |-> {}]

Ask(peer) ==
  /\ Speed[peer] # Slow => Owed(peer) = {}
  /\ PickPieces(RequestSize, peer)
  /\ holders' = [b \in Block |-> IF b \in Picked(RequestSize, peer)
                                 THEN holders[b] \cup {peer} ELSE holders[b]]

\* The second copy of a block is dropped before it reaches the picker
\* (transfer.go:170-181).
Deliver(peer, b) ==
  /\ peer \in holders[b]
  /\ holders' = [holders EXCEPT ![b] = @ \ {peer}]
  /\ IF b \in finished THEN UNCHANGED pickerVars ELSE FinishBlock(b)

Return(peer, b) ==
  /\ peer \in holders[b]
  /\ holders' = [holders EXCEPT ![b] = @ \ {peer}]
  /\ AbortBlock(b, peer)

\* The caller looks when a block has come, and all are there by its count
\* (transfer.go:215).
Full(p) ==
  /\ p \in InProgress
  /\ NumHave(p) > 0
  /\ NumHave(p) = size[p]
  /\ NumHave(p) = BlocksInPiece(p)

Accept(p) ==
  /\ Full(p)
  /\ SetHave(p)
  /\ UNCHANGED holders

Reject(p) ==
  /\ Full(p)
  /\ \A b \in BlocksOf(p) : holders[b] = {}
  /\ RemoveDownloadingPiece(p)
  /\ UNCHANGED holders

\* The process ends; the next one reads what was saved last.
Restart ==
  /\ FromResumeData(pieces, DownloadedBlocks, size)
  /\ holders' = [b \in Block |-> {}]

Next ==
  \/ \E peer \in Peer : Ask(peer)
  \/ \E peer \in Peer, b \in Block : Deliver(peer, b) \/ Return(peer, b)
  \/ \E p \in Piece : Accept(p) \/ Reject(p)
  \/ Restart

Spec == Init /\ [][Next]_vars

----------------------------------------------------------------------------
\* Every variable has its type (the state of the picker and of its callers).
TypeOK == PickerTypeOK /\ holders \in [Block -> SUBSET Peer]

\* A block that is being downloaded and has not arrived is marked requested
\* exactly when somebody owes it, and downloadersCount is the number of those
\* who do: no block is stuck with nobody to send it, none is given up while
\* somebody still sends it (DownloadingPiece.PickBlock, AbortBlock).
Accounting ==
  \A b \in Block :
    b[1] \in InProgress /\ b \notin finished =>
      /\ downloaders[b] = Cardinality(holders[b])
      /\ b \in requested <=> holders[b] # {}

\* The picker's records fit together: every downloading piece is listed once and
\* its bit is set, marks are only on its own blocks, what arrived was requested,
\* and nobody owes a block of a piece that is free to be chosen again, which
\* would start its count anew (chooseNextPiece, RemoveDownloadingPiece, remove).
Consistent ==
  /\ \A i, j \in DOMAIN downloading : downloading[i] = downloading[j] => i = j
  /\ InProgress \subseteq pieces
  /\ finished \subseteq requested
  /\ \A b \in requested : b[1] \in InProgress /\ b[2] < size[b[1]]
  /\ \A b \in Block : b[1] \notin InProgress => downloaders[b] = 0
  /\ \A b \in Block : b[1] \notin pieces => holders[b] = {}

\* No delivery can meet the panic of FinishBlock, and no accepted piece those
\* of SetHave: whatever is owed is requested, whatever is full is marked.
NoPanic ==
  /\ \A b \in Block : holders[b] # {} => ~FinishPanics(b)
  /\ \A p \in Piece : Full(p) => ~SetHavePanics(p)

\* The picker keeps the promises of BlockPool through any number of restarts:
\* who downloads which block, that a free block is found while fewer blocks than
\* asked for are handed out, and that no delivered block is asked for again.
Pool == INSTANCE BlockPool WITH
          Pieces <- Piece, LastPiece <- NumPieces - 1, BlocksIn <- RealBlocks,
          Peers <- Peer, PeerSpeed <- Speed, MaxRequest <- RequestSize,
          owners <- [b \in FileBlocks |-> holders[b]],
          done <- finished \cup UNION {RealBlocks(p) : p \in pieces \ InProgress},
          verified <- pieces \ InProgress,
          lost <- IF LastPieceIsLost THEN {NumPieces - 1} ELSE {}
ImplementsBlockPool == Pool!Spec
=============================================================================
