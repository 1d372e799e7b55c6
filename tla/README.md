# A verification of ged2k

ged2k is an eDonkey2000 client in Go. It keeps one session with one server
connection, several transfers, and connections to peers that serve blocks of the
transfers' files. This directory holds TLA+ specifications of the parts of the
program whose correctness depends on order: the order of goroutines, messages,
failures and restarts. TLC checks them on small instances, and TLAPS proves every
safety property and refinement of theirs for every value of the constants.

A block has 190 KiB, a piece has 50 blocks (9.28 MB) and an MD4 hash; the last piece
of a file and the last block may be shorter.

## 1. Inventory

### Components, their state and their operations

| Component | Source | State | Operations |
|---|---|---|---|
| piece picker | `piece_picker.go`, `downloading_piece.go` | bits of pieces chosen or had, the pieces in progress with the marks requested and finished, a count of downloaders and the last downloader of each block | PickPieces, AbortBlock, FinishBlock, SetHave, RemoveDownloadingPiece, FromResumeData, GetDownloadedBlocks |
| transfer | `transfer.go` | picker, ReceivingPieces, hash set, last error, the file | one goroutine; a select over blocks, aborted blocks, hash sets, ready connections and the command channel |
| pending block | `peer_connection.go:25-69`, `data/region.go` | buffer and the region still missing | Receive, ReceiveToEof, Region.Sub |
| receiving piece | `piece_storage.go` | blocks in order, running hash | InsertBlock, Hash |
| peer connection | `peer_connection.go` | socket, requested blocks, Connected and DisconnectLater | Start (dial, hello, file name, status, hash set, upload, parts), unregister, Close |
| session | `session.go` | the table of connections, the map of transfers, the server connection and a candidate, stopped | one goroutine; a select over commands, register and unregister, tick, messages of transfers, server packets |
| policy | `policy.go` | the peers of a transfer with failures and times | AddPeer, erasePeers, FindConnectCandidate |
| server connection | `server_connection.go` | socket, Connected, DisconnectRequested, times | Start, SendPacket, Close |
| resume data | `proto/transfer.go`, `session.go:592` | bits of pieces, bits of blocks of each piece in progress, the file | Get, Put, Size, saveResumeData, the restore command |
| bit field | `proto/bitfield.go` | a count of bits and the bytes that hold them | SetBit, ClearBit, Count, Resize, ResizeVal, SetAll, ClearAll, Assign, Get, Put |
| search | `proto/search.go` | the entries read, the stack of operators | BuildEntries, PackRequest |
| wire format, tags | `proto/` | none | conversions of bytes |
| statistics | `statistics.go` | counters and averages | ReceiveBytes, SendBytes, SecondTick |
| main, configuration | `main.go`, `config.go` | settings | command line |

### How they interact

The session, each transfer, each peer connection and the server connection are
goroutines. They meet on unbuffered channels, so a send is a joint step of the
sender and of a receiver that is back in its select; the one buffered channel is
`dataChan` (10 blocks) from connections to their transfer. Besides, they share
memory without locks: a transfer appends to a connection's `requestedBlocks` and
reads its `peer`, the session sets that `peer` to nil, `Close` runs in goroutines of
its own and reads `Connected`. The transfer reaches the picker by calls. The session
writes the resume file for the transfer, which waits only until the session has
taken the data, not until it is written.

### What is hard, and what must be right

* **Picker.** Blocks are handed out, returned, delivered, delivered twice and restored.
  A block must be counted for exactly those who download it, a free block must be
  found again, and the panics in FinishBlock and SetHave must be out of reach.
* **Transfer and connections.** The write, the mark in the picker, the two saves of
  resume data and the check of the hash are separate steps, and the process may end between
  any two. What the resume file says must be in the file, and nothing saved may get
  lost. A block must not be fetched twice. A connection that closes must not wait for ever
  for a transfer that waits for the session.
* **Block and piece.** Parts overlap, touch, repeat and break off, blocks arrive in
  any order: the block is complete exactly when all bytes are there, the hash is that
  of the piece.
* **Resume file.** It is written over the old one and not truncated, with records of
  different lengths, and a write may fail half way. What is read must be a record that was
  written, and claim no piece whose hash was never right.
* **Search.** A query of any words, quotes, operators and parentheses is either refused or
  sent with the meaning it has.
* **Session and policy.** Transfers share endpoints. The table of connections, the
  goroutines and the marks in the peer lists must agree, the search for candidates must end,
  `cmdChan` must be closed once, the session must end after a stop and not earlier.
* **Server connection.** Connect, disconnect, the tick's reconnect and a late Close
  meet a connection that dials, registers or ends.

`PROJECT.json` lists these as hazards, each at its line.

## 2. Modules

```
PiecePicker ──┬── PickerUse ──── MCPickerUse         BlockPool    (abstract, implemented by PickerUse)
              └── Download ───── MCDownload             └─ DurablePool  (abstract, implemented by Download)
Region ──┬── PendingBlock
         └── PieceReceipt ────── MCPieceReceipt      (one PendingBlock, by INSTANCE, for each
ReceivingPiece ──┘                                    block of each connection)
BitField ───── ResumeFile
Search
Policy ─────── Session
ServerLink

PiecePickerProofs ──┬── PickerUseProofs   (PickerUse, and that it implements BlockPool)
                    └── DownloadProofs    (Download, and that it implements DurablePool)
PieceReceiptProofs                        (ReceivingPiece, Region, PendingBlock, and PieceReceipt,
                                           which implements them)
ResumeFileProofs                          (BitField and ResumeFile)
SearchProofs                              (Search)
SessionProofs                             (Policy and Session)
ServerLinkProofs
```

**PiecePicker** has the picker's variables and an operator per method. `downloading`
is the slice `downloadingPieces` (its order matters: `remove` swaps the last element
in), `size`, `requested`, `finished`, `downloaders` and `lastDownloader` are the
fields of its pieces. `Picked` is what one PickPieces returns: free blocks of pieces in
progress, then blocks another, slower peer downloads, then blocks of a new
piece. New pieces are chosen in ascending order.

**PickerUse** drives the picker with any well-behaved caller: peers of any speed ask,
deliver, return; full pieces are accepted or rejected; the process restarts from
the picker's own resume data. Its variable `holders` is who owes which block.

**BlockPool** is what the picker promises, in four variables and without pieces in
progress, bits or counters. `ImplementsBlockPool` is the refinement, with
`owners <- holders`, `done` the finished blocks and those of had pieces, `verified`
the had pieces, and `lost` the last piece when a restart has forgotten its length.

**DurablePool** is what a download promises: that pool with snapshots of it, which are made, written to a file and
read again by the next process, with writes that fail (`unsaved` until the next snapshot is on its way), and with processes that
fail or exit at any point. `ImplementsDurablePool` is
Download's refinement: `done` and `verified` as before, `owners` of a block the peer it was last given
to while it is requested and not finished, `saving` and `file` the pool as the record on its way and the one in
the file have it, and `mode` is failing from a panic or a wrong hash on. The steps of Download the pool does
not see are `Hidden`.

**Download** is one transfer with its connections and the part of the session that
serves it. `tpc` is where the transfer is: in its select (`loop`), before the first
save (`save`), before the check (`verify`), after it (`complete`), before blocks are
assigned (`assign`), with an error for the session (`report`). `cpc` is the same for each connection: in its read loop, with the
answer it waits for, or at a send: of a hash set (`offerHash`, or `offerShort` with too few hashes), of a block to
`dataChan` (`offerBlock`, the block in `sending`), of itself (`offerReady`). At a send it reads nothing, not even that
its socket was closed. A send on an unbuffered channel is one
action of both sides, so `TakeReady(c)` needs the transfer in `loop` and the connection
in `offerReady`. The read loop takes every packet in every state: an `Answer` is one the peer was asked for,
and a `Stray` one it was not, which counts as a fault and is noted in `strayed`; out of their turn the hello and the file name
change nothing, and blocks may come at any time. `saving` is the resume data the session writes: while it is there the
session serves nobody. `SaveFails` is the write of it that fails, which the program only logs; `unsaved`
remembers it for the properties. A failed write to the downloaded file (`TakeBlockWriteFails`) leaves nothing, a part or all
of the block there. `resume` and `disk` survive the process. A panic ends the process
(`panicked`), and `Restart` starts it again; `Crash` does both at any point.

**Region** is `data/region.go`: half-open ranges and their difference. **PendingBlock** is one
block as a connection receives it, **ReceivingPiece** the blocks of a piece and the data
written to its hash. **PieceReceipt** puts them together: connections are asked for blocks of a
piece, read parts of them, find the pending block of a part from its offset in the file,
hand complete blocks over, fail and come back. A byte of the file is named by its
position, so the contents of a buffer say which byte lies where, and the hash either has the
positions of the piece in order or it does not. `Pending(c, i)` is the PendingBlock that is seen in
the buffer of connection `c` for block `i`.

**BitField** is bit fields as they are stored: bytes of `ByteBits` bits (8 in the program), the
unused ones at the end included. **ResumeFile** is the file of one transfer unit by unit: the
record is made from the picker's bits, put into a buffer of its computed size and written over
whatever is there, in the order a Go map happens to give its blocks; Get reads it back. Writes fail
half way (`WriteFails`), the process ends (`Crash`), transfers are restored or added
anew. What a reader makes of the blocks is a recursive function of their number, the
size of a record the number of its units. `written` and `torn` are for the properties: the last whole record, and whether a
torn one lies over it.

**Search** reads a query token by token (`BuildEntries`, with quotes and the ANDs that are left out)
into `entries`. For the properties it also notes the tokens as they are read (`tokens`) and as they are written (`query`): a
quoted operator is read as an operator, and a quoted parenthesis as a parenthesis and as a part of the item as well, but
written they are a part of a word. It then packs the entries one by one from their end (`PackRequest`, with its stack of
operators). Its reference is a grammar: `Forms` gives the prefix forms a sequence of tokens has. It is a recursive function
of the depth of the derivation: the forms of depth d of the tokens from i to j, from those of depth d - 1 of
their parts.

**Policy** has the operators of the peer list. A list is a function from endpoints to
records; the walk over a Go map is a recursive function of the number of its steps along a
sequence, and whoever calls it chooses the sequence. **Session** uses it: one action per case of the session's select; the
tick, which walks the transfers again and again, is a step for each transfer, and no other
case is served until it is over.

**ServerLink** has the server connections in the order they are made, each `new`,
`dialing`, `reading` or `ended`, and the session's pointer to the current one and to the candidate.
Commands and the tick send through the current one, and packets are noted in it; what is in a
packet is left out.

## 3. Runs

| Run | Instance | What it checks |
|---|---|---|
| `picker` | 2 pieces of 2 blocks and 1, 3 peers (slow, medium, fast), requests of 2 | TypeOK, Consistent, Accounting, NoPanic and ImplementsBlockPool, with restarts |
| `faults` | 2 pieces of 2 blocks and 1, 2 connections, any 2 of crash, lost connection, failing operation on the file or the resume file, wrong block, stop | TypeOK, ClaimsAreOnDisk, SavedProgressIsKept, OneCopyUnderWay, ArrivalAssertionsHold, ImplementsDurablePool |
| `steady` | 3 pieces of 2 blocks, 2 and 1, 2 connections, requests of 3, no faults | Completes: the file gets downloaded |
| `close` | 1 piece of 2 blocks, 2 connections, any 2 of lost connection, packet out of its turn, stop | ClosedConnectionsEnd: nobody waits for ever; ArrivalAssertionsHold |
| `receipt` | a file of 16 bytes, its last piece of blocks of 3, 3 and 1, 2 connections, requests of 1 | PendingBlocksAreRight, EachIsAPendingBlock, SortedFirstCopies, HashIsOfPrefix, HashedIsTheFile: what is hashed is the piece |
| `resume` | 2 pieces of 3 blocks and 1, bytes of 2 bits, 1 record in progress readable, 1 failing write | ReadsBack, CompleteIsVerified, BitsAreASet |
| `search` | queries of 7 tokens, with quotes, 3 filters | MeaningIsKept, OpenIsClosed, WordsAreKept, AcceptedIsExpression |
| `session` | 2 transfers, 2 peers, lists of 2, 1 retry, MaxConnections 1, MaxConnectsPerSecond 0 as in `main.go` | TablesAgree, ClosedOnce, NobodyIsLeft, LeastFailedIsNext, TickEnds, StopEnds |
| `server` | 4 server connections | OneAtATime, ConnectionIsThere, DisconnectEnds, CandidateStarts |
| `mismatch`, `announce`, `stop` | 1 or 2 connections | one statement of the source each, which the code violates (section 6) |

### Bounds

* Two pieces, one of them shorter than the other, and three blocks give every case of
  the picker: a piece in the middle of the list is removed, a request spans an old and
  a new piece, the last piece has its own count. Requests of 2 (3 in the program) run out
  inside a piece and across pieces; `steady` requests 3, the next connection then begins with
  the rest of a piece that is under way.
* Three peers are the fewest of which one may join a block of a second while the third
  may not. Two connections are enough in Download: it has no rule about a third.
* `DataChanCap` 1 makes the buffered channel full after one block, which is what the ten
  of the program does after ten.
* `MaxFaults` 2 is every pair of faults, a crash after a crash included. Packets out of their turn are in `close`
  only: in `faults` they would double the states. For them and a crash or a failing operation in one run the
  safety properties rest on the proofs, which have every fault any number of times. A panic and the restart
  after it are not counted.
* In `receipt` blocks of three bytes have parts that begin, end, touch, overlap and leave a hole
  in the middle at every position; one block is a single byte, and the piece is the second, so
  that its start is not 0. Parts may have no bytes. Two connections ask for the same block and one of them comes late. Each
  is asked for one block at a time (3 in the program): a part concerns only the block its offset names, so two blocks of one
  connection are met no otherwise than two of two connections, and the proofs have requests of any size. The
  run stops when all blocks are there. Larger sizes are the proofs' part.
* In `resume` two bits make a byte, so a piece of three blocks has a full byte and one with an
  unused bit. `MaxElems` 1 is MAX_ELEMS (1000 in the program): one piece under way is readable, two are not.
  A write fails once, before anything is written or after five units (`CutAt`), which is inside the
  bits of a piece. `CountLimit` 65536 is that of uint16, never reached: a file of as many pieces
  has 637 GB. The run stops when no transfer can do more.
* In `search` seven tokens give two operators and two pairs of parentheses around three words, or an
  unmatched parenthesis with terms and operators on both sides. One name of an operator (OR) is
  enough, as all are treated alike and AND is the one that is inserted.
* In `session` a unit of time is one pause of MIN_RECONNECT_TIMEOUT_SEC, and the clock stops
  at 2: a peer can fail, wait, fail again, be out of tries and be erased from a full list. `MaxConnections` 1 lets a tick begin
  only without connections; as it is looked at only then, both transfers may still get one in that tick.
* Four server connections: a first, a candidate, the one that replaces it, and one more after
  they ended.

`receipt`, `resume` and `search` do not check for deadlock: they stop when the piece is complete,
the transfer has finished, the request is packed. A
transfer that has finished or failed waits for the user (`WaitForCommand`), and a session that
returned stays so (`SessionClosed`).

### Fairness

* **Download.** Each goroutine runs on (weak fairness of its own steps). Where a goroutine
  waits for one side of a channel that others use as well, the receiver is ready again and again
  but not always: strong fairness, since Go queues the senders of a channel and selects at
  random among the ready cases. `LocalFairSpec` has no more than that, and `close` and `stop`
  use it: a peer need never answer. `steady` adds that peers answer (`RemoteFairness`).
* **Session.** The tick's own steps and the goroutines of Stop run on; the session serves
  some waiting connection or transfer again and again. That a connection
  ends at all is an assumption on the peer; Download's `stop` run is about what happens without it.
* **ServerLink.** A Close runs, a dial succeeds or fails, a read of a closed socket
  fails. The server itself owes nothing.

### Mutants

Every property of a passing run has a mutant in `PROJECT.json`: an operator of the module
(marked `Mutant:`) which changes one definition as a plausible mistake would, and for which
TLC finds the property violated.

## 4. Proofs

Each specification below has its inductive invariants (`IInv`, `IndInv`, `PoolInv`,
`ReceiptInv`, `SessionInv`, `ListsInv`, `PackInv`, `MeaningInv`), a lemma for each action that may disturb them,
and theorems that name the properties of the runs. Go's loops over slices and maps are recursive functions; that
they have a value, and what it is, is shown from the least number for which it fails
(`LeastElement`, `UpTo`, `WalkExists`), because the library's induction
takes an operator as a parameter and is out of the provers' reach.

**PiecePickerProofs** has what PickerUse and Download need of the picker. `PickFacts` says what PickPieces may
return, `RemoveSwapFacts` that `remove` drops one element and repeats none, `ArrangementSeq` what a restart
arranges, `CountIs`, `FewBlocks` and `AllBlocks` what counting blocks of a piece tells. That a request leaves no
free block behind is counted too: the first n elements of a finite set in
a strict order are at most n, and fewer only if they are all (`FirstOfFacts`); the order in which
PickPieces walks is such an order (`WalkOrderStrict`), so a request gets no more than it asked
for, and all candidates when it gets fewer (`PickedCount`). `IdleIsCandidate` shows that every idle block is a
candidate then: otherwise take the first piece the walk does not reach; the candidates before it
are as many as asked for, for the old ones and those of new pieces are disjoint. `PickerInv` is kept by every method: the list repeats no piece, marks belong to pieces
in the list, and a piece is as long as in the file, or is the last one, chosen after a
restart, and has no blocks.

**PickerUseProofs** proves, for every number of pieces, blocks, peers and speeds, that
TypeOK, Consistent, Accounting and NoPanic hold in every reachable state of PickerUse.
The inductive invariant `IndInv` is TypeOK, Consistent and Accounting. None of them is
inductive alone: that a block returned by its last owner may be freed needs the
count to be right (Accounting), the count is right after a piece is chosen anew only if nobody
still owes a block of it (the last conjunct of Consistent), and both need the marks of a piece
to vanish with the piece. NoPanic follows from IndInv. Then it proves `ImplementsBlockPool`: PickerUse
implements BlockPool through any number of restarts. The invariant `PoolInv` adds
`Sized` and `OwedExist`: nobody owes a block the file does not have. Then each action is one of the pool's: a
full piece has all blocks the file has there (`FullIsDone`, by counting), what Forget drops is what the
pool takes away, and a restart keeps `finished` and may lose the last piece only. The proofs rest on
`PickerAssumption` and `RequestSizeAssumption`.

**DownloadProofs** proves all safety properties of Download: TypeOK, ClaimsAreOnDisk, OneCopyUnderWay,
ArrivalAssertionsHold and SavedProgressIsKept, and that it implements DurablePool, for every file, any number of
connections and faults.
`IInv` adds to PickerInv how the picker, the ReceivingPieces, the blocks under way, the file
and the saved records fit together at each point of the transfer's goroutine:
  * `Owing`: whatever is owed, in the channel or on its way back is a block of the file, requested,
    missing, counted once and owed once. It makes FinishBlock's panic
    unreachable and forbids a second copy. It needs all peers to be slow, or a block would be shared. A block that
    is returned late belongs to a connection that is ending (`OnlyLeavingAbort`).
  * `Received` and `AtCheck`: a ReceivingPiece is one of a piece in progress, and at the check of the hash it
    has as many blocks as the piece has, so it has all of them.
  * `Written`, `VerifiedOnDisk` and `SavedIsSound`: finished blocks are in the file, verified pieces are right
    there, and every saved record claims no more and can be restored from. The claim of a verified piece rests on the count
    of `AtCheck`.
  * `Progress`: what the file of resume data claims the picker has, and between two saves the record on its way,
    except in a piece whose data is wrong (`Failing`, `Spoilt`), after which the process ends. `Have` and what was saved may
    differ only at the points where a save is next, or when the last write failed (`unsaved`).
  * `HashSetIsThere`: in a process in which no peer strayed, blocks come only after the hash set, and it has all hashes.
  * `InHand`: a connection at the send to `dataChan` holds the block it sends, so that it is owed until it is in the channel.

`StepKinds` sorts the actions by what they leave alone, so that each part needs a proof only for the handlers
that touch it.

The refinement needs two facts more (`DurableInv`): unless the last write failed, the latest record claims to be verified just what
the picker has (`VerifiedIsSaved`), because the only handler that marks a piece sends resume data in the same step, and a block
that is requested names the peer it was given to (`Given`). Steps that leave the pool's view alone
are sorted out first (`StutterStep`). Of the rest each is one action of the pool: assigning blocks is Assign, with
the picker's facts on counting; an arrival is Receive, and that all earlier blocks are in a snapshot is where
the transfer's save after each arrival comes in; a late return is Return by the peer that `Given` names; a check of the hash
is Accept or GiveUp (`CheckedView`), by Progress the record it saves is the pool as it is then; an exit is
Exit, which the pool allows only when the file has all or the last write failed; a crash or a restart is Restart from the file or from the
record on its way. The proofs rest on `PickerAssumption` and on `DownloadAssumption`, which says that
all speeds are slow and that NoRecord is not a record.

**PieceReceiptProofs** begins with ReceivingPiece: TypeOK, SortedFirstCopies and HashIsOfPrefix for every number
of blocks in every order. The strengthening `FirstIsTheList` says that the list has what came
first and that everything before the hash has come: without it a block that is inserted could be one
that was hashed. The two walks of InsertBlock are CHOOSEs; `SkipBlocksFacts` and
`HashableUpToFacts` show that what they choose exists. Next Region: `data.Sub` is set difference,
its five branches, tried in their order, leave exactly the bytes of a range that the other has not,
and no empty segment (`SubIsDifference`); `RegionSubIsDifference` lifts it to a region. From it come TypeOK,
NothingMissing, NoEmptySegment and RegionIsTheRest of PendingBlock by itself, for blocks and parts of every
length; `BlockAssumption` (the block is not empty) is a hypothesis of these theorems. Then the composition, for blocks, pieces
and files of every size and any number of connections. First the geometry: every block begins in the file,
the blocks of a short last piece too (`StartInFile`), and the place of a part in its buffer, computed
with `%`, is its distance from the start of the block its offset was divided into (`OffsetFacts`). Then the
invariant `ReceiptInv` for each pending block: its region is not empty, its segments lie within it, what is
outside them is at its place, and while the connection lives they are what is not. From it follow
PendingBlocksAreRight, TypeOK_Receipt, EachIsAPendingBlock (a step of the composition is a step of
each PendingBlock or leaves it alone), and `BlocksAreTheFile`: a block that is handed over is byte
by byte that of the file. `ReceiptImplementsReceivingPiece` is the refinement that carries
SortedFirstCopies and HashIsOfPrefix over. `PieceIsHashed` puts them together: the blocks that were hashed are consecutive
runs of positions of the file (`BlocksMeet`), so joined they are one run (`FlattenedBlocks`), and the last one ends where the
piece does (`LastBlockEnds`); FlattenSeq is a recursive function whose equation has one solution
(`FlattenIs`). The proofs rest on `PieceAssumption` and `ReceiptAssumption`, and where they speak
of Data on its holding all sequences of positions.

**ResumeFileProofs** proves all invariants of ResumeFile: TypeOK_ResumeFile, ReadsBack,
CompleteIsVerified, BitsAreASet and FillsBuffer (which no run checks), for bytes of every width, transfers of every size and any number of
crashes and failed writes. First bit fields: the bits below a count are those of its bytes that are not past the
rest in the last one (`InBytes`), so clearing the end of the last byte is intersection (`ClearedFacts`), from which
come the operations one by one, ResizeVal with its split of the byte that was last (`ResizeValFacts`),
and Count, whole bytes and rest, by a bijection (`CountFacts`). Then files: `LiesAt(f, at, s)` says that
the units s lie in f from a place on. What was put is got wherever it lies (`GetFacts`); the blocks of a record lie one
after the other in the order of the walk (`PutWalkExists`), their units are as many as SizeOfBlocks says
(`SizeOfBlocksFacts`), and after k entries a reader has the blocks of the first k places of the order, so
in the end the map (`SeenFacts`, `BlocksReadBack`). The invariant has the
picker and every record `Sound` (a piece that is marked is under way or was found right, and all
bit fields are well formed and short enough for their count), and `FileHolds`: a file that is not torn begins with the record that was
written last, in some order. Without the second a restored picker could not be known to be sound; without the first
the count of the blocks could be cut by its modulus. A transfer that is restored as finished has counted
as many bits as there are pieces, which are then all (`NothingMissing`). The proofs rest on `ResumeAssumption`,
whose last conjunct says that NoFile is not a file.

**SessionProofs** proves all safety properties of Session, for every number of transfers and
peers and all limits, complete transfers that are restored included: TypeOK, TablesAgree, ClosedOnce, NobodyIsLeft and LeastFailedIsNext. ClosedOnce alone says
nothing of why Stop is run once. The invariant adds it: Stop is run for the
transfers whose cmdChan is open (`StopsOnce`), and from then on the table is empty. It stays empty
because a stopped session's transfers want no more peers (`NobodyIsWanted`) and the
tick visits only transfers of the session (`TickInSession`); and a connection that ends after the stop finds
itself in the table (`ConnectionsAreListed`), so only one is the last. About the peer lists, `FindFacts` says that the walk of
FindConnectCandidate ends with a peer that may be connected and failed least, and with none only if no peer may be
(`KeepsLessFailed` is its step), `EraseFacts` that erasePeers takes
no peer that is connected, `AddPeerFacts` and `FirstPeersFacts` that adding sources keeps the marks. The second invariant
`ListsInv` has on top of the first that the marks of the lists are those of the table (`MarksAgree`), and that the
steps of a tick are bounded (`TickCounted`), which TypeOK says of them. The proofs rest on
`SessionAssumption` and `PolicyAssumption`; the latter says that NoEndpoint is none of the endpoints.

**ServerLinkProofs** proves TypeOK, OneAtATime and ConnectionIsThere for every number of server
connections. The strengthening says where a connection may stand: one that was not made is
new, the candidate is new and made, a reading one and only such a one has been Connected
or was heard of while it is current. Without it a candidate could be one that runs already.

**SearchProofs** proves WordsAreKept, OpenIsClosed, MeaningIsKept and AcceptedIsExpression for queries of every
length. The invariant `PackInv` has two parts besides the types. `EntriesAreRead`: each token of the query is at a place of its own
in the entries, in their order, with an AND before it exactly where `NeedsAnd` says so (`IsRead`). The tokens' words are
numbered in their order, and no operator is first or follows another. `Packs`: the words of
the request are those of the entries that are packed, ascending, and the stack has a closing parenthesis for each that
is closed in those entries and not opened there. WordsAreKept and OpenIsClosed follow from it, WordsAreKept whatever is quoted. The other properties are about queries
in which no parenthesis and no name of an operator is quoted (`ReadAsWritten`): what is read is then what is
written, and the invariants speak of `tokens`.

For the meaning, what the actions do one entry at a time is a function as well, `Packed`, which is applied from the last
entry to the first (`IsRun`), and the actions follow it (`PackRuns`). What it does to the entries
of a part of a query that has a form is found by induction on the depth of the grammar (`FormsArePackable`): whatever was on
the stack is still there, and the form is in the request, up to its operators that still wait on the stack (`Leaves`). Since a run that
is stopped stays stopped, an expression is never refused, and what is sent is its form. AcceptedIsExpression
goes the other way, by induction on the length: tokens that may stand next to each other and whose parentheses
are in balance begin with a term (`TermOfBalanced`), and what follows it is such a sequence again
(`RestOfBalanced`), so they have a form (`BalancedHasForm`). Both inductions are on a set of numbers which has 0 and with
each number the next (`UpTo`). The proofs rest on `SearchAssumption`.

Checked by TLC only: what is temporal and not safety, namely Completes, ClosedConnectionsEnd, TickEnds, StopEnds,
DisconnectEnds and CandidateStarts. Liveness under fairness is out of TLAPS' reach.

## 5. What is not modelled

* Accepted connections: `Start` reads `peer` of a connection that has none
  (`peer_connection.go:105`), so the first one ends the process.
* Connections in Download have no failures, back-off or limits (Session has
  them), and the wait before a second connection to a peer is taken to be long enough for the
  transfer to be done with the first.
* `Peer.Speed` is never assigned in the program, so all peers are slow and
  blocks are never shared. Download says so in its assumption; PickerUse has all speeds.
* In Download the write of the resume file is one step, which is done or fails. ResumeFile has it unit by unit; what a
  process makes of a torn file is left out there (the guard of `Restore`): it may get bits of two records, and nothing in the file
  tells (`session.go:594`).
* A part that leaves its block, or ends before it begins: `Receive` slices the buffer without a test
  (`peer_connection.go:49`, `63`), which panics and ends the process. In PieceReceipt such a behaviour is one that stops; the
  specification has no fairness, so it may at any point.
* What is in a hash set: a hash it has is taken to be that of the file, though it may have too few. A peer that sends other hashes has good
  pieces rejected, as in `mismatch`.
* The append to `requestedBlocks` by the transfer and its removals by the connection are single steps; that they are
  not synchronised, and one of them may be lost, is left out.
* A downloaded file that cannot be opened, the command `load`, a hash added twice, the answers to packets that
  change no state, and statistics.
* The bytes of packets and of tags, and PacketCombiner, which splits the stream of a socket into
  packets and inflates some. Of search expressions the bytes of the entries and the limits on length.
* ShrinkEnd of Region, which nothing calls.

## 6. Where the code differs from what it says

Three runs show a statement of the source violated:

* `mismatch`: "restore piece as no-have" (`transfer.go:229`). After a hash mismatch SetHave is
  called for the piece that was just removed, and panics (`transfer.go:242`).
* `announce`: "disconnect all peers", "status finished" (`transfer.go:245`). The
  flag that should tell whether the download was finished before is read after it is
  (`transfer.go:241`), so no transfer ever announces its end.
* `stop`: "close all peer connections" (`session.go:151`). The mark left on a connection that is
  still dialing is lost when it registers (`session.go:437`), and the session waits for its peer.

Others are in the models as the code has them, and in the list of hazards, without a run:
the read loop takes a packet whatever came before it, so a connection whose peer accepts the
upload out of its turn (`peer_connection.go:219`) gets blocks before any hash set came, and the
complete piece ends the process with "hash set is nil!!" (`transfer.go:218`); a hash set with
too few hashes is an index out of range there (`transfer.go:222`); blocks assigned to a connection that is just ending stay requested for ever
(`transfer.go:271`); the same race finds `peer` nil (`transfer.go:263`); a block whose
write failed makes its piece complete for the transfer and not for the picker
(`transfer.go:191`); a crash between the two saves leaves a full piece nobody checks
(`transfer.go:215`); a restored picker gives the last piece no blocks (`piece_picker.go:136`);
a record with more than MAX_ELEMS pieces under way is saved and then refused
(`proto/transfer.go:49`; ReadsBack says so); a torn write may leave a file that mixes the blocks of
two records (`session.go:594`); `closedByRequest` is never set, so each end of a connection counts as a failure
(`session.go:455`); MaxConnections and MaxConnectsPerSecond can be exceeded (`session.go:415`).

Of search expressions, AcceptedIsExpression names what gets through that is not one: an operator
before a trailing space (`a AND `) passes the check of the end (`proto/search.go:380`), `(AND b)` and `(a AND)`
pass, a surplus `)` passes when an operator lies under it on the stack (`proto/search.go:446`), and
empty parentheses and spaces give an empty request. Besides, between quotes AND, OR and NOT become
operators although the comment says otherwise (`proto/search.go:367`), and a parenthesis is a part of the word and a real
parenthesis as well (`proto/search.go:359`), so `"(a)"` is sent with an AND that has one operand, and `(a "b)"` passes; every operator is written with
the code of AND (`proto/search.go:163`), and the command line hands over only the first word of
a query (`main.go:37`, `session.go:189`).

## 7. Plan

1. Done: PiecePicker, PickerUse and BlockPool; Download and DurablePool; Region, PendingBlock, ReceivingPiece and
   PieceReceipt; BitField and ResumeFile; Search; Policy and Session; ServerLink; the proofs
   of section 4.
2. Next to model: incoming connections in Download and Session (accept, register, the peer that
   is missing); the commands `load` and a hash added twice; requests for sources, which
   join Session and ServerLink; PacketCombiner and the tags.
3. An abstract specification worth stating: of the set of running connections, for Session.
4. Next to prove: that Session keeps that abstract specification, and the safety of what is modelled next.
