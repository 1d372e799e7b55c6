-------------------------- MODULE DownloadProofs --------------------------
(***************************************************************************)
(* The safety of a download, for every file, every set of peers and every  *)
(* number of faults: what the resume data claims is on the disk and never  *)
(* shrinks, no block is given out twice, and the assertions of the code    *)
(* on blocks that arrive hold.                                             *)
(*                                                                         *)
(* None of these is inductive.  IInv adds to them how the picker, the      *)
(* ReceivingPieces, the blocks under way, the file and the saved records   *)
(* fit together at each point of the transfer goroutine.                   *)
(***************************************************************************)
EXTENDS Download, PiecePickerProofs, SequenceTheorems

\* A block nobody asked for has no downloader.
Unasked == \A b \in Block \ requested : downloaders[b] = 0

\* The piece between its two SetHave has left the picker; its ReceivingPiece is there.
Left == IF tpc \in {"complete", "panicked"} THEN {current} ELSE {}

\* A ReceivingPiece belongs to a downloading piece, and without an error of a file
\* operation its blocks are finished.
Received ==
  /\ incoming \subseteq InProgress \cup Left
  /\ \A b \in received : b \in FileBlocks /\ b[1] \in incoming
  /\ ~lastError => \A b \in received : b[1] \in InProgress => b \in finished

\* The block in hand, between its arrival and the end of its handler.
AtCheck ==
  /\ tpc \in {"save", "verify"} => current \in InProgress /\ InPiece(received, current) # {}
  /\ tpc = "verify" => Cardinality(InPiece(received, current)) = BlocksInPiece(current)
  /\ tpc = "complete" => current \notin InProgress

\* What somebody still owes: a block of the file that, while its piece is downloading,
\* is requested and missing, counted once and owed once.
UnderWay(b) == Owners(b) # {} \/ Waiting(b) # {}
Single(b) ==
  /\ \A c, d \in Owners(b) : c = d
  /\ \A i, j \in Waiting(b) : i = j
  /\ Owners(b) = {} \/ Waiting(b) = {}
Counted(b) == Single(b) /\ b \in requested /\ b \notin finished /\ downloaders[b] = 1
Owing ==
  Alive => \A b \in Block : UnderWay(b) =>
    /\ b \in FileBlocks
    /\ b[1] \in pieces \/ (tpc = "complete" /\ b[1] = current)
    /\ b[1] \in InProgress => Counted(b)
OnlyLeavingAbort == \A c \in Peer : cpc[c] # "leaving" => toAbort[c] = {}

\* Unless a peer strayed, blocks are only asked for, and come, after a hash set that
\* has the hash of every piece.
NeedsHashSet ==
  \/ \E c \in Peer : \/ cpc[c] \in {"upload", "offerReady", "offerBlock", "parts"}
                     \/ held[c] # {}
  \/ dataChan # <<>>
  \/ tpc \in {"assign", "save", "verify"}
HashSetIsThere ==
  ~strayed => /\ \A c \in Peer : cpc[c] # "offerShort"
              /\ NeedsHashSet => hashSet = NumPieces

\* What a connection is about to send to the transfer is a block that it holds.
InHand == \A c \in Peer : /\ cpc[c] # "offerBlock" => sending[c] = {}
                          /\ \A x \in sending[c] : x.block \in held[c]

\* The file holds what is finished, with right data when it arrived right, and
\* right data in every piece that was verified.
Written == \A b \in finished : disk[b] # "none" /\ (b \in received \ wrong => disk[b] = "good")
VerifiedOnDisk == \A p \in pieces \ InProgress : \A b \in RealBlocks(p) : disk[b] = "good"

OnDisk(rec) ==
  /\ \A b \in Claims(rec) : disk[b] # "none"
  /\ \A p \in Verified(rec) : \A b \in RealBlocks(p) : disk[b] = "good"

\* The same for a saved record, from which the picker can be restored.
SoundRecord(rec) ==
  /\ Restorable(rec.pieces, rec.blocks, rec.size)
  /\ OnDisk(rec)
  /\ Verified(rec) \subseteq pieces \ InProgress
SavedIsSound == \A rec \in {resume, saving} : rec # NoRecord => SoundRecord(rec)

\* What the picker has, and what the resume file says it has: only a piece whose
\* data is wrong is lost, and then the process ends.
Have == finished \cup {b \in FileBlocks : b[1] \in pieces \ InProgress}
Spoilt(p) == \E other \in RealBlocks(p) : other \in wrong
KeptBy(claims) == \A b \in Claims(resume) \ claims : Failing /\ Spoilt(b[1])
Progress ==
  /\ resume # NoRecord => KeptBy(Have)
  /\ resume # NoRecord /\ saving # NoRecord => KeptBy(Claims(saving))
  /\ saving # NoRecord => Claims(saving) \subseteq Have
  /\ unsaved => saving = NoRecord
  /\ ~unsaved => saving # NoRecord \/ resume # NoRecord
  /\ ~unsaved /\ tpc \notin {"save", "panicked"} =>
       Have \subseteq Claims(IF saving # NoRecord THEN saving ELSE resume)
  /\ tpc = "exited" => saving = NoRecord

IInv ==
  /\ TypeOK /\ PickerInv /\ Unasked
  /\ Received /\ AtCheck /\ Owing /\ OnlyLeavingAbort /\ HashSetIsThere /\ InHand
  /\ Written /\ VerifiedOnDisk /\ SavedIsSound /\ Progress
  /\ ArrivalAssertionsHold

LEMMA IInvParts ==
  ASSUME IInv
  PROVE  /\ TypeOK /\ PickerInv /\ Unasked
         /\ Received /\ AtCheck /\ Owing /\ OnlyLeavingAbort /\ HashSetIsThere /\ InHand
         /\ Written /\ VerifiedOnDisk /\ SavedIsSound /\ Progress
         /\ ArrivalAssertionsHold
BY DEF IInv

----------------------------------------------------------------------------
(* What a step leaves alone.                                                *)

\* The picker, the ReceivingPieces, the file and the saved records.
Content == <<pickerVars, current, incoming, received, wrong, lastError, resume, saving,
             unsaved, disk>>

\* The transfer is at the same point, or moved between those where it has nothing in hand.
SamePoint == tpc' = tpc \/ {tpc, tpc'} \subseteq {"loop", "assign", "report"}
Quiet == SamePoint /\ UNCHANGED Content
Panics == tpc # "loop" /\ Alive /\ tpc' = "panicked" /\ UNCHANGED Content

LEMMA StepKinds ==
  ASSUME [Next]_vars
  PROVE  \/ Quiet \/ Panics
         \/ SendResumeData \/ VerifyPiece \/ CompletePiece \/ TransferExit
         \/ \E c \in Peer : AssignBlocks(c)
         \/ TakeBlock \/ TakeBlockWriteFails
         \/ \E c \in Peer, b \in Block : TakeAbort(c, b)
         \/ SaveResumeData \/ SaveFails \/ Crash \/ Restart
<1> USE DEF Content, SamePoint, Alive, Ended
<1>1. CASE UNCHANGED vars
  BY <1>1 DEF Quiet, vars, transferVars, durableVars, sessionVars
<1>2. CASE TransferStep
  <2>1. VerifyPanics => Panics
    BY DEF VerifyPanics, PanicWith, Panics, sessionVars, durableVars
  <2>2. CompletePanics => Panics
    BY DEF CompletePanics, PanicWith, Panics, sessionVars, durableVars
  <2>3. ASSUME NEW c \in Peer, AssignPanics(c) PROVE Panics
    BY <2>3 DEF AssignPanics, PanicWith, Panics, sessionVars, durableVars
  <2>4. ASSUME NEW c \in Peer, RefusePeer(c) PROVE Quiet
    BY <2>4 DEF RefusePeer, Quiet, sessionVars, durableVars
  <2>5. ReportError => Quiet
    BY DEF ReportError, Quiet, sessionVars, durableVars
  <2> QED
    BY <1>2, <2>1, <2>2, <2>3, <2>4, <2>5 DEF TransferStep
<1>3. CASE TransferReceive
  <2>1. ASSUME NEW c \in Peer, TakeHashSet(c) \/ TakeReady(c) PROVE Quiet
    BY <2>1 DEF TakeHashSet, TakeReady, Quiet, sessionVars, durableVars
  <2> QED
    BY <1>3, <2>1 DEF TransferReceive
<1>4. ASSUME NEW c \in Peer, Connect(c) \/ LocalStep(c) \/ RunClose(c) \/ RemoteStep(c) \/ Drop(c)
      PROVE  Quiet
  <2> USE DEF Quiet, ConnStep, Answer, Stray, transferVars, sessionVars, durableVars
  <2>1. Connect(c) \/ Register(c) => Quiet
    BY DEF Connect, Register
  <2>2. ReadClosed(c) \/ Drop(c) => Quiet
    BY DEF ReadClosed, Drop, Leave
  <2>3. Unregister(c) \/ RunClose(c) \/ HandOver(c) => Quiet
    BY DEF Unregister, RunClose, HandOver
  <2>4. HelloAnswer(c) \/ ReqFilenameAnswer(c) \/ FileStatus(c) => Quiet
    BY DEF HelloAnswer, ReqFilenameAnswer, FileStatus
  <2>5. HashSetAnswer(c) \/ AcceptUploadReq(c) => Quiet
    BY DEF HashSetAnswer, AcceptUploadReq
  <2>6. ASSUME NEW b \in Block, SendingPart(c, b, TRUE) PROVE Quiet
    BY <2>6 DEF SendingPart
  <2> QED
    BY <1>4, <2>1, <2>2, <2>3, <2>4, <2>5, <2>6 DEF LocalStep, RemoteStep
<1>5. ASSUME NEW c \in Peer, NEW b \in Block, SendingPart(c, b, FALSE) PROVE Quiet
  BY <1>5 DEF SendingPart, Quiet, transferVars, sessionVars, durableVars
<1>6. StopCommand => Quiet
  BY DEF StopCommand, Quiet, transferVars, sessionVars, durableVars
<1>7. WaitForCommand => Quiet
  BY DEF WaitForCommand, Quiet, vars, transferVars, sessionVars, durableVars
<1> QED
  BY <1>1, <1>2, <1>3, <1>4, <1>5, <1>6, <1>7 DEF Next

\* What depends on the picker alone.
LEMMA PickerSame ==
  ASSUME UNCHANGED pickerVars
  PROVE  /\ InProgress' = InProgress /\ Record' = Record
         /\ PickerInv => PickerInv' 
         /\ Unasked => Unasked' 
         /\ Have' = Have
<1>1. InProgress' = InProgress
  BY DEF pickerVars, InProgress
<1>2. Record' = Record
  BY <1>1 DEF pickerVars, Record, DownloadedBlocks, BlocksOf
<1>3. PickerInv => PickerInv'
  BY <1>1 DEF pickerVars, PickerInv, PickerTypeOK, Listed, MarksFit, Sized, RealCount
<1>4. Have' = Have
  BY <1>1 DEF pickerVars, Have, FileBlocks, RealBlocks
<1> QED
  BY <1>1, <1>2, <1>3, <1>4 DEF pickerVars, Unasked

LEMMA BlocksOfPieces ==
  ASSUME NEW P \in SUBSET Piece
  PROVE  UNION {RealBlocks(p) : p \in P} = {b \in FileBlocks : b[1] \in P}
<1>1. \A p \in Piece : RealBlocks(p) = {b \in Block : b[1] = p /\ b[2] < RealCount(p)}
  BY RealBlocksAre
<1>2. FileBlocks = {b \in Block : b[2] < RealCount(b[1])}
  BY FileBlocksAre
<1> QED
  BY <1>1, <1>2

\* What the picker's record claims, and that it can be restored.
LEMMA RecordIs ==
  ASSUME PickerInv
  PROVE  /\ Claims(Record) = Have
         /\ Verified(Record) = pieces \ InProgress
         /\ Restorable(Record.pieces, Record.blocks, Record.size)
         /\ Record \in Records
<1>1. PickerTypeOK /\ Listed /\ MarksFit /\ Sized
  BY DEF PickerInv
<1>2. /\ Record.pieces = pieces
      /\ Record.blocks = [p \in InProgress |-> finished \cap BlocksOf(p)]
      /\ Record.size = [p \in InProgress |-> size[p]]
  BY DEF Record, DownloadedBlocks
<1>3. InProgress \subseteq pieces /\ pieces \subseteq Piece
  BY <1>1 DEF Listed, PickerTypeOK
<1>4. Verified(Record) = pieces \ InProgress
  BY <1>2 DEF Verified
<1>5. \A b \in finished : b \in Block /\ b[1] \in InProgress /\ b \in BlocksOf(b[1])
  BY <1>1 DEF MarksFit, PickerTypeOK, BlocksOf
<1>6. finished = UNION {Record.blocks[p] : p \in DOMAIN Record.blocks}
  BY <1>2, <1>5
<1>7. UNION {RealBlocks(p) : p \in pieces \ InProgress} = {b \in FileBlocks : b[1] \in pieces \ InProgress}
  BY <1>3, BlocksOfPieces
<1>8. Claims(Record) = Have
  BY <1>4, <1>6, <1>7 DEF Claims, Have
<1>9. Restorable(Record.pieces, Record.blocks, Record.size)
  BY <1>1, <1>2, <1>3 DEF Restorable, Sized, BlocksOf
<1>10. Record \in Records
  <2>1. \A p \in InProgress : size[p] \in 0..BlocksPerPiece
    BY <1>1, <1>3 DEF PickerTypeOK
  <2>2. Record \in [pieces : SUBSET Piece, blocks : [InProgress -> SUBSET Block],
                    size : [InProgress -> 0..BlocksPerPiece]]
    BY <1>3, <2>1 DEF Record, DownloadedBlocks, BlocksOf
  <2> QED
    BY <1>3, <2>2 DEF Records, RecordsOf
<1> QED
  BY <1>4, <1>8, <1>9, <1>10

LEMMA NoRecordIsNone == NoRecord \notin Records
  BY DownloadAssumption DEF Records

LEMMA EmptyRecordIs ==
  EmptyRecord \in Records /\ EmptyRecord # NoRecord /\ Claims(EmptyRecord) = {}
<1>1. {} \in SUBSET Piece
  OBVIOUS
<1>2. EmptyRecord \in [pieces : SUBSET Piece, blocks : [{} -> SUBSET Block],
                       size : [{} -> 0..BlocksPerPiece]]
  BY DEF EmptyRecord
<1>3. EmptyRecord \in Records
  BY <1>1, <1>2 DEF Records, RecordsOf
<1> QED
  BY <1>3, NoRecordIsNone DEF EmptyRecord, Claims, Verified

LEMMA NextRecordIs ==
  PickerInv' => /\ Claims(Record)' = Have'
                /\ Verified(Record)' = pieces' \ InProgress'
                /\ Restorable(Record'.pieces, Record'.blocks, Record'.size)
                /\ Record' \in Records
<1>1. PickerInv => /\ Claims(Record) = Have
                   /\ Verified(Record) = pieces \ InProgress
                   /\ Restorable(Record.pieces, Record.blocks, Record.size)
                   /\ Record \in Records
  BY RecordIs
<1>2. PickerInv' => (/\ Claims(Record) = Have
                     /\ Verified(Record) = pieces \ InProgress
                     /\ Restorable(Record.pieces, Record.blocks, Record.size)
                     /\ Record \in Records)'
  BY <1>1, PTL
<1> QED
  BY <1>2 DEF Records, RecordsOf, Restorable, RealCount

----------------------------------------------------------------------------
(* What each handler of the transfer finds, and what it does.               *)

LEMMA InPieces ==
  ASSUME PickerInv
  PROVE  /\ InProgress \subseteq pieces /\ pieces \subseteq Piece
         /\ requested \subseteq Block /\ finished \subseteq requested
         /\ \A b \in requested : b[1] \in InProgress
         /\ finished \subseteq FileBlocks
<1>1. PickerTypeOK /\ Listed /\ MarksFit /\ Sized
  BY DEF PickerInv
<1>2. /\ InProgress \subseteq pieces /\ pieces \subseteq Piece
      /\ requested \subseteq Block /\ finished \subseteq requested
      /\ \A b \in requested : b[1] \in InProgress /\ b[2] < size[b[1]]
  BY <1>1 DEF Listed, PickerTypeOK, MarksFit
<1>3. ASSUME NEW b \in finished PROVE b \in FileBlocks
  <2>1. b \in Block /\ b[1] \in Piece /\ b[2] \in Nat /\ b[2] < size[b[1]]
    BY <1>2, BlockParts
  <2>2. size[b[1]] = RealCount(b[1])
    BY <1>1, <2>1 DEF Sized
  <2> QED
    BY <2>1, <2>2, FileBlocksAre
<1> QED
  BY <1>2, <1>3

LEMMA HeadAndTail ==
  ASSUME NEW S, NEW s \in Seq(S), s # <<>>
  PROVE  /\ 1 \in DOMAIN s /\ Head(s) = s[1] /\ Head(s) \in S
         /\ Tail(s) \in Seq(S) /\ Len(Tail(s)) = Len(s) - 1 /\ Len(s) \in Nat
         /\ DOMAIN Tail(s) = 1..(Len(s) - 1) /\ DOMAIN s = 1..Len(s)
         /\ \A i \in 1..(Len(s) - 1) : Tail(s)[i] = s[i + 1]
<1>1. Len(s) \in Nat /\ Len(s) # 0 /\ DOMAIN s = 1..Len(s)
  BY EmptySeq, LenProperties
<1> QED
  BY <1>1, HeadTailProperties, ElementOfSeq

\* The block at the head of dataChan was asked for, and is missing while its piece
\* is downloading.
LEMMA HeadIsOwed ==
  ASSUME IInv, tpc = "loop", dataChan # <<>>
  PROVE  LET b == Head(dataChan).block
         IN  /\ b \in FileBlocks /\ b \in Block
             /\ Head(dataChan).good \in BOOLEAN
             /\ 1 \in Waiting(b)
             /\ ~Stale(b) => b[1] \in InProgress
             /\ b[1] \in InProgress => Counted(b)
<1> DEFINE b == Head(dataChan).block
<1>1. /\ dataChan \in Seq([block : Block, good : BOOLEAN])
      /\ Owing /\ Received
  BY IInvParts DEF TypeOK
<1>2. /\ 1 \in DOMAIN dataChan /\ Head(dataChan) = dataChan[1]
      /\ Head(dataChan) \in [block : Block, good : BOOLEAN]
  BY <1>1, HeadAndTail
<1>3. b \in Block /\ 1 \in Waiting(b)
  BY <1>2 DEF Waiting
<1>4. incoming \subseteq InProgress
  BY <1>1 DEF Received, Left
<1> HIDE DEF b
<1>5. b \in FileBlocks /\ (b[1] \in InProgress => Counted(b))
  BY <1>1, <1>3 DEF Owing, UnderWay, Alive, Ended
<1> QED
  BY <1>2, <1>3, <1>4, <1>5 DEF b, Stale

\* TakeBlock: an awaited block goes into its ReceivingPiece, the file and the picker;
\* the assertion of FinishBlock holds.
LEMMA BlockIsTaken ==
  ASSUME IInv, TakeBlock, NEW b, b = Head(dataChan).block, ~Stale(b)
  PROVE  /\ b \in FileBlocks /\ b[1] \in InProgress /\ Counted(b) /\ b \notin received
         /\ received' = received \cup {b}
         /\ wrong' = IF Head(dataChan).good THEN wrong ELSE wrong \cup {b}
         /\ disk' = [disk EXCEPT ![b] = DataOf(Head(dataChan).good)]
         /\ tpc' = "save" /\ current' = b[1] /\ panic' = panic
         /\ finished' = finished \cup {b} /\ requested' = requested /\ pieces' = pieces
         /\ downloaders' = [downloaders EXCEPT ![b] = @ - 1]
         /\ PickerInv' /\ InProgress' = InProgress /\ Have' = Have \cup {b}
<1>1. /\ tpc = "loop" /\ dataChan # <<>>
      /\ InsertBlock(b, Head(dataChan).good)
      /\ disk' = [disk EXCEPT ![b] = DataOf(Head(dataChan).good)]
      /\ current' = b[1]
      /\ IF FinishPanics(b)
         THEN PanicWith("finish not requested block") /\ UNCHANGED pickerVars
         ELSE FinishBlock(b) /\ tpc' = "save" /\ UNCHANGED panic
  BY DEF TakeBlock
<1>2. /\ b \in FileBlocks /\ b \in Block /\ b[1] \in InProgress /\ Counted(b)
  BY <1>1, HeadIsOwed
<1>3. b \in requested /\ b \notin received
  BY <1>2 DEF Counted, Stale
<1>4. ~FinishPanics(b)
  BY <1>3 DEF FinishPanics
<1>5. FinishBlock(b) /\ tpc' = "save" /\ panic' = panic
  BY <1>1, <1>4
<1>6. /\ finished' = finished \cup {b} /\ requested' = requested /\ pieces' = pieces
      /\ downloaders' = [downloaders EXCEPT ![b] = @ - 1]
  BY <1>2, <1>5 DEF FinishBlock
<1>7. PickerInv' /\ InProgress' = InProgress
  BY <1>2, <1>4, <1>5, IInvParts, FinishKeepsPickerInv
<1>8. Have' = Have \cup {b}
  BY <1>6, <1>7 DEF Have, FileBlocks, RealBlocks
<1> QED
  BY <1>1, <1>2, <1>3, <1>5, <1>6, <1>7, <1>8 DEF InsertBlock

\* A stale block changes nothing but dataChan.
LEMMA StaleIsDropped ==
  ASSUME TakeBlock, Stale(Head(dataChan).block)
  PROVE  UNCHANGED <<pickerVars, tpc, current, received, wrong, panic, disk, incoming,
                     lastError, resume, saving, unsaved>>
BY DEF TakeBlock, sessionVars

\* When a piece is checked its ReceivingPiece is complete, so that all blocks of the
\* piece are finished unless a file operation failed.
LEMMA PieceIsThere ==
  ASSUME IInv, tpc = "verify"
  PROVE  /\ current \in InProgress /\ (~strayed => hashSet = NumPieces)
         /\ InPiece(received, current) = RealBlocks(current)
         /\ ~SetHavePanics(current) => RealBlocks(current) \subseteq finished
         /\ SetHavePanics(current) => lastError
         /\ current = NumPieces - 1 => blocksInLastPiece # 0
<1>1. /\ TypeOK /\ PickerInv /\ PickerTypeOK /\ Listed /\ Sized
      /\ Received /\ AtCheck /\ HashSetIsThere
  BY IInvParts DEF PickerInv
<1>2. /\ current \in InProgress /\ InPiece(received, current) # {}
      /\ ~strayed => hashSet = NumPieces
      /\ Cardinality(InPiece(received, current)) = BlocksInPiece(current)
  BY <1>1 DEF AtCheck, HashSetIsThere, NeedsHashSet
<1>3. current \in pieces /\ current \in Piece /\ received \subseteq Block
  BY <1>1, <1>2 DEF Listed, TypeOK
<1>4. /\ BlocksInPiece(current) = IF current = NumPieces - 1 THEN blocksInLastPiece
                                                             ELSE BlocksPerPiece
      /\ BlocksInPiece(current) # 0 => BlocksInPiece(current) = RealCount(current)
  BY <1>1, <1>3, CountIs
<1>5. /\ RealCount(current) \in 1..BlocksPerPiece /\ BlocksPerPiece \in Nat
      /\ RealBlocks(current) = {b \in Block : b[1] = current /\ b[2] < RealCount(current)}
  BY <1>3, RealBlocksAre, PickerAssumption
<1>6. BlocksInPiece(current) # 0
  <2>1. IsFiniteSet(InPiece(received, current))
    BY <1>3, BlockFinite, FS_Subset DEF InPiece
  <2> QED
    BY <1>2, <2>1, FS_EmptySet
<1>7. InPiece(received, current) = RealBlocks(current)
  <2>1. InPiece(received, current) \subseteq RealBlocks(current)
    BY <1>1, <1>3, <1>5, FileBlocksAre DEF Received, InPiece
  <2>2. RealCount(current) \in 0..BlocksPerPiece
    BY <1>5
  <2>3. Cardinality(InPiece(received, current)) = RealCount(current)
    BY <1>2, <1>4, <1>6
  <2> QED
    BY <1>3, <1>5, <2>1, <2>2, <2>3, AllBlocks
<1>8. size[current] = RealCount(current)
  BY <1>1, <1>2, <1>3, <1>4, <1>6 DEF Sized
<1>9. ~SetHavePanics(current) => RealBlocks(current) \subseteq finished
  <2>1. SUFFICES ASSUME ~SetHavePanics(current) PROVE RealBlocks(current) \subseteq finished
    OBVIOUS
  <2>2. NumHave(current) = size[current] /\ size[current] # 0
    BY <1>2, <1>5, <1>8, <2>1 DEF SetHavePanics
  <2> QED
    BY <1>1, <1>2, <2>2, FullHasAll
<1>10. ~lastError => ~SetHavePanics(current)
  <2>1. SUFFICES ASSUME ~lastError PROVE NumHave(current) = size[current]
    BY <1>3 DEF SetHavePanics
  <2>2. RealBlocks(current) \subseteq finished
    BY <1>1, <1>2, <1>7, <2>1 DEF Received, InPiece
  <2>3. {b \in BlocksOf(current) : b \in finished} = InPiece(received, current)
    BY <1>5, <1>7, <1>8, <2>2 DEF BlocksOf
  <2> QED
    BY <1>2, <1>4, <1>6, <1>8, <2>3 DEF NumHave
<1> QED
  BY <1>2, <1>4, <1>6, <1>7, <1>9, <1>10

\* VerifyPiece: the piece leaves the picker, with its bit when its hash is right.
LEMMA PieceIsVerified ==
  ASSUME IInv, VerifyPiece
  PROVE  /\ PickerInv' /\ tpc = "verify" /\ tpc' = "complete" /\ current' = current
         /\ current \in InProgress /\ InProgress' = InProgress \ {current}
         /\ requested' = {b \in requested : b[1] # current}
         /\ finished' = {b \in finished : b[1] # current}
         /\ downloaders' = [b \in Block |-> IF b[1] = current THEN 0 ELSE downloaders[b]]
         /\ \/ /\ pieces' = pieces
               /\ InPiece(wrong, current) = {}
               /\ RealBlocks(current) \subseteq finished
               /\ RealBlocks(current) \subseteq received
            \/ pieces' = pieces \ {current} /\ InPiece(wrong, current) # {}
<1>1. tpc = "verify"
  BY DEF VerifyPiece
<1>2. /\ current \in InProgress
      /\ InPiece(received, current) = RealBlocks(current)
      /\ ~SetHavePanics(current) => RealBlocks(current) \subseteq finished
  BY <1>1, PieceIsThere
<1>3. \/ HashMatches(current) /\ Forget(current) /\ UNCHANGED pieces /\ ~SetHavePanics(current)
      \/ ~HashMatches(current) /\ Forget(current) /\ pieces' = pieces \ {current}
  BY <1>2 DEF VerifyPiece, SetHave, RemoveDownloadingPiece
<1>4. Forget(current) /\ (UNCHANGED pieces \/ pieces' = pieces \ {current})
  BY <1>3
<1>5. PickerInv' /\ InProgress' = InProgress \ {current}
  BY <1>2, <1>4, IInvParts, ForgetKeepsPickerInv
<1>6. /\ requested' = {b \in requested : b[1] # current}
      /\ finished' = {b \in finished : b[1] # current}
      /\ downloaders' = [b \in Block |-> IF b[1] = current THEN 0 ELSE downloaders[b]]
  BY <1>4 DEF Forget
<1>7. tpc' = "complete" /\ current' = current
  BY DEF VerifyPiece
<1>8. RealBlocks(current) \subseteq received
  BY <1>2 DEF InPiece
<1> QED
  BY <1>1, <1>2, <1>3, <1>5, <1>6, <1>7, <1>8 DEF HashMatches

\* CompletePiece: the second SetHave finds the bit, and the piece gone.
LEMMA PieceIsComplete ==
  ASSUME IInv, CompletePiece
  PROVE  /\ UNCHANGED pickerVars
         /\ tpc = "complete" /\ tpc' = "loop"
         /\ current \in pieces /\ current \notin InProgress
<1>1. tpc = "complete" /\ tpc' = "loop" /\ current \notin InProgress
  BY IInvParts DEF CompletePiece, AtCheck
<1> QED
  BY <1>1 DEF CompletePiece, SetHave, SetHavePanics

\* AssignBlocks: all peers are slow, so what is given out is requested by nobody, and
\* under way nowhere.
LEMMA BlocksAreAssigned ==
  ASSUME IInv, NEW c \in Peer, AssignBlocks(c)
  PROVE  LET picked == Picked(RequestSize, c)
             chosen == Chosen(RequestSize, c)
         IN  /\ tpc = "assign" /\ tpc' = "loop"
             /\ PickerInv' /\ Have' = Have
             /\ chosen \subseteq Piece \ pieces
             /\ pieces' = pieces \cup chosen /\ InProgress' = InProgress \cup chosen
             /\ finished' = finished
             /\ requested' = requested \cup picked
             /\ downloaders' = [b \in Block |-> IF b \in picked THEN downloaders[b] + 1
                                                                ELSE downloaders[b]]
             /\ \A b \in picked : /\ b \in FileBlocks /\ b \in Block /\ b[1] \in InProgress'
                                  /\ b \notin requested /\ b \notin finished
                                  /\ ~UnderWay(b) /\ downloaders[b] = 0
             /\ held' = [held EXCEPT ![c] = @ \cup picked]
             /\ incoming' = incoming \cup {b[1] : b \in picked}
<1> DEFINE picked == Picked(RequestSize, c)
           chosen == Chosen(RequestSize, c)
<1>1. /\ PickPieces(RequestSize, c) /\ tpc = "assign" /\ tpc' = "loop"
      /\ held' = [held EXCEPT ![c] = @ \cup picked]
      /\ incoming' = incoming \cup {b[1] : b \in picked}
  BY DEF AssignBlocks
<1>2. /\ PickerInv /\ PickerTypeOK /\ Listed /\ Owing /\ Unasked
      /\ finished \subseteq requested
      /\ \A b \in requested : b[1] \in InProgress
      /\ InProgress \subseteq pieces
  BY IInvParts, InPieces DEF PickerInv
<1>3. RequestSize \in Nat /\ Speed[c] = Slow
  BY DownloadAssumption
<1>4. PickerInv' /\ picked \subseteq FileBlocks /\ \A b \in picked : b[1] \in InProgress'
  BY <1>1, <1>2, <1>3, PickKeepsPickerInv
<1>5. /\ picked \subseteq Block /\ chosen \subseteq Piece \ pieces
      /\ \A b \in picked : b \in FreeBlocks \/ b[1] \in chosen
      /\ InProgress' = InProgress \cup chosen
  BY <1>1, <1>2, <1>3, PickFacts
<1>6. /\ pieces' = pieces \cup chosen /\ finished' = finished
      /\ requested' = requested \cup picked
      /\ downloaders' = [b \in Block |-> IF b \in picked THEN downloaders[b] + 1
                                                         ELSE downloaders[b]]
  BY <1>1 DEF PickPieces
<1>7. FileBlocks' = FileBlocks
  BY DEF FileBlocks, RealBlocks
<1> HIDE DEF picked, chosen
<1>8. Have' = Have
  BY <1>2, <1>5, <1>6, <1>7 DEF Have
<1>9. ASSUME NEW b \in picked
      PROVE  /\ b \in Block /\ b \notin requested /\ b \notin finished
             /\ ~UnderWay(b) /\ downloaders[b] = 0
  <2>1. b \in Block
    BY <1>5
  <2>2. CASE b \in FreeBlocks
    <3>1. b \notin requested /\ b[1] \in InProgress
      BY <2>2 DEF FreeBlocks
    <3> QED
      BY <1>1, <1>2, <2>1, <3>1 DEF Owing, Counted, Unasked, Alive, Ended
  <2>3. CASE b[1] \in chosen
    <3>1. b[1] \notin pieces /\ b[1] \notin InProgress
      BY <1>2, <1>5, <2>3
    <3>2. b \notin requested
      BY <1>2, <3>1
    <3> QED
      BY <1>1, <1>2, <2>1, <3>1, <3>2 DEF Owing, Unasked, Alive, Ended
  <2> QED
    BY <1>5, <2>2, <2>3
<1> QED
  BY <1>1, <1>4, <1>5, <1>6, <1>8, <1>9 DEF picked, chosen

\* TakeAbort: what a connection returns was owed by it alone.
LEMMA BlockIsReturned ==
  ASSUME IInv, NEW c \in Peer, NEW b \in Block, TakeAbort(c, b)
  PROVE  /\ PickerInv' /\ InProgress' = InProgress /\ Have' = Have
         /\ pieces' = pieces /\ finished' = finished
         /\ c \in Owners(b) /\ (b[1] \in InProgress => Counted(b))
         /\ IF b[1] \in InProgress
            THEN /\ downloaders' = [downloaders EXCEPT ![b] = 0]
                 /\ requested' = requested \ {b}
            ELSE downloaders' = downloaders /\ requested' = requested
<1>1. tpc = "loop" /\ cpc[c] = "leaving" /\ b \in toAbort[c] /\ AbortBlock(b, c)
  BY DEF TakeAbort
<1>2. c \in Owners(b)
  BY <1>1 DEF Owners
<1>3. b[1] \in InProgress => Counted(b)
  BY <1>1, <1>2, IInvParts DEF Owing, UnderWay, Alive, Ended
<1>4. PickerInv' /\ InProgress' = InProgress
  BY <1>1, IInvParts, AbortKeepsPickerInv
<1>5. pieces' = pieces /\ finished' = finished
  BY <1>1 DEF AbortBlock, pickerVars
<1>6. Have' = Have
  BY <1>4, <1>5 DEF Have, FileBlocks, RealBlocks
<1>7. CASE b[1] \in InProgress
  <2>1. downloaders[b] = 1 /\ b \notin finished /\ downloaders \in [Block -> Int]
    BY <1>3, <1>7, IInvParts DEF Counted, PickerInv, PickerTypeOK
  <2>2. /\ downloaders' = [downloaders EXCEPT ![b] = @ - 1]
        /\ requested' = IF downloaders[b] = 1 THEN requested \ {b} ELSE requested
    BY <1>1, <1>7, <2>1 DEF AbortBlock
  <2> QED
    BY <1>2, <1>3, <1>4, <1>5, <1>6, <1>7, <2>1, <2>2
<1>8. CASE b[1] \notin InProgress
  <2>1. downloaders' = downloaders /\ requested' = requested
    BY <1>1, <1>8 DEF AbortBlock, pickerVars
  <2> QED
    BY <1>2, <1>3, <1>4, <1>5, <1>6, <1>8, <2>1
<1> QED
  BY <1>7, <1>8

\* Restart and Crash: nothing is under way, and the picker is that of the resume file,
\* or a new one.
LEMMA ProcessStarts ==
  ASSUME IInv, Crash \/ Restart
  PROVE  /\ NewProcess /\ tpc' = "loop" /\ disk' = disk
         /\ PickerInv' /\ Unasked'
         /\ incoming' = InProgress' /\ received' \subseteq finished'
         /\ requested' = finished'
         /\ finished' \subseteq FileBlocks /\ \A b \in finished' : b[1] \in InProgress'
         /\ wrong' = {b \in received' : disk[b] # "good"}
         /\ lastError' \in BOOLEAN /\ announced' \in BOOLEAN
         /\ \/ /\ resume' = NoRecord /\ resume = NoRecord /\ saving' = EmptyRecord
               /\ finished' = {} /\ pieces' = {} /\ InProgress' = {} /\ Have' = {}
            \/ /\ resume' # NoRecord /\ saving' = NoRecord /\ resume' \in Records
               /\ resume' = resume \/ (saving # NoRecord /\ resume' = saving)
               /\ SoundRecord(resume') /\ Have' = Claims(resume')
               /\ finished' \subseteq Claims(resume')
               /\ pieces' \ InProgress' = Verified(resume')
<1> DEFINE rec == resume'
<1>1. PICK spent \in {0, 1} : rec \in Leftover /\ Start(rec, spent) /\ disk' = disk
  BY DEF Crash, Restart
<1>2. NewProcess
  BY <1>1 DEF Start
<1>3. FileBlocks' = FileBlocks
  BY DEF FileBlocks, RealBlocks
<1>4. rec = resume \/ (saving # NoRecord /\ rec = saving)
  BY <1>1 DEF Leftover
<1>5. rec # NoRecord => SoundRecord(rec) /\ rec \in Records
  BY <1>4, IInvParts DEF SavedIsSound, TypeOK
<1> DEFINE B == rec.blocks
           P == rec.pieces
           saved == UNION {B[p] : p \in DOMAIN B}
<1>6. rec # NoRecord => Restorable(P, B, rec.size) /\ Verified(rec) = P \ DOMAIN B
                          /\ Claims(rec) = saved \cup (UNION {RealBlocks(p) : p \in Verified(rec)})
  BY <1>5 DEF SoundRecord, Verified, Claims
<1>7. rec # NoRecord => Claims(rec) = saved \cup {b \in FileBlocks : b[1] \in P \ DOMAIN B}
  <2>1. rec # NoRecord => P \ DOMAIN B \in SUBSET Piece
    BY <1>6 DEF Restorable
  <2> HIDE DEF P, B, saved
  <2> QED
    BY <2>1, <1>6, BlocksOfPieces
<1>8. CASE rec # NoRecord /\ StartRestored(rec, spent)
  <2>1. FromResumeData(P, B, rec.size)
    BY <1>8 DEF StartRestored
  <2>2. /\ PickerInv' /\ InProgress' = DOMAIN B /\ pieces' = P
        /\ requested' = finished' /\ finished' \subseteq FileBlocks
    BY <1>6, <1>8, <2>1, RestoreMakesPickerInv
  <2>10. \A b \in finished' : b[1] \in InProgress'
    BY <2>2 DEF PickerInv, MarksFit
  <2>3. finished' = saved /\ downloaders' = [b \in Block |-> 0]
    BY <2>1 DEF FromResumeData
  <2>4. Unasked'
    BY <2>3 DEF Unasked
  <2>5. PICK failed \in {{}} \cup {{b} : b \in saved} :
          received' = Restored(saved, failed) /\ lastError' = (failed # {})
    BY <1>8 DEF StartRestored
  <2>6. received' \subseteq finished' /\ lastError' \in BOOLEAN
    BY <2>3, <2>5 DEF Restored
  <2>7. /\ incoming' = DOMAIN B /\ wrong' = {b \in received' : disk[b] # "good"}
        /\ tpc' = "loop" /\ announced' = FALSE /\ saving' = NoRecord
    BY <1>8 DEF StartRestored
  <2>8. Have' = Claims(rec)
    BY <1>3, <1>7, <1>8, <2>2, <2>3 DEF Have
  <2>9. finished' \subseteq Claims(rec) /\ pieces' \ InProgress' = Verified(rec)
    BY <1>6, <1>8, <2>2, <2>3
  <2> HIDE DEF B, P, saved
  <2> QED
    BY <1>1, <1>2, <1>4, <1>5, <1>8, <2>2, <2>4, <2>6, <2>7, <2>8, <2>9, <2>10
<1>9. CASE (rec = NoRecord /\ StartNew) \/ (rec # NoRecord /\ StartFinished(rec))
  <2>0. NoBlocks
    BY <1>9 DEF StartNew, StartFinished
  <2>1. /\ downloading' = <<>> /\ size' = [p \in Piece |-> 0]
        /\ requested' = {} /\ finished' = {}
        /\ downloaders' = [b \in Block |-> 0] /\ lastDownloader' = [b \in Block |-> NoPeer]
        /\ incoming' = {} /\ received' = {} /\ wrong' = {}
        /\ lastError' = FALSE /\ tpc' = "loop"
    BY <2>0 DEF NoBlocks
  <2>2. InProgress' = {}
    BY <2>1 DEF InProgress
  <2>3. Unasked'
    BY <2>1 DEF Unasked
  <2>4. ASSUME pieces' \subseteq Piece, blocksInLastPiece' \in {0, LastPieceBlocks}
        PROVE  PickerInv'
    <3>1. PickerTypeOK'
      BY <2>1, <2>4, PickerAssumption DEF PickerTypeOK
    <3> QED
      BY <2>1, <2>2, <3>1 DEF PickerInv, Listed, MarksFit, Sized, RealCount
  <2>5. CASE rec = NoRecord /\ StartNew
    <3>1. pieces' = {} /\ blocksInLastPiece' = LastPieceBlocks /\ saving' = EmptyRecord
          /\ announced' = FALSE
      BY <2>5 DEF StartNew
    <3>2. PickerInv'
      BY <2>4, <3>1
    <3>3. Have' = {}
      BY <2>1, <3>1 DEF Have
    <3> QED
      BY <1>1, <1>2, <1>4, <2>1, <2>2, <2>3, <2>5, <3>1, <3>2, <3>3
  <2>6. CASE rec # NoRecord /\ StartFinished(rec)
    <3>1. /\ DOMAIN B = {} /\ P = Piece
          /\ pieces' = P /\ blocksInLastPiece' = 0
          /\ announced' = TRUE /\ saving' = NoRecord
      BY <2>6 DEF StartFinished, WantMoreData
    <3>2. PickerInv'
      BY <2>4, <3>1
    <3> HIDE DEF P
    <3>3. saved = {}
      BY <3>1
    <3> HIDE DEF B, saved
    <3>4. Have' = Claims(rec)
      BY <1>3, <1>7, <2>1, <2>2, <2>6, <3>1, <3>3 DEF Have
    <3>5. pieces' \ InProgress' = Verified(rec)
      BY <1>6, <2>2, <2>6, <3>1
    <3> QED
      BY <1>1, <1>2, <1>4, <1>5, <2>1, <2>2, <2>3, <2>6, <3>1, <3>2, <3>4, <3>5
  <2> QED
    BY <1>9, <2>5, <2>6
<1> QED
  BY <1>1, <1>8, <1>9 DEF Start

----------------------------------------------------------------------------
(* Each part of IInv is kept by every step.                                 *)

\* The steps that leave the picker alone.
LEMMA PickerAlone ==
  ASSUME IInv, \/ Quiet \/ Panics \/ SendResumeData \/ CompletePiece \/ TransferExit
               \/ TakeBlockWriteFails \/ SaveResumeData \/ SaveFails
               \/ TakeBlock /\ Stale(Head(dataChan).block)
  PROVE  /\ UNCHANGED pickerVars /\ PickerInv' /\ Unasked'
         /\ InProgress' = InProgress /\ Record' = Record /\ Have' = Have
         /\ pieces' = pieces /\ requested' = requested /\ finished' = finished
         /\ downloaders' = downloaders
<1>1. UNCHANGED pickerVars
  <2>1. Quiet \/ Panics => UNCHANGED pickerVars
    BY DEF Quiet, Panics, Content
  <2>2. SendResumeData \/ TransferExit => UNCHANGED pickerVars
    BY DEF SendResumeData, TransferExit
  <2>3. TakeBlockWriteFails \/ SaveResumeData \/ SaveFails => UNCHANGED pickerVars
    BY DEF TakeBlockWriteFails, SaveResumeData, SaveFails
  <2> QED
    BY <2>1, <2>2, <2>3, PieceIsComplete, StaleIsDropped
<1>2. pieces' = pieces /\ requested' = requested /\ finished' = finished /\ downloaders' = downloaders
  BY <1>1 DEF pickerVars
<1> QED
  BY <1>1, <1>2, IInvParts, PickerSame

LEMMA PickerStep ==
  ASSUME IInv, [Next]_vars
  PROVE  PickerInv' /\ Unasked'
<1>1. PickerInv /\ Unasked /\ downloaders \in [Block -> Int]
  BY IInvParts DEF PickerInv, PickerTypeOK
<1>2. CASE VerifyPiece
  BY <1>1, <1>2, PieceIsVerified DEF Unasked
<1>3. ASSUME NEW c \in Peer, AssignBlocks(c) PROVE PickerInv' /\ Unasked'
  BY <1>1, <1>3, BlocksAreAssigned DEF Unasked
<1>4. CASE TakeBlock /\ ~Stale(Head(dataChan).block)
  BY <1>1, <1>4, BlockIsTaken DEF Unasked, Counted
<1>5. ASSUME NEW c \in Peer, NEW b \in Block, TakeAbort(c, b) PROVE PickerInv' /\ Unasked'
  BY <1>1, <1>5, BlockIsReturned DEF Unasked
<1> QED
  BY <1>2, <1>3, <1>4, <1>5, StepKinds, PickerAlone, ProcessStarts

LEMMA ReceivedStep ==
  ASSUME IInv, [Next]_vars
  PROVE  Received' /\ AtCheck'
<1> USE DEF Left, Alive, Ended
<1>1. /\ Received /\ AtCheck /\ PickerInv /\ current \in Piece /\ received \subseteq Block
      /\ FileBlocks' = FileBlocks
  BY IInvParts DEF TypeOK, FileBlocks, RealBlocks
<1>2. CASE Quiet \/ Panics
  <2>1. /\ InProgress' = InProgress /\ finished' = finished
        /\ UNCHANGED <<current, incoming, received, lastError, blocksInLastPiece>>
        /\ SamePoint \/ tpc' = "panicked"
        /\ tpc # "loop" \/ tpc' # "panicked"
    BY <1>2, PickerAlone DEF Quiet, Panics, Content, pickerVars, SamePoint
  <2> QED
    BY <1>1, <2>1 DEF Received, AtCheck, SamePoint, InPiece, BlocksInPiece
<1>3. CASE SendResumeData
  <2>1. /\ InProgress' = InProgress /\ finished' = finished
        /\ UNCHANGED <<incoming, received, lastError, blocksInLastPiece>>
        /\ tpc = "save"
        /\ \/ /\ tpc' = "verify" /\ current' = current
              /\ Cardinality(InPiece(received, current)) = BlocksInPiece(current)
           \/ tpc' = "loop"
    BY <1>3, PickerAlone DEF SendResumeData, pickerVars
  <2> QED
    BY <1>1, <2>1 DEF Received, AtCheck, InPiece, BlocksInPiece
<1>4. CASE VerifyPiece
  <2>1. UNCHANGED <<incoming, received, lastError>>
    BY <1>4 DEF VerifyPiece
  <2> QED
    BY <1>1, <1>4, <2>1, PieceIsVerified DEF Received, AtCheck
<1>5. CASE CompletePiece
  <2>1. /\ InProgress' = InProgress /\ finished' = finished
        /\ incoming' = incoming \ {current} /\ lastError' = lastError
        /\ received' = received \ InPiece(received, current)
        /\ tpc = "complete" /\ tpc' = "loop"
    BY <1>5, PickerAlone DEF CompletePiece
  <2> QED
    BY <1>1, <2>1 DEF Received, AtCheck, InPiece
<1>6. CASE TransferExit \/ SaveResumeData \/ SaveFails
  <2>1. /\ InProgress' = InProgress /\ finished' = finished
        /\ UNCHANGED <<incoming, received, lastError, current, blocksInLastPiece>>
        /\ tpc' = tpc \/ (tpc = "loop" /\ tpc' = "exited")
    BY <1>6, PickerAlone DEF TransferExit, SaveResumeData, SaveFails, transferVars, pickerVars
  <2> QED
    BY <1>1, <2>1 DEF Received, AtCheck, InPiece, BlocksInPiece
<1>7. ASSUME NEW c \in Peer, AssignBlocks(c) PROVE Received' /\ AtCheck'
  <2>1. UNCHANGED <<received, lastError>>
    BY <1>7 DEF AssignBlocks
  <2> QED
    BY <1>1, <1>7, <2>1, BlocksAreAssigned DEF Received, AtCheck
<1>8. CASE TakeBlock /\ Stale(Head(dataChan).block)
  <2>1. /\ InProgress' = InProgress /\ finished' = finished
        /\ UNCHANGED <<incoming, received, lastError, current, tpc>>
        /\ tpc = "loop"
    BY <1>8, StaleIsDropped, PickerAlone DEF TakeBlock
  <2> QED
    BY <1>1, <2>1 DEF Received, AtCheck
<1>9. CASE TakeBlock /\ ~Stale(Head(dataChan).block)
  <2> DEFINE b == Head(dataChan).block
  <2>1. UNCHANGED <<incoming, lastError>> /\ b[1] \in incoming /\ tpc = "loop"
    BY <1>9 DEF TakeBlock, Stale
  <2>2. /\ b \in FileBlocks /\ b[1] \in InProgress
        /\ received' = received \cup {b} /\ tpc' = "save" /\ current' = b[1]
        /\ finished' = finished \cup {b} /\ InProgress' = InProgress
    BY <1>9, BlockIsTaken
  <2> HIDE DEF b
  <2> QED
    BY <1>1, <2>1, <2>2 DEF Received, AtCheck, InPiece
<1>10. CASE TakeBlockWriteFails
  <2> DEFINE b == Head(dataChan).block
  <2>1. /\ InProgress' = InProgress /\ finished' = finished
        /\ UNCHANGED <<incoming, current>> /\ lastError' = TRUE
        /\ received' = received \cup {b} /\ b[1] \in incoming
        /\ tpc = "loop" /\ tpc' = "report"
    BY <1>10, PickerAlone DEF TakeBlockWriteFails, InsertBlock, Stale
  <2>2. b \in FileBlocks
    BY <1>10, HeadIsOwed DEF TakeBlockWriteFails
  <2> HIDE DEF b
  <2> QED
    BY <1>1, <2>1, <2>2 DEF Received, AtCheck
<1>11. ASSUME NEW c \in Peer, NEW b \in Block, TakeAbort(c, b) PROVE Received' /\ AtCheck'
  <2>1. UNCHANGED <<incoming, received, lastError, current, tpc>> /\ tpc = "loop"
    BY <1>11 DEF TakeAbort, transferVars
  <2> QED
    BY <1>1, <1>11, <2>1, BlockIsReturned DEF Received, AtCheck
<1>12. CASE Crash \/ Restart
  <2>1. /\ tpc' = "loop" /\ incoming' = InProgress' /\ received' \subseteq finished'
        /\ finished' \subseteq FileBlocks /\ \A b \in finished' : b[1] \in InProgress'
    BY <1>12, ProcessStarts
  <2> QED
    BY <1>1, <2>1 DEF Received, AtCheck
<1> QED
  BY <1>2, <1>3, <1>4, <1>5, <1>6, <1>7, <1>8, <1>9, <1>10, <1>11, <1>12, StepKinds

LEMMA NilIsNone == NilHashSet \in NilHashSet..NumPieces /\ NilHashSet < 0
  BY PickerAssumption DEF NilHashSet

LEMMA TypeStep ==
  ASSUME IInv, [Next]_vars
  PROVE  TypeOK'
<1> USE DEF Connected, Reading, Ended
<1>1. TypeOK /\ PickerTypeOK'
  BY PickerStep, IInvParts DEF PickerInv
<1>2. /\ PickerTypeOK'
      /\ tpc \in {"loop", "report", "save", "verify", "complete", "assign"} \cup Ended
      /\ current \in Piece /\ assignee \in Peer \cup {NoPeer}
      /\ dataChan \in Seq([block : Block, good : BOOLEAN]) /\ Len(dataChan) <= DataChanCap
      /\ incoming \subseteq Piece
      /\ wrong \subseteq received /\ received \subseteq Block
      /\ hashSet \in NilHashSet..NumPieces
      /\ lastError \in BOOLEAN /\ announced \in BOOLEAN
      /\ stopping \in BOOLEAN /\ strayed \in BOOLEAN /\ unsaved \in BOOLEAN
      /\ sending \in [Peer -> SUBSET [block : Block, good : BOOLEAN]]
      /\ cpc \in [Peer -> Connected \cup {"off", "dialing"}]
      /\ held \in [Peer -> SUBSET Block] /\ toAbort \in [Peer -> SUBSET Block]
      /\ closed \in [Peer -> BOOLEAN] /\ closing \subseteq Peer
      /\ disk \in [Block -> {"none", "good", "bad"}]
      /\ resume \in Records \cup {NoRecord} /\ saving \in Records \cup {NoRecord}
  BY <1>1 DEF TypeOK
<1>3. 0 \in Piece /\ NumPieces \in Nat \ {0}
  BY PickerAssumption DEF Piece
<1>4. CASE UNCHANGED vars
  BY <1>2, <1>4 DEF vars, transferVars, connVars, sessionVars, durableVars, TypeOK
<1>5. CASE VerifyPanics \/ CompletePanics \/ \E c \in Peer : AssignPanics(c)
  BY <1>2, <1>5 DEF VerifyPanics, CompletePanics, AssignPanics, PanicWith, connVars,
                    sessionVars, durableVars, TypeOK
<1>6. CASE SendResumeData
  <2>1. Record \in Records
    BY IInvParts, RecordIs
  <2> QED
    BY <1>2, <1>3, <1>6, <2>1 DEF SendResumeData, connVars, durableVars, TypeOK
<1>7. CASE VerifyPiece
  <2>1. Record' \in Records
    BY PickerStep, NextRecordIs
  <2> QED
    BY <1>2, <1>7, <2>1 DEF VerifyPiece, connVars, durableVars, TypeOK
<1>8. CASE CompletePiece
  <2>1. /\ incoming' \subseteq incoming
        /\ received' = received \ InPiece(received, current)
        /\ wrong' = wrong \ InPiece(wrong, current)
        /\ tpc' = "loop" /\ current' = 0
        /\ announced' \in BOOLEAN /\ closed' \in [Peer -> BOOLEAN]
        /\ UNCHANGED <<assignee, dataChan, hashSet, lastError, cpc, held, toAbort,
                       sending, strayed, sessionVars, durableVars>>
    BY <1>2, <1>8 DEF CompletePiece
  <2>2. wrong' \subseteq received' /\ received' \subseteq received
    BY <1>2, <2>1 DEF InPiece
  <2> QED
    BY <1>2, <1>3, <2>1, <2>2 DEF sessionVars, durableVars, TypeOK
<1>9. CASE TransferExit \/ SaveResumeData \/ SaveFails \/ ReportError
  <2>1. CASE TransferExit \/ ReportError
    BY <1>2, <2>1 DEF TransferExit, ReportError, connVars, sessionVars, durableVars, TypeOK
  <2>2. CASE SaveResumeData
    BY <1>2, <2>2 DEF SaveResumeData, transferVars, connVars, TypeOK
  <2>3. CASE SaveFails
    BY <1>2, <2>3 DEF SaveFails, transferVars, connVars, durableVars, TypeOK
  <2> QED
    BY <1>9, <2>1, <2>2, <2>3
<1>10. ASSUME NEW c \in Peer, AssignBlocks(c) PROVE TypeOK'
  <2> DEFINE picked == Picked(RequestSize, c)
  <2>1. /\ held' = [held EXCEPT ![c] = @ \cup picked]
        /\ incoming' = incoming \cup {b[1] : b \in picked}
        /\ picked \subseteq Block
    BY <1>10, BlocksAreAssigned
  <2>2. /\ closed' = [closed EXCEPT ![c] = @ \/ picked = {}]
        /\ tpc' = "loop" /\ assignee' = NoPeer
        /\ UNCHANGED <<current, dataChan, received, wrong, hashSet, lastError,
                 announced, panic, cpc, toAbort, sending, strayed, sessionVars, durableVars>>
    BY <1>10 DEF AssignBlocks
  <2> HIDE DEF picked
  <2>3. \A b \in picked : b[1] \in Piece
    BY <2>1, BlockParts
  <2>4. closed' \in [Peer -> BOOLEAN]
    BY <1>2, <2>2
  <2>5. held' \in [Peer -> SUBSET Block] /\ incoming' \subseteq Piece
    BY <1>2, <2>1, <2>3
  <2> QED
    BY <1>2, <2>2, <2>4, <2>5 DEF sessionVars, durableVars, TypeOK
<1>11. CASE TakeBlock \/ TakeBlockWriteFails
  <2> DEFINE b == Head(dataChan).block
             good == Head(dataChan).good
  <2>1. /\ dataChan # <<>> /\ dataChan' = Tail(dataChan) /\ tpc = "loop"
        /\ \/ received' = received /\ wrong' = wrong /\ current' = current /\ disk' = disk
           \/ InsertBlock(b, good) /\ current' \in {current, b[1]}
              /\ \E d \in {disk[b], "bad", DataOf(good)} : disk' = [disk EXCEPT ![b] = d]
        /\ tpc' \in {"loop", "report", "save", "panicked"}
        /\ lastError' \in {lastError, TRUE}
        /\ UNCHANGED <<assignee, incoming, hashSet, announced, connVars, sessionVars, resume>>
    BY <1>11 DEF TakeBlock, TakeBlockWriteFails, PanicWith, durableVars
  <2>2. /\ b \in Block /\ good \in BOOLEAN /\ b[1] \in Piece
    BY <2>1, HeadIsOwed, BlockParts
  <2>3. dataChan' \in Seq([block : Block, good : BOOLEAN]) /\ Len(dataChan') <= DataChanCap
    <3>1. DataChanCap \in Nat
      BY DownloadAssumption
    <3> QED
      BY <1>2, <2>1, <3>1, HeadAndTail
  <2> HIDE DEF b, good
  <2>4. received' \subseteq Block /\ wrong' \subseteq received'
    BY <1>2, <2>1, <2>2 DEF InsertBlock
  <2>5. current' \in Piece /\ disk' \in [Block -> {"none", "good", "bad"}]
    BY <1>2, <2>1, <2>2 DEF DataOf
  <2> QED
    BY <1>2, <2>1, <2>3, <2>4, <2>5 DEF connVars, sessionVars, TypeOK
<1>12. ASSUME NEW c \in Peer, TakeHashSet(c) \/ TakeReady(c) \/ RefusePeer(c) PROVE TypeOK'
  <2>1. CASE TakeHashSet(c)
    <3>1. hashSet' \in NilHashSet..NumPieces
      BY <1>3, <2>1 DEF TakeHashSet, NilHashSet
    <3> QED
      BY <1>2, <2>1, <3>1 DEF TakeHashSet, sessionVars, durableVars, TypeOK
  <2>2. CASE TakeReady(c)
    BY <1>2, <2>2 DEF TakeReady, sessionVars, durableVars, TypeOK
  <2>3. CASE RefusePeer(c)
    BY <1>2, <2>3 DEF RefusePeer, sessionVars, durableVars, TypeOK
  <2> QED
    BY <1>12, <2>1, <2>2, <2>3
<1>13. ASSUME NEW c \in Peer, NEW b \in Block, TakeAbort(c, b) PROVE TypeOK'
  BY <1>2, <1>13 DEF TakeAbort, transferVars, sessionVars, durableVars, TypeOK
<1>14. ASSUME NEW c \in Peer, NEW to \in Connected \cup {"off", "dialing"}, NEW from,
              ConnStep(c, from, to), strayed' \in BOOLEAN
       PROVE  TypeOK'
  BY <1>2, <1>14 DEF ConnStep, transferVars, sessionVars, durableVars, TypeOK
<1>15. ASSUME NEW c \in Peer, Connect(c) \/ Register(c) \/ HelloAnswer(c) \/ ReqFilenameAnswer(c)
                     \/ FileStatus(c) \/ HashSetAnswer(c) \/ AcceptUploadReq(c)
       PROVE  TypeOK'
  <2>1. ASSUME NEW from, NEW to \in Connected \cup {"off", "dialing"},
               Answer(c, from, to) \/ Stray(c, from, to)
        PROVE  TypeOK'
    BY <1>2, <1>14, <2>1 DEF Answer, Stray
  <2>2. CASE Connect(c) \/ Register(c)
    BY <1>2, <1>14, <2>2 DEF Connect, Register
  <2>3. CASE HelloAnswer(c) \/ ReqFilenameAnswer(c)
    BY <2>1, <2>3 DEF HelloAnswer, ReqFilenameAnswer
  <2>4. CASE FileStatus(c)
    BY <2>1, <2>4 DEF FileStatus
  <2>5. CASE HashSetAnswer(c) \/ AcceptUploadReq(c)
    BY <2>1, <2>5 DEF HashSetAnswer, AcceptUploadReq
  <2> QED
    BY <1>15, <2>2, <2>3, <2>4, <2>5
<1>16. ASSUME NEW c \in Peer, ReadClosed(c) \/ Drop(c) PROVE TypeOK'
  BY <1>2, <1>16 DEF ReadClosed, Drop, Leave, transferVars, durableVars, TypeOK
<1>17. ASSUME NEW c \in Peer, Unregister(c) \/ RunClose(c) PROVE TypeOK'
  BY <1>2, <1>17 DEF Unregister, RunClose, transferVars, sessionVars, durableVars, TypeOK
<1>18. ASSUME NEW c \in Peer, NEW b \in Block, NEW good \in BOOLEAN, SendingPart(c, b, good)
       PROVE  TypeOK'
  <2>1. sending' \in [Peer -> SUBSET [block : Block, good : BOOLEAN]]
    BY <1>2, <1>18 DEF SendingPart
  <2>2. cpc' \in [Peer -> {"off", "dialing"} \cup Connected]
    BY <1>2, <1>18 DEF SendingPart, Connected
  <2>3. UNCHANGED <<transferVars, held, toAbort, closed, strayed, sessionVars, durableVars>>
    BY <1>18 DEF SendingPart
  <2> QED
    BY <1>2, <2>1, <2>2, <2>3 DEF transferVars, sessionVars, durableVars, TypeOK
<1>22. ASSUME NEW c \in Peer, HandOver(c) PROVE TypeOK'
  <2>1. PICK x \in sending[c] : /\ dataChan' = Append(dataChan, x)
                                /\ held' = [held EXCEPT ![c] = @ \ {x.block}]
                                /\ cpc' = [cpc EXCEPT ![c] = AfterBlock(c, x.block)]
    BY <1>22 DEF HandOver
  <2>2. /\ Len(dataChan) < DataChanCap
        /\ sending' = [sending EXCEPT ![c] = {}]
        /\ UNCHANGED <<tpc, current, assignee, incoming, received, wrong, hashSet,
                 lastError, announced, toAbort, closed, strayed, sessionVars, durableVars>>
    BY <1>22 DEF HandOver
  <2>3. x \in [block : Block, good : BOOLEAN]
    BY <1>2
  <2>4. dataChan' \in Seq([block : Block, good : BOOLEAN]) /\ Len(dataChan') <= DataChanCap
    <3>1. DataChanCap \in Nat
      BY DownloadAssumption
    <3> QED
      BY <1>2, <2>1, <2>2, <2>3, <3>1, AppendProperties, LenProperties
  <2>5. cpc' \in [Peer -> Connected \cup {"off", "dialing"}]
    BY <1>2, <2>1 DEF AfterBlock
  <2>6. held' \in [Peer -> SUBSET Block]
    BY <1>2, <2>1
  <2>7. sending' \in [Peer -> SUBSET [block : Block, good : BOOLEAN]]
    BY <1>2, <2>2
  <2> QED
    BY <1>2, <2>2, <2>4, <2>5, <2>6, <2>7 DEF sessionVars, durableVars, TypeOK
<1>19. CASE StopCommand
  BY <1>2, <1>19 DEF StopCommand, transferVars, connVars, durableVars, TypeOK
<1>20. CASE WaitForCommand
  BY <1>2, <1>20 DEF WaitForCommand, vars, transferVars, connVars, sessionVars, durableVars, TypeOK
<1>21. CASE Crash \/ Restart
  <2>1. /\ NewProcess /\ tpc' = "loop" /\ disk' = disk
        /\ incoming' = InProgress' /\ received' \subseteq finished'
        /\ wrong' \subseteq received'
        /\ lastError' \in BOOLEAN /\ announced' \in BOOLEAN
        /\ finished' \subseteq FileBlocks /\ InProgress' \subseteq pieces'
        /\ resume' \in Records \cup {NoRecord}
        /\ saving' \in {EmptyRecord, NoRecord}
    BY <1>21, ProcessStarts DEF PickerInv, Listed
  <2>2. EmptyRecord \in Records
    BY EmptyRecordIs
  <2>3. received' \subseteq Block /\ incoming' \subseteq Piece
    BY <1>2, <2>1 DEF PickerTypeOK
  <2>4. /\ dataChan' \in Seq([block : Block, good : BOOLEAN]) /\ Len(dataChan') <= DataChanCap
    BY <2>1, EmptySeq, DownloadAssumption DEF NewProcess
  <2> QED
    BY <1>2, <1>3, <2>1, <2>2, <2>3, <2>4, NilIsNone DEF NewProcess, TypeOK
<1> QED
  BY <1>4, <1>5, <1>6, <1>7, <1>8, <1>9, <1>10, <1>11, <1>12, <1>13, <1>15, <1>16, <1>17, <1>18,
     <1>19, <1>20, <1>21, <1>22 DEF Next, TransferStep, TransferReceive, LocalStep, RemoteStep

LEMMA HashSetStep ==
  ASSUME IInv, [Next]_vars
  PROVE  HashSetIsThere'
<1> USE DEF Reading, Connected
<1>1. /\ HashSetIsThere /\ InHand
      /\ cpc \in [Peer -> Connected \cup {"off", "dialing"}]
      /\ held \in [Peer -> SUBSET Block]
  BY IInvParts DEF TypeOK
<1> DEFINE Fewer == /\ hashSet' = hashSet /\ (strayed' = strayed \/ strayed' = TRUE)
                    /\ \A c \in Peer : cpc'[c] = "offerShort" => cpc[c] = "offerShort" \/ strayed'
                    /\ NeedsHashSet' => NeedsHashSet \/ strayed'
<1>2. SUFFICES ASSUME ~Fewer PROVE HashSetIsThere'
  BY <1>1 DEF HashSetIsThere
<1>3. ~UNCHANGED vars
  BY <1>2 DEF NeedsHashSet, vars, transferVars, connVars
<1>4. ~TransferStep
  <2>1. /\ ~SendResumeData /\ ~VerifyPiece /\ ~TransferExit /\ ~VerifyPanics /\ ~CompletePanics
        /\ ~ReportError
    BY <1>2 DEF SendResumeData, VerifyPiece, TransferExit, VerifyPanics, CompletePanics, ReportError,
                PanicWith, NeedsHashSet, connVars
  <2>2. ~CompletePiece
    BY <1>2 DEF CompletePiece, NeedsHashSet
  <2>3. ASSUME NEW c \in Peer PROVE ~RefusePeer(c) /\ ~AssignBlocks(c) /\ ~AssignPanics(c)
    BY <1>2 DEF RefusePeer, AssignBlocks, AssignPanics, PanicWith, NeedsHashSet, connVars
  <2> QED
    BY <2>1, <2>2, <2>3 DEF TransferStep
<1>5. ~TakeBlock /\ ~TakeBlockWriteFails
  BY <1>2 DEF TakeBlock, TakeBlockWriteFails, NeedsHashSet, connVars
<1>6. ASSUME NEW c \in Peer, NEW b \in Block
      PROVE  ~TakeAbort(c, b) /\ ~SendingPart(c, b, TRUE) /\ ~SendingPart(c, b, FALSE)
  <2>1. ~TakeAbort(c, b)
    BY <1>2 DEF TakeAbort, NeedsHashSet, transferVars
  <2>2. ASSUME NEW good, SendingPart(c, b, good) PROVE FALSE
    BY <1>1, <1>2, <2>2 DEF SendingPart, NeedsHashSet, transferVars
  <2> QED
    BY <2>1, <2>2
<1>7. ASSUME NEW c \in Peer PROVE ~TakeReady(c) /\ (TakeHashSet(c) => HashSetIsThere')
  <2>1. ~TakeReady(c)
    BY <1>1, <1>2 DEF TakeReady, NeedsHashSet
  <2>2. ASSUME TakeHashSet(c) PROVE HashSetIsThere'
    <3>1. /\ strayed' = strayed /\ cpc' = [cpc EXCEPT ![c] = "upload"]
          /\ cpc[c] # "offerShort" => hashSet' = NumPieces
      BY <2>2 DEF TakeHashSet
    <3>2. \A d \in Peer : cpc'[d] = "offerShort" => cpc[d] = "offerShort"
      BY <1>1, <3>1
    <3> QED
      BY <1>1, <3>1, <3>2 DEF HashSetIsThere
  <2> QED
    BY <2>1, <2>2
<1>8. ASSUME NEW c \in Peer, NEW from, NEW to, ConnStep(c, from, to), strayed' = strayed,
             to # "offerShort",
             to \in {"upload", "offerReady", "offerBlock", "parts"} => from \in {"upload", "parts"}
      PROVE  FALSE
  BY <1>1, <1>2, <1>8 DEF ConnStep, NeedsHashSet, transferVars
<1>9. ASSUME NEW c \in Peer, NEW from, NEW to, Stray(c, from, to)
      PROVE  FALSE
  BY <1>2, <1>9 DEF Stray, ConnStep, transferVars
<1>10. ASSUME NEW c \in Peer
       PROVE  /\ ~Connect(c) /\ ~Register(c) /\ ~HelloAnswer(c) /\ ~ReqFilenameAnswer(c)
              /\ ~HashSetAnswer(c) /\ ~AcceptUploadReq(c) /\ ~FileStatus(c)
  <2>1. ~Connect(c) /\ ~Register(c)
    BY <1>8 DEF Connect, Register
  <2>2. ASSUME NEW from, NEW to, Answer(c, from, to), to # "offerShort",
               to \in {"upload", "offerReady", "offerBlock", "parts"} => from \in {"upload", "parts"}
        PROVE  FALSE
    BY <1>8, <2>2 DEF Answer
  <2>3. ~HelloAnswer(c) /\ ~ReqFilenameAnswer(c)
    BY <2>2 DEF HelloAnswer, ReqFilenameAnswer
  <2>4. ~FileStatus(c)
    BY <1>9, <2>2 DEF FileStatus
  <2>5. ~HashSetAnswer(c) /\ ~AcceptUploadReq(c)
    BY <1>9, <2>2 DEF HashSetAnswer, AcceptUploadReq
  <2> QED
    BY <2>1, <2>3, <2>4, <2>5
<1>11. ASSUME NEW c \in Peer
       PROVE  ~ReadClosed(c) /\ ~Drop(c) /\ ~Unregister(c) /\ ~RunClose(c) /\ ~HandOver(c)
  <2>1. ~Leave(c)
    BY <1>1, <1>2 DEF Leave, NeedsHashSet, transferVars
  <2>2. ~Unregister(c) /\ ~RunClose(c)
    BY <1>1, <1>2 DEF Unregister, RunClose, NeedsHashSet, transferVars
  <2>3. ASSUME HandOver(c) PROVE FALSE
    <3>1. /\ cpc[c] = "offerBlock" /\ UNCHANGED <<hashSet, strayed, tpc>>
          /\ \E to \in {"offerReady", "parts"} : cpc' = [cpc EXCEPT ![c] = to]
      BY <2>3 DEF HandOver, AfterBlock
    <3>2. NeedsHashSet
      BY <3>1 DEF NeedsHashSet
    <3> QED
      BY <1>1, <1>2, <3>1, <3>2
  <2> QED
    BY <2>1, <2>2, <2>3 DEF ReadClosed, Drop
<1>12. ~SaveResumeData /\ ~SaveFails /\ ~StopCommand /\ ~WaitForCommand
  BY <1>2 DEF SaveResumeData, SaveFails, StopCommand, WaitForCommand, NeedsHashSet, vars,
              transferVars, connVars
<1>13. Crash \/ Restart => HashSetIsThere'
  <2>1. Crash \/ Restart => NewProcess /\ tpc' = "loop"
    BY ProcessStarts
  <2> QED
    BY <2>1 DEF NewProcess, HashSetIsThere, NeedsHashSet
<1> QED
  BY <1>3, <1>4, <1>5, <1>6, <1>7, <1>10, <1>11, <1>12, <1>13
     DEF Next, TransferReceive, LocalStep, RemoteStep

LEMMA InHandStep ==
  ASSUME IInv, [Next]_vars
  PROVE  InHand'
<1> USE DEF Reading
<1>1. /\ InHand /\ cpc \in [Peer -> Connected \cup {"off", "dialing"}]
      /\ held \in [Peer -> SUBSET Block]
      /\ sending \in [Peer -> SUBSET [block : Block, good : BOOLEAN]]
  BY IInvParts DEF TypeOK
<1> DEFINE Same == /\ sending' = sending
                   /\ \A c \in Peer : cpc[c] = "offerBlock" =>
                        cpc'[c] = "offerBlock" /\ held[c] \subseteq held'[c]
<1>2. SUFFICES ASSUME ~Same PROVE InHand'
  BY <1>1 DEF InHand
<1>3. /\ ~UNCHANGED vars /\ ~SaveResumeData /\ ~SaveFails /\ ~StopCommand /\ ~WaitForCommand
  BY <1>2 DEF SaveResumeData, SaveFails, StopCommand, WaitForCommand, vars, connVars
<1>4. ~TransferStep
  <2>1. /\ ~SendResumeData /\ ~VerifyPiece /\ ~TransferExit /\ ~VerifyPanics /\ ~CompletePanics
        /\ ~ReportError /\ ~CompletePiece
    BY <1>2 DEF SendResumeData, VerifyPiece, TransferExit, VerifyPanics, CompletePanics, ReportError,
                CompletePiece, connVars
  <2>2. ASSUME NEW c \in Peer PROVE ~RefusePeer(c) /\ ~AssignBlocks(c) /\ ~AssignPanics(c)
    BY <1>1, <1>2 DEF RefusePeer, AssignBlocks, AssignPanics, connVars
  <2> QED
    BY <2>1, <2>2 DEF TransferStep
<1>5. ~TransferReceive
  <2>1. ~TakeBlock /\ ~TakeBlockWriteFails
    BY <1>2 DEF TakeBlock, TakeBlockWriteFails, connVars
  <2>2. ASSUME NEW c \in Peer PROVE ~TakeHashSet(c) /\ ~TakeReady(c)
    BY <1>1, <1>2 DEF TakeHashSet, TakeReady
  <2>3. ASSUME NEW c \in Peer, NEW b \in Block PROVE ~TakeAbort(c, b)
    BY <1>2 DEF TakeAbort
  <2> QED
    BY <2>1, <2>2, <2>3 DEF TransferReceive
<1>6. ASSUME NEW c \in Peer, NEW from, NEW to, ConnStep(c, from, to), from # "offerBlock"
      PROVE  FALSE
  BY <1>1, <1>2, <1>6 DEF ConnStep
<1>7. ASSUME NEW c \in Peer, NEW from, NEW to, Stray(c, from, to) PROVE FALSE
  BY <1>6, <1>7 DEF Stray
<1>8. ASSUME NEW c \in Peer, NEW from, NEW to, Answer(c, from, to), from # "offerBlock" PROVE FALSE
  BY <1>6, <1>8 DEF Answer
<1>9. ASSUME NEW c \in Peer
      PROVE  /\ ~Connect(c) /\ ~Register(c) /\ ~HelloAnswer(c) /\ ~ReqFilenameAnswer(c)
             /\ ~HashSetAnswer(c) /\ ~AcceptUploadReq(c) /\ ~FileStatus(c)
  BY <1>6, <1>7, <1>8 DEF Connect, Register, HelloAnswer, ReqFilenameAnswer, HashSetAnswer,
                          AcceptUploadReq, FileStatus
<1>10. ASSUME NEW c \in Peer PROVE ~ReadClosed(c) /\ ~Drop(c) /\ ~Unregister(c) /\ ~RunClose(c)
  BY <1>1, <1>2 DEF ReadClosed, Drop, Leave, Unregister, RunClose
<1>11. ASSUME NEW c \in Peer, HandOver(c) PROVE InHand'
  <2>1. PICK x \in sending[c] : /\ held' = [held EXCEPT ![c] = @ \ {x.block}]
                                /\ cpc' = [cpc EXCEPT ![c] = AfterBlock(c, x.block)]
    BY <1>11 DEF HandOver
  <2>2. sending' = [sending EXCEPT ![c] = {}]
    BY <1>11 DEF HandOver
  <2> QED
    BY <1>1, <2>1, <2>2 DEF InHand
<1>12. ASSUME NEW c \in Peer, NEW b \in Block, NEW good, SendingPart(c, b, good) PROVE InHand'
  <2>1. /\ b \in held[c] /\ held' = held
        /\ sending' = [sending EXCEPT ![c] = {[block |-> b, good |-> good]}]
        /\ cpc' = [cpc EXCEPT ![c] = "offerBlock"]
    BY <1>12 DEF SendingPart
  <2> QED
    BY <1>1, <2>1 DEF InHand
<1>13. Crash \/ Restart => InHand'
  BY ProcessStarts DEF NewProcess, InHand
<1> HIDE DEF Same
<1> QED
  BY <1>3, <1>4, <1>5, <1>9, <1>10, <1>11, <1>12, <1>13 DEF Next, LocalStep, RemoteStep

\* The assertion of FinishBlock never fails, that of the hash set only after a peer
\* strayed, and that of SetHave only after an error of a file operation.
LEMMA ArrivalStep ==
  ASSUME IInv, [Next]_vars
  PROVE  ArrivalAssertionsHold'
<1>1. ArrivalAssertionsHold /\ lastError \in BOOLEAN
  BY IInvParts DEF TypeOK
<1> DEFINE Same == /\ panic' = panic /\ (lastError' = lastError \/ lastError' = TRUE)
                   /\ strayed' = strayed \/ strayed' = TRUE
<1>2. SUFFICES ASSUME ~Same PROVE ArrivalAssertionsHold'
  BY <1>1 DEF ArrivalAssertionsHold
<1>3. ~UNCHANGED vars /\ ~SaveResumeData /\ ~SaveFails /\ ~StopCommand /\ ~WaitForCommand
  BY <1>2 DEF vars, SaveResumeData, SaveFails, StopCommand, WaitForCommand, transferVars, connVars
<1>4. CASE TransferStep
  <2>1. ASSUME VerifyPanics PROVE ArrivalAssertionsHold'
    <3>1. tpc = "verify" /\ lastError' = lastError /\ strayed' = strayed
      BY <2>1 DEF VerifyPanics, connVars
    <3>2. /\ ~strayed => hashSet = NumPieces
          /\ SetHavePanics(current) => lastError
          /\ NumPieces \in Nat /\ current \in 0..(NumPieces - 1)
      BY <3>1, PieceIsThere, IInvParts, PickerAssumption DEF TypeOK, Piece
    <3>3. ~strayed => hashSet # NilHashSet /\ ~(hashSet <= current)
      BY <3>2, NilIsNone
    <3>4. \/ panic' \in {"hash set is nil", "index out of range"} /\ strayed
          \/ panic' = "not all downloading blocks are finished" /\ lastError
      BY <2>1, <3>2, <3>3 DEF VerifyPanics, PanicWith
    <3> QED
      BY <3>1, <3>4 DEF ArrivalAssertionsHold
  <2>2. CompletePanics => ArrivalAssertionsHold'
    BY DEF CompletePanics, PanicWith, ArrivalAssertionsHold
  <2>3. ASSUME NEW c \in Peer, AssignPanics(c) PROVE ArrivalAssertionsHold'
    BY <2>3 DEF AssignPanics, PanicWith, ArrivalAssertionsHold
  <2>4. ~SendResumeData /\ ~VerifyPiece /\ ~TransferExit /\ ~CompletePiece /\ ~ReportError
    BY <1>2 DEF SendResumeData, VerifyPiece, TransferExit, CompletePiece, ReportError, connVars
  <2>5. ASSUME NEW c \in Peer PROVE ~RefusePeer(c) /\ ~AssignBlocks(c)
    BY <1>2 DEF RefusePeer, AssignBlocks
  <2> QED
    BY <1>4, <2>1, <2>2, <2>3, <2>4, <2>5 DEF TransferStep
<1>5. ~TakeBlock
  <2>1. TakeBlock => lastError' = lastError /\ strayed' = strayed
    BY DEF TakeBlock, connVars
  <2> QED
    BY <1>2, <2>1, BlockIsTaken, StaleIsDropped
<1>6. ~TakeBlockWriteFails
  BY <1>2 DEF TakeBlockWriteFails, connVars
<1>7. ASSUME NEW c \in Peer
      PROVE  /\ ~TakeReady(c) /\ ~TakeHashSet(c) /\ ~Connect(c) /\ ~LocalStep(c) /\ ~RunClose(c)
             /\ ~Drop(c) /\ \A b \in Block : ~TakeAbort(c, b)
  BY <1>2 DEF TakeReady, TakeHashSet, TakeAbort, Connect, LocalStep, Register, HandOver, ReadClosed,
              Unregister, RunClose, Drop, Leave, ConnStep, transferVars
<1>8. ASSUME NEW c \in Peer, NEW b \in Block, NEW good PROVE ~SendingPart(c, b, good)
  BY <1>2 DEF SendingPart, transferVars
<1>9. ASSUME NEW c \in Peer PROVE ~RemoteStep(c)
  <2>1. ASSUME NEW from, NEW to PROVE ~Answer(c, from, to) /\ ~Stray(c, from, to)
    BY <1>2 DEF Answer, Stray, ConnStep, transferVars
  <2> QED
    BY <1>8, <2>1 DEF RemoteStep, HelloAnswer, ReqFilenameAnswer, FileStatus, HashSetAnswer,
                      AcceptUploadReq
<1>10. Crash \/ Restart => ArrivalAssertionsHold'
  BY ProcessStarts DEF NewProcess, ArrivalAssertionsHold
<1> QED
  BY <1>3, <1>4, <1>5, <1>6, <1>7, <1>8, <1>9, <1>10 DEF Next, TransferReceive

----------------------------------------------------------------------------
(* Blocks under way.                                                        *)

\* A connection that ends keeps what it owes, and most steps move no block.
LEMMA CopiesAlone ==
  ASSUME IInv, [Next]_vars,
         ~TakeBlock, ~TakeBlockWriteFails, ~Crash, ~Restart,
         \A c \in Peer : ~AssignBlocks(c),
         \A c \in Peer, b \in Block : ~TakeAbort(c, b),
         \A c \in Peer : ~HandOver(c)
  PROVE  /\ OnlyLeavingAbort'
         /\ \A b \in Block : Owners(b)' = Owners(b) /\ Waiting(b)' = Waiting(b)
<1> USE DEF Reading
<1> DEFINE Goal == /\ OnlyLeavingAbort'
                   /\ \A b \in Block : Owners(b)' = Owners(b) /\ Waiting(b)' = Waiting(b)
<1>1. /\ OnlyLeavingAbort
      /\ cpc \in [Peer -> Connected \cup {"off", "dialing"}]
      /\ held \in [Peer -> SUBSET Block] /\ toAbort \in [Peer -> SUBSET Block]
  BY IInvParts DEF TypeOK
<1>2. ASSUME UNCHANGED <<cpc, held, toAbort, dataChan>> PROVE Goal
  BY <1>1, <1>2 DEF OnlyLeavingAbort, Owners, Waiting
<1>3. ASSUME NEW c \in Peer, NEW to, cpc' = [cpc EXCEPT ![c] = to],
             cpc[c] # "leaving", to # "leaving", UNCHANGED <<held, toAbort, dataChan>>
      PROVE  Goal
  <2>1. \A d \in Peer : cpc'[d] = "leaving" <=> cpc[d] = "leaving"
    BY <1>1, <1>3
  <2> QED
    BY <1>1, <1>3, <2>1 DEF OnlyLeavingAbort, Owners, Waiting
<1>4. ASSUME NEW c \in Peer, Leave(c), cpc[c] # "leaving" PROVE Goal
  <2>1. /\ cpc' = [cpc EXCEPT ![c] = "leaving"]
        /\ toAbort' = [toAbort EXCEPT ![c] = held[c]]
        /\ held' = [held EXCEPT ![c] = {}] /\ dataChan' = dataChan
    BY <1>4 DEF Leave, transferVars
  <2>2. toAbort[c] = {}
    BY <1>1, <1>4 DEF OnlyLeavingAbort
  <2>3. \A d \in Peer : d # c =>
           cpc'[d] = cpc[d] /\ toAbort'[d] = toAbort[d] /\ held'[d] = held[d]
    BY <1>1, <2>1
  <2>4. cpc'[c] = "leaving" /\ toAbort'[c] = held[c] /\ held'[c] = {}
    BY <1>1, <2>1
  <2>5. OnlyLeavingAbort'
    BY <1>1, <2>3, <2>4 DEF OnlyLeavingAbort
  <2>6. \A b \in Block : Owners(b)' = Owners(b)
    BY <1>4, <2>2, <2>3, <2>4 DEF Owners
  <2> QED
    BY <2>1, <2>5, <2>6 DEF Waiting
<1>5. ASSUME NEW c \in Peer, Unregister(c) PROVE Goal
  <2>1. /\ cpc[c] = "leaving" /\ toAbort[c] = {}
        /\ cpc' = [cpc EXCEPT ![c] = "off"] /\ toAbort' = toAbort
        /\ held' = [held EXCEPT ![c] = {}] /\ dataChan' = dataChan
    BY <1>5 DEF Unregister, transferVars
  <2>2. \A d \in Peer : d # c => cpc'[d] = cpc[d] /\ held'[d] = held[d]
    BY <1>1, <2>1
  <2>3. cpc'[c] = "off" /\ held'[c] = {}
    BY <1>1, <2>1
  <2>4. OnlyLeavingAbort'
    BY <1>1, <2>1, <2>2, <2>3 DEF OnlyLeavingAbort
  <2>5. \A b \in Block : Owners(b)' = Owners(b)
    BY <2>1, <2>2, <2>3 DEF Owners
  <2> QED
    BY <2>1, <2>4, <2>5 DEF Waiting
<1>6. UNCHANGED vars \/ SaveResumeData \/ SaveFails \/ StopCommand \/ WaitForCommand
        => UNCHANGED <<cpc, held, toAbort, dataChan>>
  BY DEF SaveResumeData, SaveFails, StopCommand, WaitForCommand, vars, transferVars, connVars
<1>7. TransferStep => UNCHANGED <<cpc, held, toAbort, dataChan>>
  <2>1. SendResumeData \/ VerifyPiece \/ VerifyPanics \/ CompletePiece \/ CompletePanics \/ TransferExit
          => UNCHANGED <<cpc, held, toAbort, dataChan>>
    BY DEF SendResumeData, VerifyPiece, VerifyPanics, CompletePiece, CompletePanics, TransferExit,
           connVars
  <2>2. ReportError \/ (\E c \in Peer : RefusePeer(c) \/ AssignPanics(c))
          => UNCHANGED <<cpc, held, toAbort, dataChan>>
    BY DEF ReportError, RefusePeer, AssignPanics, connVars
  <2> QED
    BY <2>1, <2>2 DEF TransferStep
<1>8. TransferReceive => Goal
  <2>1. ASSUME NEW c \in Peer, TakeHashSet(c) PROVE Goal
    BY <1>3, <2>1 DEF TakeHashSet
  <2>2. ASSUME NEW c \in Peer, TakeReady(c) PROVE Goal
    BY <1>3, <2>2 DEF TakeReady
  <2> HIDE DEF Goal
  <2> QED
    BY <2>1, <2>2 DEF TransferReceive
<1>9. ASSUME NEW c \in Peer, NEW from, NEW to, ConnStep(c, from, to),
             from # "leaving", to # "leaving"
      PROVE  Goal
  BY <1>3, <1>9 DEF ConnStep, transferVars
<1>12. ASSUME NEW c \in Peer, NEW b \in Block, NEW good, SendingPart(c, b, good) PROVE Goal
  BY <1>3, <1>12 DEF SendingPart, transferVars
<1> HIDE DEF Goal
<1>10. ASSUME NEW c \in Peer, Connect(c) \/ LocalStep(c) \/ RunClose(c) \/ RemoteStep(c) \/ Drop(c)
       PROVE  Goal
  <2>1. RunClose(c) => UNCHANGED <<cpc, held, toAbort, dataChan>>
    BY DEF RunClose, transferVars
  <2>2. ReadClosed(c) \/ Drop(c) => Leave(c) /\ cpc[c] # "leaving"
    BY DEF ReadClosed, Drop
  <2>3. Connect(c) \/ Register(c) => Goal
    BY <1>9 DEF Connect, Register
  <2>4. ASSUME NEW from, NEW to, Answer(c, from, to), from # "leaving", to # "leaving"
        PROVE  Goal
    BY <1>9, <2>4 DEF Answer
  <2>5. ASSUME NEW from, NEW to, Stray(c, from, to), to # "leaving" PROVE Goal
    BY <1>9, <2>5 DEF Stray
  <2>6. HelloAnswer(c) \/ ReqFilenameAnswer(c) => Goal
    BY <2>4 DEF HelloAnswer, ReqFilenameAnswer
  <2>7. FileStatus(c) => Goal
    BY <2>4, <2>5 DEF FileStatus
  <2>8. HashSetAnswer(c) \/ AcceptUploadReq(c) => Goal
    BY <2>4, <2>5 DEF HashSetAnswer, AcceptUploadReq
  <2> QED
    BY <1>2, <1>4, <1>5, <1>10, <1>12, <2>1, <2>2, <2>3, <2>6, <2>7, <2>8 DEF LocalStep, RemoteStep
<1>11. Goal
  BY <1>2, <1>6, <1>7, <1>8, <1>10, <1>12 DEF Next
<1> QED
  BY <1>11 DEF Goal

LEMMA LaterWaits ==
  ASSUME TypeOK, NEW x \in [block : Block, good : BOOLEAN], NEW b \in Block, x.block = b,
         dataChan' = Append(dataChan, x)
  PROVE  \A d \in Block : Waiting(d)' = IF d = b THEN Waiting(d) \cup {Len(dataChan) + 1}
                                                 ELSE Waiting(d)
<1>1. dataChan \in Seq([block : Block, good : BOOLEAN])
  BY DEF TypeOK
<1>3. /\ Len(dataChan) \in Nat /\ DOMAIN dataChan = 1..Len(dataChan)
      /\ DOMAIN dataChan' = 1..(Len(dataChan) + 1)
      /\ \A i \in 1..Len(dataChan) : dataChan'[i] = dataChan[i]
      /\ dataChan'[Len(dataChan) + 1] = x
  BY <1>1, AppendProperties, LenProperties
<1> QED
  BY <1>3 DEF Waiting

LEMMA NextWaits ==
  ASSUME TypeOK, dataChan # <<>>, dataChan' = Tail(dataChan)
  PROVE  /\ 1 \in Waiting(Head(dataChan).block)
         /\ \A d \in Block : Waiting(d)' = {i \in 1..(Len(dataChan) - 1) : i + 1 \in Waiting(d)}
<1>1. dataChan \in Seq([block : Block, good : BOOLEAN])
  BY DEF TypeOK
<1>2. /\ 1 \in DOMAIN dataChan /\ Head(dataChan) = dataChan[1] /\ Len(dataChan) \in Nat
      /\ DOMAIN dataChan = 1..Len(dataChan)
      /\ DOMAIN dataChan' = 1..(Len(dataChan) - 1)
      /\ \A i \in 1..(Len(dataChan) - 1) : dataChan'[i] = dataChan[i + 1]
  BY <1>1, HeadAndTail
<1> QED
  BY <1>2 DEF Waiting

LEMMA OwingStep ==
  ASSUME IInv, [Next]_vars
  PROVE  Owing' /\ OnlyLeavingAbort'
<1> USE DEF Alive, Ended
<1>1. /\ TypeOK /\ Owing /\ OnlyLeavingAbort /\ PickerInv
      /\ finished \subseteq requested /\ \A b \in requested : b[1] \in InProgress
      /\ InProgress \subseteq pieces
      /\ downloaders \in [Block -> Int]
      /\ FileBlocks' = FileBlocks
  BY IInvParts, InPieces DEF PickerInv, PickerTypeOK, FileBlocks, RealBlocks
<1>2. /\ cpc \in [Peer -> Connected \cup {"off", "dialing"}]
      /\ held \in [Peer -> SUBSET Block] /\ toAbort \in [Peer -> SUBSET Block]
  BY <1>1 DEF TypeOK
<1>3. ASSUME \A b \in Block : Owners(b)' = Owners(b) /\ Waiting(b)' = Waiting(b),
             \/ Quiet \/ Panics \/ SendResumeData \/ VerifyPiece \/ CompletePiece
             \/ TransferExit \/ SaveResumeData \/ SaveFails
      PROVE  Owing'
  <2>1. \A b \in Block : (UnderWay(b)' <=> UnderWay(b)) /\ (Single(b) => Single(b)')
    BY <1>3 DEF UnderWay, Single
  <2>2. CASE VerifyPiece
    BY <1>1, <2>1, <2>2, PieceIsVerified DEF Owing, Counted
  <2>3. CASE ~VerifyPiece
    <3>1. /\ pieces' = pieces /\ InProgress' = InProgress
          /\ finished' = finished /\ requested' = requested /\ downloaders' = downloaders
      BY <1>3, <2>3, PickerAlone
    <3>2. \/ tpc' \in {"panicked", "exited"}
          \/ tpc = "complete" /\ tpc' = "complete" /\ current' = current
          \/ tpc = "complete" /\ current \in pieces
          \/ tpc # "complete" /\ Alive
      <4>1. Quiet => \/ tpc' \in {"panicked", "exited"}
                     \/ tpc # "complete" /\ Alive
                     \/ tpc = "complete" /\ tpc' = "complete" /\ current' = current
        BY DEF Quiet, SamePoint, Content
      <4>2. Panics \/ TransferExit => tpc' \in {"panicked", "exited"}
        BY DEF Panics, TransferExit
      <4>3. SendResumeData => tpc # "complete" /\ Alive
        BY DEF SendResumeData
      <4>4. SaveResumeData \/ SaveFails => tpc' = tpc /\ current' = current
        BY DEF SaveResumeData, SaveFails, transferVars
      <4> QED
        BY <1>3, <2>3, <4>1, <4>2, <4>3, <4>4, PieceIsComplete
    <3> QED
      BY <1>1, <2>1, <3>1, <3>2 DEF Owing, Counted
  <2> QED
    BY <2>2, <2>3
<1>4. ASSUME NEW c \in Peer, HandOver(c)
      PROVE  Owing' /\ OnlyLeavingAbort'
  <2>11. PICK x \in sending[c] : /\ dataChan' = Append(dataChan, x)
                                 /\ held' = [held EXCEPT ![c] = @ \ {x.block}]
                                 /\ cpc' = [cpc EXCEPT ![c] = AfterBlock(c, x.block)]
    BY <1>4 DEF HandOver
  <2>12. x \in [block : Block, good : BOOLEAN] /\ x.block \in held[c]
    BY IInvParts DEF InHand, TypeOK
  <2> PICK b \in Block : b = x.block
    BY <2>12
  <2>1. /\ cpc[c] = "offerBlock" /\ b \in held[c] /\ Alive
        /\ held' = [held EXCEPT ![c] = @ \ {b}]
        /\ cpc' = [cpc EXCEPT ![c] = AfterBlock(c, b)] /\ AfterBlock(c, b) # "leaving"
        /\ dataChan' = Append(dataChan, x)
        /\ toAbort' = toAbort /\ tpc' = tpc /\ current' = current
        /\ UNCHANGED pickerVars
    BY <1>4, <2>11, <2>12 DEF HandOver, AfterBlock
  <2>2. \A d \in Peer : d # c => cpc'[d] = cpc[d] /\ held'[d] = held[d]
    BY <1>2, <2>1
  <2>3. cpc'[c] # "leaving" /\ held'[c] = held[c] \ {b}
    BY <1>2, <2>1
  <2>4. OnlyLeavingAbort'
    BY <1>1, <2>1, <2>2, <2>3 DEF OnlyLeavingAbort
  <2>5. toAbort[c] = {} /\ c \in Owners(b)
    BY <1>1, <2>1 DEF OnlyLeavingAbort, Owners
  <2>6. \A d \in Block : Owners(d)' = IF d = b THEN Owners(d) \ {c} ELSE Owners(d)
    BY <2>1, <2>2, <2>3, <2>5 DEF Owners
  <2>7. \A d \in Block : Waiting(d)' = IF d = b THEN Waiting(d) \cup {Len(dataChan) + 1}
                                                ELSE Waiting(d)
    BY <1>1, <2>1, <2>12, LaterWaits
  <2>8. \A d \in Block : (UnderWay(d)' => UnderWay(d)) /\ (Single(d) => Single(d)')
    BY <2>5, <2>6, <2>7 DEF UnderWay, Single
  <2>9. /\ pieces' = pieces /\ InProgress' = InProgress
        /\ finished' = finished /\ requested' = requested /\ downloaders' = downloaders
    BY <2>1, PickerSame DEF pickerVars
  <2>10. Owing'
    BY <1>1, <2>1, <2>8, <2>9 DEF Owing, Counted
  <2> QED
    BY <2>4, <2>10
<1>5. ASSUME NEW c \in Peer, AssignBlocks(c) PROVE Owing' /\ OnlyLeavingAbort'
  <2> DEFINE picked == Picked(RequestSize, c)
             chosen == Chosen(RequestSize, c)
  <2>1. /\ tpc = "assign" /\ tpc' = "loop"
        /\ chosen \subseteq Piece \ pieces
        /\ pieces' = pieces \cup chosen /\ InProgress' = InProgress \cup chosen
        /\ finished' = finished /\ requested' = requested \cup picked
        /\ downloaders' = [b \in Block |-> IF b \in picked THEN downloaders[b] + 1
                                                           ELSE downloaders[b]]
        /\ \A b \in picked : /\ b \in FileBlocks /\ b \in Block /\ b[1] \in InProgress'
                             /\ b \notin requested /\ b \notin finished
                             /\ ~UnderWay(b) /\ downloaders[b] = 0
        /\ held' = [held EXCEPT ![c] = @ \cup picked]
        /\ PickerInv'
    BY <1>5, BlocksAreAssigned
  <2>2. UNCHANGED <<dataChan, cpc, toAbort>>
    BY <1>5 DEF AssignBlocks
  <2> HIDE DEF picked, chosen
  <2>3. OnlyLeavingAbort'
    BY <1>1, <2>2 DEF OnlyLeavingAbort
  <2>4. \A b \in Block : Waiting(b)' = Waiting(b)
    BY <2>2 DEF Waiting
  <2>5. \A d \in Peer : held'[d] = IF d = c THEN held[c] \cup picked ELSE held[d]
    BY <1>2, <2>1
  <2>6. \A b \in Block : b \notin picked => Owners(b)' = Owners(b)
    BY <2>2, <2>5 DEF Owners
  <2>7. \A b \in Block : Owners(b)' \subseteq Owners(b) \cup {c}
    BY <2>2, <2>5 DEF Owners
  <2>8. ASSUME NEW b \in picked
        PROVE  /\ b \in FileBlocks /\ b[1] \in pieces' /\ Counted(b)'
    <3>1. b \in FileBlocks /\ b \in Block /\ b \in requested' /\ b \notin finished' /\ ~UnderWay(b)
      BY <2>1
    <3>2. b[1] \in pieces'
      BY <1>1, <2>1
    <3>3. downloaders'[b] = 1
      BY <2>1, <3>1
    <3>4. Single(b)'
      BY <2>4, <2>7, <3>1 DEF UnderWay, Single
    <3> QED
      BY <3>1, <3>2, <3>3, <3>4 DEF Counted
  <2>9. ASSUME NEW b \in Block, b \notin picked, UnderWay(b)'
        PROVE  b \in FileBlocks /\ b[1] \in pieces' /\ (b[1] \in InProgress' => Counted(b)')
    <3>1. UnderWay(b)
      BY <2>4, <2>6, <2>9 DEF UnderWay
    <3>2. b \in FileBlocks /\ b[1] \in pieces /\ (b[1] \in InProgress => Counted(b))
      BY <1>1, <2>1, <3>1 DEF Owing
    <3>3. b[1] \in InProgress' => b[1] \in InProgress
      BY <2>1, <3>2
    <3>4. Single(b) => Single(b)'
      BY <2>4, <2>6, <2>9 DEF Single
    <3>5. downloaders'[b] = downloaders[b]
      BY <2>1, <2>9
    <3> QED
      BY <2>1, <3>2, <3>3, <3>4, <3>5 DEF Counted
  <2>10. Owing'
    BY <1>1, <2>8, <2>9 DEF Owing
  <2> QED
    BY <2>3, <2>10
<1>6. CASE TakeBlock \/ TakeBlockWriteFails
  <2> DEFINE b == Head(dataChan).block
  <2>1. dataChan # <<>> /\ dataChan' = Tail(dataChan) /\ tpc = "loop"
        /\ UNCHANGED <<cpc, held, toAbort>>
    BY <1>6 DEF TakeBlock, TakeBlockWriteFails, connVars
  <2>2. OnlyLeavingAbort'
    BY <1>1, <2>1 DEF OnlyLeavingAbort
  <2>3. /\ 1 \in Waiting(b)
        /\ \A d \in Block : Waiting(d)' = {i \in 1..(Len(dataChan) - 1) : i + 1 \in Waiting(d)}
    BY <1>1, <2>1, NextWaits
  <2>4. \A d \in Block : Owners(d)' = Owners(d)
    BY <2>1 DEF Owners
  <2>5. b \in Block
    BY <2>1, HeadIsOwed
  <2> HIDE DEF b
  <2>6. ASSUME NEW d \in Block
        PROVE  /\ UnderWay(d)' => UnderWay(d)
               /\ Single(d) => Single(d)'
               /\ Single(d) /\ d = b => ~UnderWay(d)'
    <3>1. \A i \in Waiting(d)' : i \in Nat /\ i # 0 /\ i + 1 \in Waiting(d) /\ i + 1 # 1
      BY <2>3
    <3> QED
      BY <2>3, <2>4, <3>1 DEF UnderWay, Single
  <2>7. CASE TakeBlock /\ ~Stale(b)
    <3>1. /\ Counted(b) /\ tpc' = "save" /\ pieces' = pieces /\ InProgress' = InProgress
          /\ finished' = finished \cup {b} /\ requested' = requested
          /\ downloaders' = [downloaders EXCEPT ![b] = @ - 1]
      BY <2>7, BlockIsTaken DEF b
    <3>2. \A d \in Block : d = b => ~UnderWay(d)'
      BY <2>6, <3>1 DEF Counted
    <3> QED
      BY <1>1, <2>1, <2>2, <2>5, <2>6, <3>1, <3>2 DEF Owing, Counted
  <2>8. CASE TakeBlockWriteFails \/ (TakeBlock /\ Stale(b))
    <3>1. /\ pieces' = pieces /\ InProgress' = InProgress
          /\ finished' = finished /\ requested' = requested /\ downloaders' = downloaders
      BY <2>8, PickerAlone DEF b
    <3>2. tpc' \in {"loop", "report"}
      BY <2>1, <2>8, StaleIsDropped DEF b, TakeBlockWriteFails
    <3> QED
      BY <1>1, <2>1, <2>2, <2>6, <3>1, <3>2 DEF Owing, Counted
  <2> QED
    BY <1>6, <2>7, <2>8
<1>7. ASSUME NEW c \in Peer, NEW b \in Block, TakeAbort(c, b) PROVE Owing' /\ OnlyLeavingAbort'
  <2>1. /\ tpc = "loop" /\ cpc[c] = "leaving" /\ b \in toAbort[c]
        /\ toAbort' = [toAbort EXCEPT ![c] = @ \ {b}]
        /\ UNCHANGED <<tpc, dataChan, cpc, held>>
    BY <1>7 DEF TakeAbort, transferVars
  <2>2. /\ InProgress' = InProgress /\ pieces' = pieces /\ finished' = finished
        /\ c \in Owners(b) /\ (b[1] \in InProgress => Counted(b))
        /\ IF b[1] \in InProgress
           THEN /\ downloaders' = [downloaders EXCEPT ![b] = 0]
                /\ requested' = requested \ {b}
           ELSE downloaders' = downloaders /\ requested' = requested
    BY <1>7, BlockIsReturned
  <2>3. \A d \in Peer : toAbort'[d] = IF d = c THEN toAbort[c] \ {b} ELSE toAbort[d]
    BY <1>2, <2>1
  <2>4. OnlyLeavingAbort'
    BY <1>1, <2>1, <2>3 DEF OnlyLeavingAbort
  <2>5. \A d \in Block : Waiting(d)' = Waiting(d)
    BY <2>1 DEF Waiting
  <2>6. \A d \in Block : Owners(d)' = IF d = b THEN Owners(d) \ {c} ELSE Owners(d)
    BY <2>1, <2>3 DEF Owners
  <2>7. \A d \in Block : /\ UnderWay(d)' => UnderWay(d)
                         /\ Single(d) => Single(d)'
                         /\ Single(d) /\ d = b => ~UnderWay(d)'
    BY <2>2, <2>5, <2>6 DEF UnderWay, Single
  <2>8. Owing'
    BY <1>1, <2>1, <2>2, <2>7 DEF Owing, Counted
  <2> QED
    BY <2>4, <2>8
<1>8. CASE Crash \/ Restart
  <2>1. NewProcess
    BY <1>8, ProcessStarts
  <2>2. /\ cpc' = [c \in Peer |-> "off"] /\ held' = [c \in Peer |-> {}]
        /\ toAbort' = [c \in Peer |-> {}] /\ dataChan' = <<>>
    BY <2>1 DEF NewProcess
  <2>3. \A b \in Block : ~UnderWay(b)'
    BY <2>2 DEF UnderWay, Owners, Waiting
  <2> QED
    BY <2>2, <2>3 DEF Owing, OnlyLeavingAbort
<1>9. CASE ~(TakeBlock \/ TakeBlockWriteFails) /\ ~(Crash \/ Restart)
  <2>1. SUFFICES ASSUME \A c \in Peer : ~AssignBlocks(c),
                        \A c \in Peer, b \in Block : ~TakeAbort(c, b),
                        \A c \in Peer : ~HandOver(c)
                 PROVE  Owing' /\ OnlyLeavingAbort'
    BY <1>4, <1>5, <1>7
  <2>2. OnlyLeavingAbort' /\ \A b \in Block : Owners(b)' = Owners(b) /\ Waiting(b)' = Waiting(b)
    BY <1>9, <2>1, CopiesAlone
  <2> QED
    BY <1>3, <1>9, <2>1, <2>2, StepKinds
<1> QED
  BY <1>6, <1>8, <1>9

----------------------------------------------------------------------------
(* What is in the file, and what the records claim.                         *)

LEMMA WrittenStep ==
  ASSUME IInv, [Next]_vars
  PROVE  /\ Written' /\ VerifiedOnDisk'
         /\ \A b \in Block : disk[b] # "none" => disk'[b] # "none"
         /\ ~(Crash \/ Restart) => pieces \ InProgress \subseteq pieces' \ InProgress'
<1> DEFINE Goal == /\ Written' /\ VerifiedOnDisk'
                   /\ \A b \in Block : disk[b] # "none" => disk'[b] # "none"
                   /\ ~(Crash \/ Restart) => pieces \ InProgress \subseteq pieces' \ InProgress'
<1> SUFFICES Goal
  OBVIOUS
<1>1. /\ Written /\ VerifiedOnDisk
      /\ InProgress \subseteq pieces /\ pieces \subseteq Piece
      /\ wrong \subseteq received /\ received \subseteq Block
      /\ disk \in [Block -> {"none", "good", "bad"}]
      /\ finished \subseteq FileBlocks /\ FileBlocks \subseteq Block
  BY IInvParts, InPieces, FileBlocksAre DEF TypeOK
<1>2. \A p \in Piece, b \in Block : b \in RealBlocks(p) => b[1] = p
  BY RealBlocksAre
<1>3. \A p \in Piece : RealBlocks(p) \subseteq Block
  BY RealBlocksAre
<1>4. ASSUME disk' = disk, finished' = finished, InProgress' = InProgress, pieces' = pieces,
             received' \ wrong' \subseteq received \ wrong
      PROVE  Goal
  BY <1>1, <1>4 DEF Written, VerifiedOnDisk
<1>5. CASE Quiet \/ Panics \/ SendResumeData \/ TransferExit \/ SaveResumeData \/ SaveFails
           \/ (TakeBlock /\ Stale(Head(dataChan).block))
  <2>1. disk' = disk /\ received' = received /\ wrong' = wrong
    BY <1>5, StaleIsDropped
       DEF Quiet, Panics, Content, SendResumeData, TransferExit, SaveResumeData, SaveFails,
           transferVars, durableVars
  <2> QED
    BY <1>4, <1>5, <2>1, PickerAlone
<1>6. CASE CompletePiece
  <2>1. /\ disk' = disk /\ received' = received \ InPiece(received, current)
        /\ wrong' = wrong \ InPiece(wrong, current)
    BY <1>6 DEF CompletePiece, durableVars
  <2>2. received' \ wrong' \subseteq received \ wrong
    BY <1>1, <2>1 DEF InPiece
  <2> QED
    BY <1>4, <1>6, <2>1, <2>2, PickerAlone
<1>7. CASE VerifyPiece
  <2>1. UNCHANGED <<disk, received, wrong>>
    BY <1>7 DEF VerifyPiece, durableVars
  <2>2. /\ current \in InProgress /\ InProgress' = InProgress \ {current}
        /\ finished' = {b \in finished : b[1] # current}
        /\ \/ /\ pieces' = pieces /\ InPiece(wrong, current) = {}
              /\ RealBlocks(current) \subseteq finished /\ RealBlocks(current) \subseteq received
           \/ pieces' = pieces \ {current}
    BY <1>7, PieceIsVerified
  <2>3. Written'
    BY <1>1, <2>1, <2>2 DEF Written
  <2>4. CASE pieces' = pieces \ {current}
    BY <1>1, <2>1, <2>2, <2>3, <2>4 DEF VerifiedOnDisk
  <2>5. CASE /\ pieces' = pieces /\ InPiece(wrong, current) = {}
             /\ RealBlocks(current) \subseteq finished /\ RealBlocks(current) \subseteq received
    <3>1. \A b \in RealBlocks(current) : b \in received \ wrong
      BY <1>1, <1>2, <2>2, <2>5 DEF InPiece
    <3>2. \A b \in RealBlocks(current) : disk[b] = "good"
      BY <1>1, <2>5, <3>1 DEF Written
    <3> QED
      BY <1>1, <2>1, <2>2, <2>3, <2>5, <3>2 DEF VerifiedOnDisk
  <2> QED
    BY <2>2, <2>4, <2>5
<1>8. ASSUME NEW c \in Peer, AssignBlocks(c) PROVE Goal
  <2>1. UNCHANGED <<disk, received, wrong>>
    BY <1>8 DEF AssignBlocks, durableVars
  <2>2. /\ finished' = finished
        /\ Chosen(RequestSize, c) \subseteq Piece \ pieces
        /\ pieces' = pieces \cup Chosen(RequestSize, c)
        /\ InProgress' = InProgress \cup Chosen(RequestSize, c)
    BY <1>8, BlocksAreAssigned
  <2> QED
    BY <1>1, <2>1, <2>2 DEF Written, VerifiedOnDisk
<1>9. CASE TakeBlock /\ ~Stale(Head(dataChan).block)
  <2> DEFINE b == Head(dataChan).block
             good == Head(dataChan).good
  <2>1. /\ b \in FileBlocks /\ b[1] \in InProgress /\ Counted(b) /\ b \notin received
        /\ received' = received \cup {b}
        /\ wrong' = IF good THEN wrong ELSE wrong \cup {b}
        /\ disk' = [disk EXCEPT ![b] = DataOf(good)]
        /\ finished' = finished \cup {b} /\ pieces' = pieces /\ InProgress' = InProgress
    BY <1>9, BlockIsTaken
  <2> HIDE DEF b, good
  <2>2. \A d \in Block : disk'[d] = IF d = b THEN (IF good THEN "good" ELSE "bad") ELSE disk[d]
    BY <1>1, <2>1 DEF DataOf
  <2>3. Written'
    BY <1>1, <2>1, <2>2 DEF Written
  <2>4. VerifiedOnDisk'
    BY <1>1, <1>2, <1>3, <2>1, <2>2 DEF VerifiedOnDisk
  <2> QED
    BY <2>1, <2>2, <2>3, <2>4
<1>10. CASE TakeBlockWriteFails
  <2> DEFINE b == Head(dataChan).block
  <2>1. /\ received' = received \cup {b}
        /\ wrong' \in {wrong, wrong \cup {b}} /\ ~Stale(b)
        /\ tpc = "loop" /\ dataChan # <<>>
        /\ \E good : \E d \in {disk[b], "bad", DataOf(good)} : disk' = [disk EXCEPT ![b] = d]
    BY <1>10 DEF TakeBlockWriteFails, InsertBlock
  <2>2. b \notin finished /\ b[1] \in InProgress /\ b \in Block
    BY <2>1, HeadIsOwed DEF Counted
  <2>3. /\ finished' = finished /\ InProgress' = InProgress /\ pieces' = pieces
    BY <1>10, PickerAlone
  <2> HIDE DEF b
\* The block is in no record: it is not finished, and its piece is downloading.
  <2>4. /\ \A d \in Block : d # b => disk'[d] = disk[d]
        /\ disk[b] # "none" => disk'[b] # "none"
    BY <1>1, <2>1, <2>2 DEF DataOf
  <2>5. Written'
    BY <1>1, <2>1, <2>2, <2>3, <2>4 DEF Written
  <2>6. VerifiedOnDisk'
    BY <1>1, <1>2, <1>3, <2>2, <2>3, <2>4 DEF VerifiedOnDisk
  <2> QED
    BY <2>3, <2>4, <2>5, <2>6
<1>11. ASSUME NEW c \in Peer, NEW b \in Block, TakeAbort(c, b) PROVE Goal
  <2>1. UNCHANGED <<disk, received, wrong>>
    BY <1>11 DEF TakeAbort, transferVars, durableVars
  <2> QED
    BY <1>4, <1>11, <2>1, BlockIsReturned
<1>12. CASE Crash \/ Restart
  <2>1. /\ disk' = disk /\ received' \subseteq finished'
        /\ wrong' = {b \in received' : disk[b] # "good"}
        /\ \/ pieces' = {} /\ finished' = {}
           \/ /\ SoundRecord(resume') /\ finished' \subseteq Claims(resume')
              /\ pieces' \ InProgress' = Verified(resume')
    BY <1>12, ProcessStarts
  <2> QED
    BY <1>12, <2>1 DEF SoundRecord, OnDisk, Written, VerifiedOnDisk
<1> HIDE DEF Goal
<1> QED
  BY <1>5, <1>6, <1>7, <1>8, <1>9, <1>10, <1>11, <1>12, StepKinds

\* Resume data made from the picker at any moment is sound.
LEMMA RecordIsSound ==
  PickerInv /\ Written /\ VerifiedOnDisk => SoundRecord(Record)
<1> SUFFICES ASSUME PickerInv, Written, VerifiedOnDisk PROVE SoundRecord(Record)
  OBVIOUS
<1>1. /\ Claims(Record) = Have /\ Verified(Record) = pieces \ InProgress
      /\ Restorable(Record.pieces, Record.blocks, Record.size)
  BY RecordIs
<1>2. \A b \in FileBlocks : b \in RealBlocks(b[1])
  BY RealBlocksAre, FileBlocksAre, BlockParts
<1>3. \A b \in Have : disk[b] # "none"
  BY <1>2 DEF Have, Written, VerifiedOnDisk
<1> QED
  BY <1>1, <1>3 DEF SoundRecord, OnDisk, VerifiedOnDisk

LEMMA NextRecordIsSound ==
  PickerInv' /\ Written' /\ VerifiedOnDisk' => SoundRecord(Record)'
BY RecordIsSound, PTL

LEMMA ClaimsAreBlocks ==
  ASSUME NEW rec, Restorable(rec.pieces, rec.blocks, rec.size)
  PROVE  Claims(rec) \subseteq Block
<1>1. Verified(rec) \in SUBSET Piece
  BY DEF Restorable, Verified
<1>2. UNION {RealBlocks(p) : p \in Verified(rec)} \subseteq Block
  BY <1>1, RealBlocksAre
<1>3. \A p \in DOMAIN rec.blocks : rec.blocks[p] \subseteq Block
  BY DEF Restorable
<1> QED
  BY <1>2, <1>3 DEF Claims

\* The resume file and the record on its way to it change in few steps.
LEMMA SavedMoves ==
  ASSUME IInv, [Next]_vars
  PROVE  \/ Crash \/ Restart \/ SaveResumeData
         \/ SaveFails /\ resume' = resume /\ saving' = NoRecord
         \/ resume' = resume /\ saving' \in {saving, Record'}
<1>1. Quiet \/ Panics => resume' = resume /\ saving' = saving
  BY DEF Quiet, Panics, Content
<1>2. SendResumeData => resume' = resume /\ saving' = Record'
  BY PickerAlone DEF SendResumeData, durableVars
<1>3. VerifyPiece => resume' = resume /\ saving' = Record'
  BY DEF VerifyPiece, durableVars
<1>4. CompletePiece \/ TransferExit => resume' = resume /\ saving' = saving
  BY DEF CompletePiece, TransferExit, sessionVars, durableVars
<1>5. TakeBlock \/ TakeBlockWriteFails => resume' = resume /\ saving' = saving
  BY DEF TakeBlock, TakeBlockWriteFails, sessionVars, durableVars
<1>6. ASSUME NEW c \in Peer, AssignBlocks(c) PROVE resume' = resume /\ saving' = saving
  BY <1>6 DEF AssignBlocks, sessionVars, durableVars
<1>7. ASSUME NEW c \in Peer, NEW b \in Block, TakeAbort(c, b)
      PROVE  resume' = resume /\ saving' = saving
  BY <1>7 DEF TakeAbort, sessionVars, durableVars
<1>8. SaveFails => resume' = resume /\ saving' = NoRecord
  BY DEF SaveFails, durableVars
<1> QED
  BY <1>1, <1>2, <1>3, <1>4, <1>5, <1>6, <1>7, <1>8, StepKinds

LEMMA SavedStep ==
  ASSUME IInv, [Next]_vars
  PROVE  SavedIsSound'
<1>1. /\ SavedIsSound /\ NoRecord \notin Records
      /\ Written' /\ VerifiedOnDisk' /\ PickerInv'
      /\ \A b \in Block : disk[b] # "none" => disk'[b] # "none"
  BY IInvParts, WrittenStep, PickerStep, NoRecordIsNone
<1>2. ASSUME NEW rec, SoundRecord(rec), pieces \ InProgress \subseteq pieces' \ InProgress'
      PROVE  SoundRecord(rec)'
  <2>1. /\ Restorable(rec.pieces, rec.blocks, rec.size)
        /\ Verified(rec) \subseteq pieces' \ InProgress'
        /\ \A b \in Claims(rec) : disk[b] # "none"
    BY <1>2 DEF SoundRecord, OnDisk
  <2>2. \A b \in Claims(rec) : disk'[b] # "none"
    BY <1>1, <2>1, ClaimsAreBlocks
  <2>3. \A p \in Verified(rec) : \A b \in RealBlocks(p) : disk'[b] = "good"
    BY <1>1, <2>1 DEF VerifiedOnDisk
  <2> QED
    BY <2>1, <2>2, <2>3 DEF SoundRecord, OnDisk, Restorable, RealCount
<1>3. CASE Crash \/ Restart
  <2>1. \/ resume' = NoRecord /\ saving' = EmptyRecord
        \/ /\ resume' # NoRecord /\ saving' = NoRecord
           /\ SoundRecord(resume') /\ pieces' \ InProgress' = Verified(resume')
    BY <1>3, ProcessStarts
  <2>2. CASE resume' = NoRecord /\ saving' = EmptyRecord
    <3>1. /\ Restorable(EmptyRecord.pieces, EmptyRecord.blocks, EmptyRecord.size)
          /\ Claims(EmptyRecord) = {} /\ Verified(EmptyRecord) = {}
      BY DEF Restorable, EmptyRecord, Claims, Verified
    <3>2. SoundRecord(EmptyRecord)'
      BY <3>1 DEF SoundRecord, OnDisk, Restorable, RealCount
    <3> QED
      BY <2>2, <3>2 DEF SavedIsSound
  <2>3. CASE /\ resume' # NoRecord /\ saving' = NoRecord
             /\ SoundRecord(resume') /\ pieces' \ InProgress' = Verified(resume')
    <3>1. /\ Restorable(resume'.pieces, resume'.blocks, resume'.size)
          /\ \A b \in Claims(resume') : disk[b] # "none"
          /\ Verified(resume') \subseteq pieces' \ InProgress'
      BY <2>3 DEF SoundRecord, OnDisk
    <3>2. \A b \in Claims(resume') : disk'[b] # "none"
      BY <1>1, <3>1, ClaimsAreBlocks
    <3>3. \A p \in Verified(resume') : \A b \in RealBlocks(p) : disk'[b] = "good"
      BY <1>1, <3>1 DEF VerifiedOnDisk
    <3> QED
      BY <2>3, <3>1, <3>2, <3>3 DEF SavedIsSound, SoundRecord, OnDisk, Restorable, RealCount
  <2> QED
    BY <2>1, <2>2, <2>3
<1>4. CASE ~(Crash \/ Restart)
  <2>1. pieces \ InProgress \subseteq pieces' \ InProgress'
    BY <1>4, WrittenStep
  <2>2. resume' \in {resume, saving} /\ saving' \in {saving, Record', NoRecord}
    BY <1>4, SavedMoves DEF SaveResumeData
  <2>3. SoundRecord(Record)'
    BY <1>1, NextRecordIsSound
  <2>4. \A rec \in {resume, saving} : rec # NoRecord => SoundRecord(rec)'
    BY <1>1, <1>2, <2>1 DEF SavedIsSound
  <2> QED
    BY <2>2, <2>3, <2>4 DEF SavedIsSound
<1> QED
  BY <1>3, <1>4

LEMMA ProgressStep ==
  ASSUME IInv, [Next]_vars
  PROVE  Progress'
<1>1. /\ Progress /\ PickerInv' /\ NoRecord \notin Records
      /\ FileBlocks' = FileBlocks
  BY IInvParts, PickerStep, NoRecordIsNone DEF FileBlocks, RealBlocks
\* A step that loses nothing while no piece is rejected.
<1>2. ASSUME ~Failing, Have \subseteq Have', UNCHANGED <<resume, saving, unsaved>>,
             \/ tpc' \in {"save", "panicked"}
             \/ tpc \notin {"save", "panicked"} /\ Have' = Have,
             tpc' = "exited" => saving = NoRecord
      PROVE  Progress'
  BY <1>1, <1>2 DEF Progress, KeptBy
<1>3. CASE Quiet
  <2>1. /\ Have' = Have /\ pieces' = pieces
        /\ UNCHANGED <<current, wrong, resume, saving, unsaved>>
        /\ tpc' = tpc \/ {tpc, tpc'} \subseteq {"loop", "assign", "report"}
    BY <1>3, PickerAlone DEF Quiet, Content, SamePoint
  <2> QED
    BY <1>1, <2>1 DEF Progress, KeptBy, Failing, Spoilt
<1>4. CASE Panics
  <2>1. Have' = Have /\ UNCHANGED <<wrong, resume, saving, unsaved>> /\ tpc' = "panicked"
    BY <1>4, PickerAlone DEF Panics, Content
  <2> QED
    BY <1>1, <2>1 DEF Progress, KeptBy, Failing, Spoilt
<1>5. CASE SendResumeData
  <2>1. /\ Have' = Have /\ saving' = Record' /\ resume' = resume /\ unsaved' = FALSE
        /\ tpc = "save" /\ tpc' \in {"verify", "loop"}
    BY <1>5, PickerAlone DEF SendResumeData, durableVars
  <2>2. saving' # NoRecord /\ Claims(saving') = Have'
    BY <1>1, <2>1, NextRecordIs
  <2>3. ~Failing
    BY <2>1 DEF Failing
  <2> QED
    BY <1>1, <2>1, <2>2, <2>3 DEF Progress, KeptBy
<1>6. CASE VerifyPiece
  <2>1. /\ tpc = "verify" /\ tpc' = "complete" /\ current' = current
        /\ current \in InProgress /\ InProgress' = InProgress \ {current}
        /\ finished' = {b \in finished : b[1] # current}
        /\ \/ pieces' = pieces
           \/ pieces' = pieces \ {current} /\ InPiece(wrong, current) # {}
    BY <1>6, PieceIsVerified
  <2>2. saving' = Record' /\ unsaved' = FALSE /\ UNCHANGED <<resume, wrong>> /\ saving = NoRecord
    BY <1>6 DEF VerifyPiece, durableVars, SessionIdle
  <2>3. saving' # NoRecord /\ Claims(saving') = Have'
    BY <1>1, <2>2, NextRecordIs
  <2>4. resume # NoRecord => Claims(resume) \subseteq Have
    BY <1>1, <2>1, <2>2 DEF Progress, KeptBy, Failing
  <2>5. InProgress \subseteq pieces /\ finished \subseteq FileBlocks
    BY IInvParts, InPieces
  <2>6. \A b \in Have \ Have' : b[1] = current /\ pieces' = pieces \ {current}
    BY <1>1, <2>1, <2>5 DEF Have
  <2>7. pieces' = pieces \ {current} => Failing' /\ Spoilt(current)'
    <3>1. SUFFICES ASSUME pieces' = pieces \ {current} PROVE Failing' /\ Spoilt(current)'
      OBVIOUS
    <3>2. PICK b \in wrong : b[1] = current
      BY <2>1, <2>5, <3>1 DEF InPiece
    <3>3. b \in FileBlocks
      BY <3>2, IInvParts DEF Received, TypeOK
    <3>4. b \in RealBlocks(current)
      BY <3>2, <3>3, FileBlocksAre, RealBlocksAre, BlockParts
    <3> QED
      BY <2>1, <2>2, <3>1, <3>2, <3>4 DEF Failing, Spoilt
  <2>8. ASSUME resume # NoRecord, NEW b \in Claims(resume') \ Have'
        PROVE  Failing' /\ Spoilt(b[1])'
    <3>1. b[1] = current /\ pieces' = pieces \ {current}
      BY <2>2, <2>4, <2>6, <2>8
    <3> QED
      BY <2>1, <2>7, <3>1 DEF Spoilt
  <2> QED
    BY <2>1, <2>2, <2>3, <2>8 DEF Progress, KeptBy
<1>7. CASE CompletePiece
  <2>1. ~Failing /\ tpc = "complete" /\ tpc' = "loop"
    BY <1>7, PieceIsComplete DEF Failing
  <2>2. Have' = Have /\ UNCHANGED <<resume, saving, unsaved>>
    BY <1>7, PickerAlone DEF CompletePiece, sessionVars, durableVars
  <2> QED
    BY <1>2, <2>1, <2>2
<1>8. CASE TransferExit
  <2>1. /\ tpc = "loop" /\ tpc' = "exited" /\ saving = NoRecord
        /\ UNCHANGED <<resume, saving, unsaved>>
    BY <1>8 DEF TransferExit, SessionIdle, sessionVars, durableVars
  <2> QED
    BY <1>2, <1>8, <2>1, PickerAlone DEF Failing
<1>9. ASSUME NEW c \in Peer, AssignBlocks(c) PROVE Progress'
  <2>1. tpc = "assign" /\ tpc' = "loop" /\ Have' = Have
    BY <1>9, BlocksAreAssigned
  <2>2. UNCHANGED <<resume, saving, unsaved>>
    BY <1>9 DEF AssignBlocks, sessionVars, durableVars
  <2> QED
    BY <1>2, <2>1, <2>2 DEF Failing
<1>10. ASSUME NEW c \in Peer, NEW b \in Block, TakeAbort(c, b) PROVE Progress'
  <2>1. tpc = "loop" /\ tpc' = tpc /\ UNCHANGED <<resume, saving, unsaved>>
    BY <1>10 DEF TakeAbort, transferVars, sessionVars, durableVars
  <2> QED
    BY <1>2, <1>10, <2>1, BlockIsReturned DEF Failing
<1>11. CASE TakeBlock \/ TakeBlockWriteFails
  <2>1. tpc = "loop" /\ UNCHANGED <<resume, saving, unsaved>>
    BY <1>11 DEF TakeBlock, TakeBlockWriteFails, sessionVars, durableVars
  <2>2. \/ Have' = Have /\ tpc' \in {"loop", "report"}
        \/ Have \subseteq Have' /\ tpc' = "save"
    <3>1. TakeBlockWriteFails => Have' = Have /\ tpc' = "report"
      BY PickerAlone DEF TakeBlockWriteFails
    <3>2. TakeBlock /\ Stale(Head(dataChan).block) => Have' = Have /\ tpc' = tpc
      BY PickerAlone, StaleIsDropped
    <3>3. TakeBlock /\ ~Stale(Head(dataChan).block) => Have \subseteq Have' /\ tpc' = "save"
      BY BlockIsTaken
    <3> QED
      BY <1>11, <2>1, <3>1, <3>2, <3>3
  <2> QED
    BY <1>2, <2>1, <2>2 DEF Failing
<1>12. CASE SaveResumeData
  <2>1. /\ saving # NoRecord /\ resume' = saving /\ saving' = NoRecord
        /\ tpc' = tpc /\ unsaved' = unsaved
    BY <1>12 DEF SaveResumeData, transferVars
  <2>2. Have' = Have
    BY <1>12, PickerAlone
  <2> QED
    BY <1>1, <2>1, <2>2 DEF Progress, KeptBy
<1>13. CASE Crash \/ Restart
  <2>1. /\ tpc' = "loop"
        /\ \/ resume' = NoRecord /\ saving' = EmptyRecord /\ Have' = {}
           \/ resume' # NoRecord /\ saving' = NoRecord /\ Have' = Claims(resume')
    BY <1>13, ProcessStarts
  <2>2. unsaved' = FALSE
    BY <1>13, ProcessStarts DEF NewProcess
  <2> QED
    BY <2>1, <2>2, EmptyRecordIs DEF Progress, KeptBy
<1>14. CASE SaveFails
  <2>1. /\ Have' = Have /\ resume' = resume /\ saving' = NoRecord /\ unsaved' = TRUE
        /\ UNCHANGED <<tpc, current, wrong, pieces>>
    BY <1>14, PickerAlone DEF SaveFails, transferVars, durableVars, pickerVars
  <2> QED
    BY <1>1, <2>1 DEF Progress, KeptBy, Failing, Spoilt
<1> QED
  BY <1>3, <1>4, <1>5, <1>6, <1>7, <1>8, <1>9, <1>10, <1>11, <1>12, <1>13, <1>14, StepKinds

----------------------------------------------------------------------------
(* The theorems.                                                            *)

LEMMA InitInv == Init => IInv
<1> SUFFICES ASSUME Init PROVE IInv
  OBVIOUS
<1>1. /\ CreatePiecePicker
      /\ tpc = "loop" /\ current = 0 /\ assignee = NoPeer /\ dataChan = <<>>
      /\ incoming = {} /\ received = {} /\ wrong = {}
      /\ hashSet = NilHashSet /\ lastError = FALSE /\ announced = FALSE /\ panic = "none"
      /\ sending = [c \in Peer |-> {}] /\ strayed = FALSE /\ unsaved = FALSE
      /\ cpc = [c \in Peer |-> "off"] /\ held = [c \in Peer |-> {}]
      /\ toAbort = [c \in Peer |-> {}] /\ closed = [c \in Peer |-> FALSE]
      /\ stopping = FALSE /\ closing = {} /\ saving = EmptyRecord /\ resume = NoRecord
      /\ disk = [b \in Block |-> "none"]
  BY DEF Init
<1>2. PickerInv
  BY <1>1, CreateMakesPickerInv
<1>3. /\ pieces = {} /\ finished = {} /\ requested = {} /\ InProgress = {}
      /\ downloaders = [b \in Block |-> 0]
  BY <1>1 DEF CreatePiecePicker, InProgress
<1>4. EmptyRecord \in Records
  BY EmptyRecordIs
<1>5. TypeOK
  <2>1. 0 \in Piece /\ DataChanCap \in Nat /\ PickerTypeOK
    BY <1>2, PickerAssumption, DownloadAssumption DEF Piece, PickerInv
  <2>2. dataChan \in Seq([block : Block, good : BOOLEAN]) /\ Len(dataChan) <= DataChanCap
    BY <1>1, <2>1, EmptySeq
  <2> QED
    BY <1>1, <1>4, <2>1, <2>2, NilIsNone DEF TypeOK
<1>6. Unasked
  BY <1>3 DEF Unasked
<1>7. Received /\ AtCheck
  BY <1>1 DEF Received, AtCheck
<1>8. Owing /\ OnlyLeavingAbort
  <2>1. \A b \in Block : ~UnderWay(b)
    BY <1>1 DEF UnderWay, Owners, Waiting
  <2> QED
    BY <1>1, <2>1 DEF Owing, OnlyLeavingAbort
<1>9. HashSetIsThere /\ InHand
  BY <1>1 DEF HashSetIsThere, NeedsHashSet, InHand
<1>10. Written /\ VerifiedOnDisk
  BY <1>3 DEF Written, VerifiedOnDisk
<1>11. SavedIsSound
  <2>1. Restorable(saving.pieces, saving.blocks, saving.size) /\ Verified(saving) = {}
    BY <1>1 DEF Restorable, EmptyRecord, Verified
  <2> QED
    BY <1>1, <2>1, EmptyRecordIs DEF SavedIsSound, SoundRecord, OnDisk
<1>12. Progress
  <2>1. Have = {}
    BY <1>3 DEF Have
  <2> QED
    BY <1>1, <2>1, EmptyRecordIs DEF Progress
<1>13. ArrivalAssertionsHold
  BY <1>1 DEF ArrivalAssertionsHold
<1> QED
  BY <1>2, <1>5, <1>6, <1>7, <1>8, <1>9, <1>10, <1>11, <1>12, <1>13 DEF IInv

LEMMA StepInv == IInv /\ [Next]_vars => IInv'
BY PickerStep, TypeStep, ReceivedStep, OwingStep, HashSetStep, InHandStep, WrittenStep, SavedStep,
   ProgressStep, ArrivalStep DEF IInv

LEMMA Inductive == Spec => []IInv
BY InitInv, StepInv, PTL DEF Spec

\* In every reachable state each variable of Download has its type.
THEOREM TypeCorrect == Spec => []TypeOK
<1>1. IInv => TypeOK
  BY IInvParts
<1> QED
  BY <1>1, Inductive, PTL

\* Whatever crashes and fails, no resume data claims what is not in the file, or
\* as verified what is not right (transfer.go:183-239).
THEOREM ClaimsHold == Spec => []ClaimsAreOnDisk
<1>1. IInv => ClaimsAreOnDisk
  <2> SUFFICES ASSUME IInv PROVE ClaimsAreOnDisk
    OBVIOUS
  <2>1. SoundRecord(Record) /\ SavedIsSound
    BY IInvParts, RecordIsSound
  <2> QED
    BY <2>1 DEF ClaimsAreOnDisk, SavedIsSound, SoundRecord, OnDisk
<1> QED
  BY <1>1, Inductive, PTL

\* However connections drop, return their blocks late and come back, a missing block
\* is never given to two of them (peer_connection.go:86-101, piece_picker.go:96-111).
THEOREM NoBlockIsGivenTwice == Spec => []OneCopyUnderWay
<1>1. IInv => OneCopyUnderWay
  <2> SUFFICES ASSUME IInv, Alive, NEW b \in Block, b[1] \in InProgress, b \notin finished
               PROVE  /\ Copies(b) <= 1
                      /\ Copies(b) = 1 => b \in requested /\ downloaders[b] = 1
    BY DEF OneCopyUnderWay
  <2>1. UnderWay(b) => Counted(b)
    BY IInvParts DEF Owing
  <2>2. Cardinality({}) = 0
    BY FS_EmptySet
  <2>3. CASE ~UnderWay(b)
    BY <2>2, <2>3 DEF UnderWay, Copies
  <2>4. CASE UnderWay(b)
    <3>1. ASSUME NEW S, \A x, y \in S : x = y, S # {} PROVE Cardinality(S) = 1
      <4>1. PICK x \in S : S = {x}
        BY <3>1
      <4> QED
        BY <4>1, FS_Singleton
    <3>2. \/ Cardinality(Owners(b)) = 1 /\ Cardinality(Waiting(b)) = 0
          \/ Cardinality(Owners(b)) = 0 /\ Cardinality(Waiting(b)) = 1
      BY <2>1, <2>2, <2>4, <3>1 DEF UnderWay, Counted, Single
    <3> QED
      BY <2>1, <2>4, <3>2 DEF Copies, Counted
  <2> QED
    BY <2>3, <2>4
<1> QED
  BY <1>1, Inductive, PTL

\* The panic for a block that was not requested cannot happen, whatever a peer sends in
\* whatever order; that for unfinished blocks happens only after an error of a file
\* operation, and those for a missing or short hash set only after a peer sent a packet
\* out of its turn or a short hash set (piece_picker.go:113-130, 194-207;
\* transfer.go:218-222).
THEOREM ArrivalsAreAwaited == Spec => []ArrivalAssertionsHold
<1>1. IInv => ArrivalAssertionsHold
  BY IInvParts
<1> QED
  BY <1>1, Inductive, PTL

\* No write of the resume file, and no restart, loses blocks except those of a piece
\* with wrong data (transfer.go:148, 206, 233).
THEOREM ProgressIsKept == Spec => SavedProgressIsKept
<1>1. IInv /\ [Next]_vars =>
        [resume # NoRecord =>
           /\ resume' # NoRecord
           /\ \A b \in Claims(resume) \ Claims(resume') :
                \E other \in RealBlocks(b[1]) : other \in wrong]_vars
  <2> SUFFICES ASSUME IInv, [Next]_vars, resume # NoRecord
               PROVE  /\ resume' # NoRecord
                      /\ \A b \in Claims(resume) \ Claims(resume') : Spoilt(b[1])
    BY DEF Spoilt
  <2>1. resume' = resume \/ (saving # NoRecord /\ resume' = saving)
    <3>1. Crash \/ Restart => resume' = resume \/ (saving # NoRecord /\ resume' = saving)
      BY ProcessStarts
    <3> QED
      BY <3>1, SavedMoves DEF SaveResumeData
  <2>2. saving # NoRecord => KeptBy(Claims(saving))
    BY IInvParts DEF Progress
  <2> QED
    BY <2>1, <2>2 DEF KeptBy
<1> QED
  BY <1>1, Inductive, PTL DEF SavedProgressIsKept, Spec

----------------------------------------------------------------------------
(* Download implements the pool of blocks with its file.  The refinement needs *)
(* two more facts: what was verified is in the latest record, if that was      *)
(* written, and a block that is out was given to somebody.                     *)

LatestRecord == IF saving # NoRecord THEN saving ELSE resume
VerifiedIsSaved == ~unsaved => Verified(LatestRecord) = pieces \ InProgress
Given == \A b \in Block : b \in requested \ finished => lastDownloader[b] \in Peer

DurableInv == IInv /\ VerifiedIsSaved /\ Given

LEMMA GivenStep ==
  ASSUME IInv, Given, [Next]_vars
  PROVE  Given'
<1>1. /\ lastDownloader \in [Block -> Peer \cup {NoPeer}] /\ finished \subseteq requested
      /\ requested \subseteq Block
  BY IInvParts, InPieces DEF PickerInv, PickerTypeOK
<1>2. CASE \/ Quiet \/ Panics \/ SendResumeData \/ CompletePiece \/ TransferExit
           \/ TakeBlockWriteFails \/ SaveResumeData \/ SaveFails
           \/ TakeBlock /\ Stale(Head(dataChan).block)
  BY <1>2, PickerAlone DEF Given, pickerVars
<1>3. CASE VerifyPiece
  <2>1. /\ requested' = {b \in requested : b[1] # current}
        /\ finished' = {b \in finished : b[1] # current}
        /\ Forget(current)
    BY <1>3, PieceIsVerified DEF VerifyPiece, SetHave, RemoveDownloadingPiece
  <2> QED
    BY <2>1 DEF Given, Forget
<1>4. ASSUME NEW c \in Peer, AssignBlocks(c) PROVE Given'
  <2>1. PickPieces(RequestSize, c)
    BY <1>4 DEF AssignBlocks
  <2> QED
    BY <2>1 DEF Given, PickPieces
<1>5. CASE TakeBlock /\ ~Stale(Head(dataChan).block)
  <2> DEFINE b == Head(dataChan).block
  <2>1. b[1] \in InProgress /\ tpc' = "save"
    BY <1>5, BlockIsTaken
  <2>2. FinishBlock(b)
    BY <1>5, <2>1 DEF TakeBlock, PanicWith
  <2> HIDE DEF b
  <2> QED
    BY <1>1, <2>1, <2>2 DEF Given, FinishBlock
<1>6. ASSUME NEW c \in Peer, NEW b \in Block, TakeAbort(c, b) PROVE Given'
  <2>1. /\ finished' = finished
        /\ b[1] \in InProgress => b \notin requested'
        /\ requested' \subseteq requested
    BY <1>6, BlockIsReturned
  <2>2. /\ b[1] \notin InProgress => lastDownloader' = lastDownloader
        /\ \A d \in Block : d # b => lastDownloader'[d] = lastDownloader[d]
    BY <1>1, <1>6 DEF TakeAbort, AbortBlock, pickerVars
  <2> QED
    BY <1>1, <2>1, <2>2 DEF Given
<1>7. CASE Crash \/ Restart
  BY <1>7, ProcessStarts DEF Given
<1> QED
  BY <1>2, <1>3, <1>4, <1>5, <1>6, <1>7, StepKinds

LEMMA VerifiedStep ==
  ASSUME IInv, VerifiedIsSaved, [Next]_vars
  PROVE  VerifiedIsSaved'
<1>1. PickerInv' /\ Record' # NoRecord /\ Verified(Record') = pieces' \ InProgress'
  BY PickerStep, NextRecordIs, NoRecordIsNone DEF Verified
<1>2. CASE Crash \/ Restart
  BY <1>2, ProcessStarts, EmptyRecordIs DEF VerifiedIsSaved, LatestRecord, Verified, EmptyRecord
<1>3. CASE SaveResumeData
  <2>1. saving # NoRecord /\ resume' = saving /\ saving' = NoRecord /\ unsaved' = unsaved
    BY <1>3 DEF SaveResumeData
  <2> QED
    BY <1>3, <2>1, PickerAlone DEF VerifiedIsSaved, LatestRecord, Verified
<1>4. CASE resume' = resume /\ saving' = Record'
  BY <1>1, <1>4 DEF VerifiedIsSaved, LatestRecord, Verified
<1>5. CASE /\ UNCHANGED <<resume, saving, unsaved>>
           /\ pieces' \ InProgress' = pieces \ InProgress
  BY <1>5 DEF VerifiedIsSaved, LatestRecord, Verified
<1>6. CASE VerifyPiece \/ SendResumeData
  <2>1. resume' = resume /\ saving' = Record'
    BY <1>6, PickerAlone DEF VerifyPiece, SendResumeData, durableVars
  <2> QED
    BY <1>4, <2>1
<1>7. ~(VerifyPiece \/ SendResumeData \/ Crash \/ Restart)
        => pieces' \ InProgress' = pieces \ InProgress
  <2>1. ASSUME NEW c \in Peer, AssignBlocks(c)
        PROVE  pieces' \ InProgress' = pieces \ InProgress
    <3>1. PickerInv /\ PickPieces(RequestSize, c) /\ RequestSize \in Nat
      BY <2>1, IInvParts, DownloadAssumption DEF AssignBlocks
    <3> QED
      BY <3>1, PickKeepsView
  <2>2. TakeBlock /\ ~Stale(Head(dataChan).block) => pieces' \ InProgress' = pieces \ InProgress
    BY BlockIsTaken
  <2>3. ASSUME NEW c \in Peer, NEW b \in Block, TakeAbort(c, b)
        PROVE  pieces' \ InProgress' = pieces \ InProgress
    BY <2>3, BlockIsReturned
  <2> QED
    BY <2>1, <2>2, <2>3, StepKinds, PickerAlone
<1>8. CASE SaveFails
  BY <1>8 DEF SaveFails, VerifiedIsSaved
<1>9. CASE ~(VerifyPiece \/ SendResumeData \/ SaveResumeData \/ SaveFails \/ Crash \/ Restart)
  <2>1. UNCHANGED <<resume, saving, unsaved>>
    <3>1. Quiet \/ Panics => UNCHANGED <<resume, saving, unsaved>>
      BY DEF Quiet, Panics, Content
    <3>2. CompletePiece \/ TransferExit => UNCHANGED <<resume, saving, unsaved>>
      BY DEF CompletePiece, TransferExit, sessionVars, durableVars
    <3>3. TakeBlock \/ TakeBlockWriteFails => UNCHANGED <<resume, saving, unsaved>>
      BY DEF TakeBlock, TakeBlockWriteFails, sessionVars, durableVars
    <3>4. ASSUME NEW c \in Peer, AssignBlocks(c) PROVE UNCHANGED <<resume, saving, unsaved>>
      BY <3>4 DEF AssignBlocks, sessionVars, durableVars
    <3>5. ASSUME NEW c \in Peer, NEW b \in Block, TakeAbort(c, b)
          PROVE  UNCHANGED <<resume, saving, unsaved>>
      BY <3>5 DEF TakeAbort, sessionVars, durableVars
    <3> QED
      BY <1>9, <3>1, <3>2, <3>3, <3>4, <3>5, StepKinds
  <2>2. pieces' \ InProgress' = pieces \ InProgress
    BY <1>7, <1>9
  <2> QED
    BY <1>5, <2>1, <2>2
<1> QED
  BY <1>2, <1>3, <1>6, <1>8, <1>9

LEMMA DurableInvHolds == Spec => []DurableInv
<1>1. Init => VerifiedIsSaved /\ Given
  <2>1. Init => /\ saving = EmptyRecord /\ requested = {} /\ pieces = {} /\ InProgress = {}
    BY DEF Init, CreatePiecePicker, InProgress
  <2> QED
    BY <2>1, EmptyRecordIs DEF VerifiedIsSaved, LatestRecord, Verified, EmptyRecord, Given
<1>2. DurableInv /\ [Next]_vars => DurableInv'
  BY StepInv, GivenStep, VerifiedStep DEF DurableInv
<1>3. Init => DurableInv
  BY <1>1, InitInv DEF DurableInv
<1> QED
  BY <1>2, <1>3, PTL DEF Spec

----------------------------------------------------------------------------
(* Each step is a step of the pool, or none.                                 *)

OwnersView == [b \in FileBlocks |-> IF b \in requested \ finished THEN {lastDownloader[b]} ELSE {}]
LostView == IF LastPieceIsLost THEN {NumPieces - 1} ELSE {}
Mode == IF tpc = "exited" THEN "exited" ELSE IF Failing THEN "failing" ELSE "running"
View == <<OwnersView, Done, pieces \ InProgress, LostView>>

\* The instance counts with the same operator.
LEMMA SameCardinality == \A S : Durable!Cardinality(S) = Cardinality(S)
BY DEF Durable!Cardinality, Cardinality

LEMMA HaveIsDone == PickerInv => Have = Done
<1> SUFFICES ASSUME PickerInv PROVE Have = Done
  OBVIOUS
<1>1. pieces \ InProgress \in SUBSET Piece
  BY DEF PickerInv, PickerTypeOK
<1> QED
  BY <1>1, BlocksOfPieces DEF Have, Done

LEMMA NextHaveIsDone == PickerInv' => Have' = Done'
<1>1. (PickerInv => Have = Done)'
  BY HaveIsDone, PTL
<1> QED
  BY <1>1

\* Where the definitions of the pool are those of the download.
LEMMA PoolOf ==
  /\ Durable!Blocks = FileBlocks
  /\ Durable!LostBlocks = {b \in FileBlocks : b[1] = NumPieces - 1 /\ LastPieceIsLost}
  /\ Durable!Snapshot = [done |-> Done, verified |-> pieces \ InProgress]
  /\ Durable!Snapshot' = [done |-> Done', verified |-> pieces' \ InProgress']
  /\ UNCHANGED <<View, Mode, SnapshotOf(saving), unsaved, SnapshotOf(resume)>>
       => UNCHANGED Durable!durablePoolVars
<1>1. Durable!Blocks = FileBlocks
  BY DEF Durable!Blocks, FileBlocks
<1>2. NumPieces - 1 \in Piece
  BY PickerAssumption DEF Piece
<1>3. RealBlocks(NumPieces - 1) = {b \in FileBlocks : b[1] = NumPieces - 1}
  BY <1>2, RealBlocksAre, FileBlocksAre
<1>4. Durable!LostBlocks = IF LastPieceIsLost THEN RealBlocks(NumPieces - 1) ELSE {}
  BY DEF Durable!LostBlocks
<1> QED
  BY <1>1, <1>3, <1>4
     DEF Durable!Snapshot, Durable!durablePoolVars, Durable!poolVars, View, OwnersView, LostView,
         Mode, Done

\* A step that leaves the view of the picker alone.
LEMMA ViewSame ==
  ASSUME UNCHANGED pickerVars
  PROVE  UNCHANGED View
<1>1. InProgress' = InProgress
  BY DEF InProgress, pickerVars
<1> QED
  BY <1>1 DEF View, OwnersView, Done, LostView, LastPieceIsLost, FileBlocks, RealBlocks, pickerVars

LEMMA InitIsDurableInit == Init => Durable!DurableInit
<1> SUFFICES ASSUME Init PROVE Durable!DurableInit
  OBVIOUS
<1>1. /\ CreatePiecePicker /\ saving = EmptyRecord /\ resume = NoRecord /\ tpc = "loop"
      /\ unsaved = FALSE
  BY DEF Init
<1>2. /\ InProgress = {} /\ pieces = {} /\ finished = {} /\ requested = {}
      /\ blocksInLastPiece = LastPieceBlocks
  BY <1>1 DEF CreatePiecePicker, InProgress
<1>3. ~LastPieceIsLost
  BY <1>2, PickerAssumption DEF LastPieceIsLost
<1>4. Durable!Init
  BY <1>2, <1>3, PoolOf DEF Durable!Init
<1>5. SnapshotOf(saving) = {[done |-> {}, verified |-> {}]} /\ SnapshotOf(resume) = {}
  BY <1>1, EmptyRecordIs DEF SnapshotOf, Verified, EmptyRecord
<1>6. Done = {} /\ pieces \ InProgress = {}
  BY <1>2 DEF Done
<1>7. Mode = "running"
  BY <1>1 DEF Mode, Failing
<1> QED
  BY <1>1, <1>4, <1>5, <1>6, <1>7, PoolOf DEF Durable!DurableInit, Mode

\* A step that hands nothing out, takes nothing in, and saves nothing.
LEMMA StutterStep ==
  ASSUME IInv, UNCHANGED <<pickerVars, resume, saving, unsaved>>,
         tpc # "exited", tpc' # "exited"
  PROVE  \/ UNCHANGED Durable!durablePoolVars
         \/ ~Failing /\ Failing' /\ Durable!Fail
         \/ Failing /\ ~Failing'
<1>1. UNCHANGED View
  BY ViewSame
<1>2. UNCHANGED <<SnapshotOf(saving), SnapshotOf(resume)>>
  BY DEF SnapshotOf, Claims, Verified
<1>3. CASE Failing' = Failing
  BY <1>1, <1>2, <1>3, PoolOf DEF Mode
<1>4. CASE ~Failing /\ Failing'
  BY <1>1, <1>2, <1>4 DEF Durable!Fail, Durable!poolVars, View, OwnersView, LostView, Done
<1> QED
  BY <1>3, <1>4 DEF Failing

LEMMA OwnerStep ==
  ASSUME NEW peer \in Peer, NEW b \in Durable!Blocks,
         Durable!Return(peer, b) \/ Durable!Receive(peer, b)
  PROVE  Durable!DurableNext
BY DEF Durable!DurableNext

LEMMA AssignIsAssign ==
  ASSUME DurableInv, NEW c \in Peer, AssignBlocks(c)
  PROVE  Durable!Assign(c)
<1> DEFINE n == RequestSize
           S == Picked(n, c)
<1>1. /\ IInv /\ PickerInv /\ PickerTypeOK /\ n \in Nat /\ Speed[c] = Slow
      /\ PickPieces(n, c) /\ tpc = "assign" /\ tpc' = "loop"
  BY IInvParts, DownloadAssumption DEF DurableInv, PickerInv, AssignBlocks
<1>2. /\ requested' = requested \cup S /\ finished' = finished
      /\ \A b \in S : b \in FileBlocks /\ b \in Block /\ b \notin requested /\ b \notin finished
  BY <1>1, BlocksAreAssigned
<1>3. \A b \in S : b[1] = NumPieces - 1 => ~LastPieceIsLost
  BY <1>1, PickedExist
<1>4. UNCHANGED <<Done, pieces \ InProgress, LostView>>
  BY <1>1, PickKeepsView DEF LostView
\* None of them is there already: nothing that is handed out is verified.
<1>5. ASSUME NEW b \in S PROVE b \notin Done
  <2>1. b[1] \notin pieces \ InProgress
    <3>1. b \in FreeBlocks \/ b[1] \in Chosen(n, c)
      BY <1>1, PickFacts DEF PickerInv
    <3> QED
      BY <1>1, <3>1, PickFacts DEF FreeBlocks, PickerInv
  <2> QED
    BY <1>1, <1>2, <2>1, DoneIs
<1>6. /\ Cardinality(S) <= n
      /\ Cardinality(S) < n => S = Candidates(n, c) /\ IsFiniteSet(Candidates(n, c))
  BY <1>1, PickedCount
<1>7. ASSUME Cardinality(S) < n, NEW b \in FileBlocks, b \notin Done,
             b[1] = NumPieces - 1 => ~LastPieceIsLost, OwnersView[b] = {}
      PROVE  b \in S
  <2>1. b \in Block /\ b \notin finished /\ b[1] \notin pieces \ InProgress
    BY <1>1, <1>7, DoneIs, FileBlocksAre
  <2>2. b \notin requested
    BY <1>7, <2>1 DEF OwnersView
  <2> QED
    BY <1>1, <1>6, <1>7, <2>1, <2>2, IdleIsCandidate
<1>8. S \in SUBSET ((FileBlocks \ Done) \ Durable!LostBlocks)
  BY <1>2, <1>3, <1>5, PoolOf
<1>9. \A b \in S : OwnersView[b] = {}
  BY <1>2 DEF OwnersView
<1>10. Cardinality(S) < n => Durable!Idle \subseteq S
  <2>1. Durable!Idle = {b \in (FileBlocks \ Done) \ Durable!LostBlocks : OwnersView[b] = {}}
    BY PoolOf DEF Durable!Idle, OwnersView, Done
  <2> QED
    BY <1>7, <2>1, PoolOf
<1>11. OwnersView' = [b \in FileBlocks |-> IF b \in S THEN OwnersView[b] \cup {c}
                                                      ELSE OwnersView[b]]
  <2>1. lastDownloader' = [b \in Block |-> IF b \in S THEN c ELSE lastDownloader[b]]
    BY <1>1 DEF PickPieces
  <2>2. FileBlocks' = FileBlocks /\ FileBlocks \subseteq Block
    BY FileBlocksAre DEF FileBlocks, RealBlocks
  <2>3. \A b \in FileBlocks :
          (IF b \in requested' \ finished' THEN {lastDownloader'[b]} ELSE {})
            = IF b \in S THEN OwnersView[b] \cup {c} ELSE OwnersView[b]
    BY <1>2, <2>1, <2>2 DEF OwnersView
  <2> QED
    BY <2>2, <2>3 DEF OwnersView
<1> HIDE DEF S, n
<1>12. Durable!Request(c)
  BY <1>4, <1>6, <1>8, <1>9, <1>10, <1>11, PoolOf, SameCardinality
     DEF Durable!Request, n, OwnersView, Done, LostView
<1>13. UNCHANGED <<SnapshotOf(saving), unsaved, SnapshotOf(resume)>>
  <2>1. UNCHANGED <<saving, unsaved, resume>>
    BY DEF AssignBlocks, sessionVars, durableVars
  <2> QED
    BY <2>1 DEF SnapshotOf, Claims, Verified
<1>14. Mode = "running" /\ Mode' = "running"
  BY <1>1 DEF Mode, Failing
<1> QED
  BY <1>12, <1>13, <1>14 DEF Durable!Assign, Mode

LEMMA AbortIsReturn ==
  ASSUME DurableInv, NEW c \in Peer, NEW b \in Block, TakeAbort(c, b)
  PROVE  Durable!DurableNext \/ UNCHANGED Durable!durablePoolVars
<1>1. /\ IInv /\ PickerInv /\ PickerTypeOK /\ Given
      /\ tpc = "loop" /\ tpc' = tpc /\ UNCHANGED <<saving, unsaved, resume>>
  BY IInvParts DEF DurableInv, PickerInv, TakeAbort, transferVars, sessionVars, durableVars
<1>2. /\ InProgress' = InProgress /\ pieces' = pieces /\ finished' = finished
      /\ c \in Owners(b) /\ (b[1] \in InProgress => Counted(b))
      /\ b[1] \in InProgress => requested' = requested \ {b}
  BY <1>1, BlockIsReturned
<1>3. CASE b[1] \notin InProgress
  <2>1. UNCHANGED pickerVars
    BY <1>3 DEF TakeAbort, AbortBlock
  <2> QED
    BY <1>1, <2>1, StutterStep DEF Failing
<1>4. CASE b[1] \in InProgress
  <2>1. b \in requested /\ b \notin finished /\ lastDownloader[b] \in Peer
    BY <1>1, <1>2, <1>4 DEF Counted, Given
  <2> PICK peer \in Peer : peer = lastDownloader[b]
    BY <2>1
  <2>2. b \in FileBlocks
    BY <1>1, <1>2, IInvParts DEF Owing, UnderWay, Alive, Ended
  <2>3. /\ lastDownloader' = [lastDownloader EXCEPT ![b] = IF @ = c THEN NoPeer ELSE @]
        /\ UNCHANGED <<blocksInLastPiece, size>>
    BY <1>4, <2>1 DEF TakeAbort, AbortBlock
  <2>4. FileBlocks' = FileBlocks /\ FileBlocks \subseteq Block
    BY FileBlocksAre DEF FileBlocks, RealBlocks
  <2>5. OwnersView' = [OwnersView EXCEPT ![b] = @ \ {peer}]
    <3>1. \A d \in FileBlocks :
            (IF d \in requested' \ finished' THEN {lastDownloader'[d]} ELSE {})
              = IF d = b THEN OwnersView[d] \ {peer} ELSE OwnersView[d]
      BY <1>1, <1>2, <1>4, <2>1, <2>3, <2>4 DEF OwnersView, PickerTypeOK
    <3> QED
      BY <2>2, <2>4, <3>1 DEF OwnersView
  <2>6. peer \in OwnersView[b]
    BY <2>1, <2>2 DEF OwnersView
  <2>7. UNCHANGED <<Done, pieces \ InProgress, LostView>>
    BY <1>2, <2>3 DEF Done, RealBlocks, LostView, LastPieceIsLost
  <2>8. UNCHANGED <<SnapshotOf(saving), unsaved, SnapshotOf(resume)>>
    BY <1>1 DEF SnapshotOf, Claims, Verified
  <2>9. Mode = "running" /\ Mode' = "running"
    BY <1>1 DEF Mode, Failing
  <2>10. Durable!Return(peer, b)
    BY <2>5, <2>6, <2>7, <2>8, <2>9
       DEF Durable!Return, Durable!Release, OwnersView, Done, LostView, Mode
  <2>11. peer \in Peer /\ b \in Durable!Blocks
    BY <2>1, <2>2, PoolOf
  <2> QED
    BY <2>10, <2>11, OwnerStep
<1> QED
  BY <1>3, <1>4

LEMMA TakeIsReceive ==
  ASSUME DurableInv, TakeBlock
  PROVE  Durable!DurableNext \/ UNCHANGED Durable!durablePoolVars
<1>1. /\ IInv /\ PickerInv /\ PickerTypeOK /\ Given /\ Progress /\ finished \subseteq requested
      /\ tpc = "loop" /\ UNCHANGED <<saving, unsaved, resume>>
  BY IInvParts, InPieces DEF DurableInv, PickerInv, TakeBlock, sessionVars, durableVars
<1>2. CASE Stale(Head(dataChan).block)
  <2>1. UNCHANGED pickerVars /\ tpc' = tpc
    BY <1>2, StaleIsDropped
  <2> QED
    BY <1>1, <2>1, StutterStep DEF Failing
<1>3. CASE ~Stale(Head(dataChan).block)
  <2>1. PICK b \in Block : b = Head(dataChan).block
    BY <1>1, HeadIsOwed DEF TakeBlock
  <2>2. /\ b \in FileBlocks /\ b[1] \in InProgress /\ Counted(b)
        /\ finished' = finished \cup {b} /\ requested' = requested /\ pieces' = pieces
        /\ InProgress' = InProgress /\ tpc' = "save"
    BY <1>1, <1>3, <2>1, BlockIsTaken
  <2>3. FinishBlock(b)
    BY <2>1, <2>2 DEF TakeBlock, PanicWith
  <2>4. /\ lastDownloader' = [lastDownloader EXCEPT ![b] = NoPeer]
        /\ UNCHANGED <<blocksInLastPiece, size>>
    BY <2>2, <2>3 DEF FinishBlock
  <2>5. b \in requested /\ b \notin finished /\ lastDownloader[b] \in Peer
    BY <1>1, <2>2 DEF Counted, Given
  <2> PICK peer \in Peer : peer = lastDownloader[b]
    BY <2>5
  <2>6. FileBlocks' = FileBlocks /\ FileBlocks \subseteq Block
    BY FileBlocksAre DEF FileBlocks, RealBlocks
  <2>7. OwnersView' = [OwnersView EXCEPT ![b] = @ \ {peer}]
    <3>1. \A d \in FileBlocks :
            (IF d \in requested' \ finished' THEN {lastDownloader'[d]} ELSE {})
              = IF d = b THEN OwnersView[d] \ {peer} ELSE OwnersView[d]
      BY <1>1, <2>2, <2>4, <2>5, <2>6 DEF OwnersView, PickerTypeOK
    <3> QED
      BY <2>2, <2>6, <3>1 DEF OwnersView
  <2>8. peer \in OwnersView[b]
    BY <2>2, <2>5 DEF OwnersView
  <2>9. Done' = Done \cup {b} /\ UNCHANGED <<pieces \ InProgress, LostView>>
    BY <2>2, <2>4 DEF Done, RealBlocks, LostView, LastPieceIsLost
  <2>10. UNCHANGED <<SnapshotOf(saving), unsaved, SnapshotOf(resume)>>
    BY <1>1 DEF SnapshotOf, Claims, Verified
  <2>11. Mode = "running" /\ Mode' = "running"
    BY <1>1, <2>2 DEF Mode, Failing
  <2>12. ASSUME ~unsaved PROVE \A s \in Durable!Latest : Done \subseteq s.done
    <3>1. Done \subseteq Claims(LatestRecord) /\ LatestRecord # NoRecord
      BY <1>1, <2>12, HaveIsDone DEF Progress, LatestRecord
    <3>2. Durable!Latest = SnapshotOf(LatestRecord)
      BY DEF Durable!Latest, LatestRecord, SnapshotOf
    <3> QED
      BY <3>1, <3>2 DEF SnapshotOf
  <2>13. Durable!Receive(peer, b)
    BY <2>7, <2>8, <2>9, <2>10, <2>11, <2>12
       DEF Durable!Receive, Durable!Deliver, OwnersView, Done, LostView, Mode
  <2> QED
    BY <2>2, <2>13, OwnerStep, PoolOf
<1> QED
  BY <1>2, <1>3

LEMMA SendIsSave ==
  ASSUME DurableInv, SendResumeData
  PROVE  Durable!Save
<1>1. /\ IInv /\ PickerInv' /\ tpc = "save" /\ tpc' \in {"verify", "loop"}
      /\ saving = NoRecord /\ saving' = Record' /\ resume' = resume /\ unsaved' = FALSE
      /\ UNCHANGED pickerVars
  BY PickerStep, PickerAlone
     DEF DurableInv, SendResumeData, SessionIdle, durableVars, Next, TransferStep
<1>2. UNCHANGED View
  BY <1>1, ViewSame
<1>3. /\ saving' # NoRecord
      /\ Claims(saving') = Done' /\ Verified(saving') = pieces' \ InProgress'
  BY <1>1, NextRecordIs, NextHaveIsDone, NoRecordIsNone DEF Verified
<1>4. SnapshotOf(saving) = {} /\ SnapshotOf(saving)' = {Durable!Snapshot'}
  BY <1>1, <1>3, PoolOf DEF SnapshotOf, Claims, Verified
<1>5. Durable!Snapshot' = Durable!Snapshot
  BY <1>2, PoolOf DEF View
<1>6. UNCHANGED SnapshotOf(resume)
  BY <1>1 DEF SnapshotOf, Claims, Verified
<1>7. Mode = "running" /\ Mode' = "running"
  BY <1>1 DEF Mode, Failing
<1> QED
  BY <1>1, <1>2, <1>4, <1>5, <1>6, <1>7
     DEF Durable!Save, Durable!poolVars, View, OwnersView, Done, LostView, Mode

\* The piece that is checked leaves the picker: its blocks are there or given up, and
\* nothing changes for the others.
LEMMA CheckedView ==
  ASSUME DurableInv, VerifyPiece, NEW p \in Piece, p = current
  PROVE  /\ p \in InProgress /\ InProgress' = InProgress \ {p}
         /\ finished' = finished \ RealBlocks(p)
         /\ OwnersView' = [b \in FileBlocks |-> IF b \in RealBlocks(p) THEN {} ELSE OwnersView[b]]
         /\ UNCHANGED LostView
         /\ SnapshotOf(saving) = {} /\ SnapshotOf(saving)' = {Durable!Snapshot'}
         /\ unsaved' = FALSE /\ UNCHANGED SnapshotOf(resume)
<1>1. /\ IInv /\ PickerInv /\ PickerInv' /\ PickerTypeOK /\ Sized
      /\ finished \subseteq FileBlocks
  BY PickerStep, IInvParts, InPieces DEF DurableInv, PickerInv, Next, TransferStep
<1>2. /\ tpc = "verify" /\ tpc' = "complete"
      /\ p \in InProgress /\ InProgress' = InProgress \ {p}
      /\ requested' = {b \in requested : b[1] # p}
      /\ finished' = {b \in finished : b[1] # p}
      /\ pieces' \in {pieces, pieces \ {p}}
  BY <1>1, PieceIsVerified
<1>3. /\ p = NumPieces - 1 => blocksInLastPiece # 0
  BY <1>1, <1>2, PieceIsThere
<1>4. Forget(p)
  BY <1>2 DEF VerifyPiece, SetHave, RemoveDownloadingPiece
<1>5. /\ size' = [size EXCEPT ![p] = 0] /\ blocksInLastPiece' = blocksInLastPiece
      /\ lastDownloader' = [b \in Block |-> IF b[1] = p THEN NoPeer ELSE lastDownloader[b]]
  BY <1>4 DEF Forget
<1>6. FileBlocks' = FileBlocks /\ FileBlocks \subseteq Block
  BY FileBlocksAre DEF FileBlocks, RealBlocks
<1>7. \A b \in FileBlocks : b[1] = p <=> b \in RealBlocks(p)
  BY RealBlocksAre, FileBlocksAre
<1>8. finished' = finished \ RealBlocks(p)
  BY <1>1, <1>2, <1>7
<1>9. OwnersView' = [b \in FileBlocks |-> IF b \in RealBlocks(p) THEN {} ELSE OwnersView[b]]
  <2>1. \A b \in FileBlocks :
          (IF b \in requested' \ finished' THEN {lastDownloader'[b]} ELSE {})
            = IF b \in RealBlocks(p) THEN {} ELSE OwnersView[b]
    BY <1>2, <1>5, <1>6, <1>7 DEF OwnersView
  <2> QED
    BY <1>6, <2>1 DEF OwnersView
<1>10. LastPieceIsLost' <=> LastPieceIsLost
  <2>1. CASE p = NumPieces - 1
    BY <2>1, <1>3, <1>5 DEF LastPieceIsLost
  <2>2. CASE p # NumPieces - 1
    <3>1. NumPieces - 1 \in Piece
      BY PickerAssumption DEF Piece
    <3>2. size'[NumPieces - 1] = size[NumPieces - 1]
      BY <1>1, <1>5, <2>2, <3>1 DEF PickerTypeOK
    <3>3. NumPieces - 1 \in pieces' \ InProgress' <=> NumPieces - 1 \in pieces \ InProgress
      BY <1>2, <2>2
    <3> QED
      BY <1>5, <3>2, <3>3 DEF LastPieceIsLost
  <2> QED
    BY <2>1, <2>2
<1>11. saving = NoRecord /\ saving' = Record' /\ resume' = resume /\ unsaved' = FALSE
  BY DEF VerifyPiece, SessionIdle, durableVars
<1>12. /\ saving' # NoRecord
       /\ Claims(saving') = Done' /\ Verified(saving') = pieces' \ InProgress'
  BY <1>1, <1>11, NextRecordIs, NextHaveIsDone, NoRecordIsNone DEF Verified
<1>13. SnapshotOf(saving) = {} /\ SnapshotOf(saving)' = {Durable!Snapshot'}
  BY <1>11, <1>12, PoolOf DEF SnapshotOf, Claims, Verified
<1>14. UNCHANGED SnapshotOf(resume)
  BY <1>11 DEF SnapshotOf, Claims, Verified
<1> QED
  BY <1>2, <1>8, <1>9, <1>10, <1>11, <1>13, <1>14 DEF LostView

LEMMA VerifyIsAcceptOrGiveUp ==
  ASSUME DurableInv, VerifyPiece
  PROVE  Durable!DurableNext
<1>1. PICK p \in Piece : p = current
  BY IInvParts DEF DurableInv, TypeOK
<1>2. /\ p \in InProgress /\ InProgress' = InProgress \ {p}
      /\ finished' = finished \ RealBlocks(p)
      /\ OwnersView' = [b \in FileBlocks |-> IF b \in RealBlocks(p) THEN {} ELSE OwnersView[b]]
      /\ UNCHANGED LostView
      /\ SnapshotOf(saving) = {} /\ SnapshotOf(saving)' = {Durable!Snapshot'}
      /\ unsaved' = FALSE /\ UNCHANGED SnapshotOf(resume)
  BY <1>1, CheckedView
<1>3. /\ tpc = "verify" /\ tpc' = "complete" /\ current' = p
      /\ \/ pieces' = pieces /\ RealBlocks(p) \subseteq finished
         \/ pieces' = pieces \ {p}
  BY <1>1, PieceIsVerified DEF DurableInv
<1>4. p \in pieces /\ \A q \in Piece : q # p => RealBlocks(q) \cap RealBlocks(p) = {}
  BY <1>2, IInvParts, InPieces, RealBlocksAre DEF DurableInv
<1>5. \A q : RealBlocks(q)' = RealBlocks(q)
  BY DEF RealBlocks
<1>6. /\ Done' = finished' \cup UNION {RealBlocks(q) : q \in pieces' \ InProgress'}
      /\ Done = finished \cup UNION {RealBlocks(q) : q \in pieces \ InProgress}
      /\ pieces \subseteq Piece
  <2> HIDE DEF RealBlocks
  <2> QED
    BY <1>5, IInvParts, InPieces DEF Done, DurableInv
<1>7. CASE pieces' = pieces /\ RealBlocks(p) \subseteq finished
  <2>1. pieces' \ InProgress' = (pieces \ InProgress) \cup {p}
    BY <1>2, <1>4, <1>7
  <2> HIDE DEF RealBlocks
  <2>2. Done' = Done /\ RealBlocks(p) \subseteq Done
    BY <1>2, <1>6, <1>7, <2>1
  <2>3. OwnersView' = OwnersView
    <3>1. \A b \in FileBlocks : b \in RealBlocks(p) => OwnersView[b] = {}
      BY <1>7 DEF OwnersView
    <3>2. OwnersView = [b \in FileBlocks |-> OwnersView[b]]
      BY DEF OwnersView
    <3> QED
      BY <1>2, <3>1, <3>2
  <2>4. Mode = "running" /\ Mode' = "running"
    BY <1>3, <1>4, <1>7 DEF Mode, Failing
  <2>5. Durable!Accept(p)
    BY <1>2, <2>1, <2>2, <2>3, <2>4
       DEF Durable!Accept, Durable!Verify, OwnersView, Done, LostView, Mode
  <2> QED
    BY <2>5 DEF Durable!DurableNext
<1>8. CASE pieces' = pieces \ {p}
  <2>1. pieces' \ InProgress' = pieces \ InProgress
    BY <1>2, <1>8
  <2> HIDE DEF RealBlocks
  <2>2. Done' = Done \ RealBlocks(p)
    BY <1>2, <1>4, <1>6, <2>1
  <2>3. Mode = "running" /\ Mode' = "failing"
    BY <1>3, <1>8 DEF Mode, Failing
  <2>4. OwnersView' = [b \in Durable!Blocks |-> IF b \in RealBlocks(p) THEN {} ELSE OwnersView[b]]
    BY <1>2, PoolOf
  <2>5. Durable!GiveUp(p)
    BY <1>2, <2>1, <2>2, <2>3, <2>4
       DEF Durable!GiveUp, OwnersView, Done, LostView, Mode
  <2> QED
    BY <2>5 DEF Durable!DurableNext
<1> QED
  BY <1>3, <1>7, <1>8

LEMMA ExitIsExit ==
  ASSUME DurableInv, TransferExit
  PROVE  Durable!Exit
<1>1. /\ IInv /\ PickerInv /\ Progress /\ VerifiedIsSaved
      /\ tpc = "loop" /\ tpc' = "exited" /\ saving = NoRecord
      /\ UNCHANGED <<saving, unsaved, resume>> /\ UNCHANGED pickerVars
  BY IInvParts DEF DurableInv, TransferExit, SessionIdle, sessionVars, durableVars
<1>2. UNCHANGED <<View, SnapshotOf(saving), SnapshotOf(resume)>>
  BY <1>1, ViewSame DEF SnapshotOf, Claims, Verified
<1>3. ~unsaved => resume # NoRecord /\ Claims(resume) = Done
  BY <1>1, HaveIsDone DEF Progress, KeptBy, Failing
<1>4. SnapshotOf(saving) = {} /\ (~unsaved => SnapshotOf(resume) = {Durable!Snapshot})
  BY <1>1, <1>3, PoolOf DEF SnapshotOf, VerifiedIsSaved, LatestRecord
<1>5. Mode = "running" /\ Mode' = "exited"
  BY <1>1 DEF Mode, Failing
<1> QED
  BY <1>1, <1>2, <1>4, <1>5
     DEF Durable!Exit, Durable!poolVars, View, OwnersView, Done, LostView, Mode

LEMMA SaveIsWrite ==
  ASSUME DurableInv, SaveResumeData
  PROVE  Durable!Write
<1>1. /\ UNCHANGED pickerVars /\ UNCHANGED <<tpc, current>>
      /\ saving # NoRecord /\ resume' = saving /\ saving' = NoRecord /\ unsaved' = unsaved
  BY DEF SaveResumeData, transferVars
<1>2. UNCHANGED <<View, Mode>>
  BY <1>1, ViewSame DEF Mode, Failing, pickerVars
<1>3. /\ SnapshotOf(saving) # {} /\ SnapshotOf(saving)' = {}
      /\ SnapshotOf(resume)' = SnapshotOf(saving)
  BY <1>1 DEF SnapshotOf, Claims, Verified
<1> QED
  BY <1>1, <1>2, <1>3 DEF Durable!Write, Durable!poolVars, View, OwnersView, Done, LostView, Mode

LEMMA SaveFailsIsWriteFails ==
  ASSUME DurableInv, SaveFails
  PROVE  Durable!WriteFails
<1>1. /\ UNCHANGED pickerVars /\ UNCHANGED <<tpc, current, resume>>
      /\ saving # NoRecord /\ saving' = NoRecord /\ unsaved' = TRUE
  BY DEF SaveFails, transferVars, durableVars
<1>2. UNCHANGED <<View, Mode>>
  BY <1>1, ViewSame DEF Mode, Failing, pickerVars
<1>3. /\ SnapshotOf(saving) # {} /\ SnapshotOf(saving)' = {}
      /\ SnapshotOf(resume)' = SnapshotOf(resume)
  BY <1>1 DEF SnapshotOf, Claims, Verified
<1> QED
  BY <1>1, <1>2, <1>3 DEF Durable!WriteFails, Durable!poolVars, View, OwnersView, Done, LostView, Mode

LEMMA StartIsRestart ==
  ASSUME DurableInv, Crash \/ Restart
  PROVE  Durable!Restart
<1>1. /\ tpc' = "loop" /\ PickerInv' /\ requested' = finished' /\ NewProcess
      /\ \/ /\ resume' = NoRecord /\ resume = NoRecord /\ saving' = EmptyRecord
            /\ pieces' = {} /\ InProgress' = {} /\ Have' = {}
         \/ /\ resume' # NoRecord /\ saving' = NoRecord
            /\ resume' = resume \/ (saving # NoRecord /\ resume' = saving)
            /\ Have' = Claims(resume')
            /\ pieces' \ InProgress' = Verified(resume')
  BY ProcessStarts DEF DurableInv
<1>2. Done' = Have'
  BY <1>1, NextHaveIsDone
<1>3. OwnersView' = [b \in Durable!Blocks |-> {}]
  <2>1. FileBlocks' = FileBlocks
    BY DEF FileBlocks, RealBlocks
  <2>2. \A b \in FileBlocks : (IF b \in requested' \ finished' THEN {lastDownloader'[b]} ELSE {}) = {}
    BY <1>1
  <2> QED
    BY <2>1, <2>2, PoolOf DEF OwnersView
<1>4. /\ LostView' \subseteq {NumPieces - 1}
      /\ NumPieces - 1 \in LostView' =>
           /\ NumPieces - 1 \notin pieces' \ InProgress'
           /\ RealBlocks(NumPieces - 1) \cap Done' = {}
  <2>1. (PickerInv /\ LastPieceIsLost =>
           /\ NumPieces - 1 \notin pieces \ InProgress
           /\ RealBlocks(NumPieces - 1) \cap Done = {})'
    BY LostHasNothing, PTL
  <2>2. RealBlocks(NumPieces - 1)' = RealBlocks(NumPieces - 1)
    BY DEF RealBlocks
  <2> QED
    BY <1>1, <2>1, <2>2 DEF LostView
<1>5. Mode' = "running"
  BY <1>1 DEF Mode, Failing
<1>6. SnapshotOf(resume)' \in {SnapshotOf(resume), Durable!Latest}
  <2>1. resume' = resume => SnapshotOf(resume)' = SnapshotOf(resume)
    BY DEF SnapshotOf, Claims, Verified
  <2>2. saving # NoRecord /\ resume' = saving => SnapshotOf(resume)' = Durable!Latest
    BY DEF SnapshotOf, Claims, Verified, Durable!Latest
  <2> QED
    BY <1>1, <2>1, <2>2
<1>7. \/ /\ SnapshotOf(resume)' = {} /\ Done' = {} /\ pieces' \ InProgress' = {}
         /\ SnapshotOf(saving)' = {Durable!Snapshot'}
      \/ SnapshotOf(resume)' = {Durable!Snapshot'} /\ SnapshotOf(saving)' = {}
  <2>1. CASE resume' = NoRecord
    <3>1. Done' = {} /\ pieces' \ InProgress' = {} /\ saving' = EmptyRecord
      BY <1>1, <1>2, <2>1
    <3>2. Claims(saving') = {} /\ Verified(saving') = {} /\ saving' # NoRecord
      BY <3>1, EmptyRecordIs DEF Verified, EmptyRecord
    <3> QED
      BY <2>1, <3>1, <3>2, PoolOf DEF SnapshotOf, Claims, Verified
  <2>2. CASE resume' # NoRecord
    <3>1. /\ saving' = NoRecord
          /\ Claims(resume') = Done' /\ Verified(resume') = pieces' \ InProgress'
      BY <1>1, <1>2, <2>2
    <3> QED
      BY <2>2, <3>1, PoolOf DEF SnapshotOf, Claims, Verified
  <2> QED
    BY <2>1, <2>2
<1>8. unsaved' = FALSE
  BY <1>1 DEF NewProcess
<1> QED
  BY <1>3, <1>4, <1>5, <1>6, <1>7, <1>8
     DEF Durable!Restart, OwnersView, Done, LostView, Mode

LEMMA StepIsDurableStep ==
  DurableInv /\ [Next]_vars => [Durable!DurableNext]_(Durable!durablePoolVars)
<1> SUFFICES ASSUME DurableInv, [Next]_vars
             PROVE  Durable!DurableNext \/ UNCHANGED Durable!durablePoolVars
  OBVIOUS
<1>1. IInv /\ AtCheck
  BY IInvParts DEF DurableInv
<1>2. CASE Quiet \/ Panics \/ CompletePiece \/ TakeBlockWriteFails
  <2>1. UNCHANGED <<pickerVars, resume, saving, unsaved>>
    BY <1>1, <1>2, PickerAlone
       DEF Quiet, Panics, Content, CompletePiece, TakeBlockWriteFails, sessionVars, durableVars
  <2>2. (tpc = "exited" <=> tpc' = "exited") /\ (Failing => Failing')
    <3>1. Quiet => \/ tpc = tpc' /\ current' = current /\ pieces' = pieces
                   \/ tpc # "exited" /\ tpc' # "exited" /\ ~Failing
      BY DEF Quiet, SamePoint, Content, pickerVars, Failing
    <3>2. Panics => tpc # "exited" /\ tpc' = "panicked"
      BY DEF Panics, Alive, Ended
    <3>3. CompletePiece => tpc = "complete" /\ tpc' = "loop" /\ ~Failing
      BY <1>1, PieceIsComplete DEF Failing
    <3>4. TakeBlockWriteFails => tpc = "loop" /\ tpc' = "report" /\ ~Failing
      BY DEF TakeBlockWriteFails, Failing
    <3> QED
      BY <1>2, <3>1, <3>2, <3>3, <3>4 DEF Failing
  <2>3. CASE tpc # "exited"
    BY <1>1, <2>1, <2>2, <2>3, StutterStep DEF Durable!DurableNext
  <2>4. CASE tpc = "exited"
    <3>1. UNCHANGED <<View, Mode, SnapshotOf(saving), unsaved, SnapshotOf(resume)>>
      BY <2>1, <2>2, <2>4, ViewSame DEF Mode, SnapshotOf, Claims, Verified
    <3> QED
      BY <3>1, PoolOf
  <2> QED
    BY <2>3, <2>4
<1>3. SendResumeData => Durable!DurableNext
  BY SendIsSave DEF Durable!DurableNext
<1>4. TransferExit => Durable!DurableNext
  BY ExitIsExit DEF Durable!DurableNext
<1>5. SaveResumeData => Durable!DurableNext
  BY SaveIsWrite DEF Durable!DurableNext
<1>8. SaveFails => Durable!DurableNext
  BY SaveFailsIsWriteFails DEF Durable!DurableNext
<1>6. Crash \/ Restart => Durable!DurableNext
  BY StartIsRestart DEF Durable!DurableNext
<1>7. ASSUME NEW c \in Peer, AssignBlocks(c) PROVE Durable!DurableNext
  BY <1>7, AssignIsAssign DEF Durable!DurableNext
<1> QED
  BY <1>2, <1>3, <1>4, <1>5, <1>6, <1>7, <1>8, StepKinds, VerifyIsAcceptOrGiveUp, TakeIsReceive,
     AbortIsReturn

\* Whatever crashes, fails and comes late: what was delivered is not asked for again, no
\* free block is left behind, what was verified is handed over to be saved in the same
\* step, only a process that ends gives up a piece, and, unless the last write of the
\* resume file failed, at most one block is not handed over and a process that exits has
\* saved all (transfer.go:96-249, session.go:592-611).
THEOREM DownloadImplementsDurablePool == Spec => ImplementsDurablePool
<1>1. Init => Durable!DurableInit
  BY InitIsDurableInit
<1>2. DurableInv /\ [Next]_vars => [Durable!DurableNext]_(Durable!durablePoolVars)
  BY StepIsDurableStep
<1> QED
  BY <1>1, <1>2, DurableInvHolds, PTL DEF Spec, ImplementsDurablePool, Durable!DurableSpec
=============================================================================
