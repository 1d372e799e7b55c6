------------------------------ MODULE Download ------------------------------
(***************************************************************************)
(* The download of one file: the transfer goroutine (transfer.go), the     *)
(* peer connection goroutines (peer_connection.go), and what the session   *)
(* goroutine does for them (session.go): it starts connections, forgets    *)
(* them and writes the resume file.  The picker is PiecePicker.            *)
(*                                                                         *)
(* Goroutines meet on unbuffered channels, so a send is a joint step of    *)
(* sender and receiver, taken when the receiver is back in its select; the *)
(* one buffered channel is dataChan.  The session is away from its select  *)
(* only while it writes the resume file (saving # NoRecord).               *)
(*                                                                         *)
(* The read loop of a connection keeps no state: it takes any packet at    *)
(* any time.  Where a connection is in the conversation is what its peer   *)
(* was asked last; a peer that strays from it, or sends a hash set without *)
(* the hash of every piece, is one of the faults.                          *)
(*                                                                         *)
(* A panic of any goroutine ends the process.  A process that ended is     *)
(* started again and restores the transfer from its resume file.           *)
(***************************************************************************)
EXTENDS PiecePicker

CONSTANTS
  RequestSize,   \* proto.REQUEST_QUEUE_SIZE, 3 in the program
  DataChanCap,   \* capacity of dataChan, 10 in the program
  BigFile,       \* Size >= PIECE_SIZE: the hash set is asked from the peer
  NoRecord,      \* no resume data
  Faults,        \* what may happen: a "crash" that is no panic, a connection that
                 \* is lost or refused ("drop"), a file operation that fails ("io"),
                 \* a block with wrong data ("bad"), a packet out of its turn or a
                 \* hash set that is too short ("stray"), the user's command "stop"
  MaxFaults      \* bound on how many of them, of any kind

\* AddTransferParameters: the bits of the pieces and, for each piece that is being
\* downloaded, a bit field of its blocks and the length of that bit field.
RecordsOf(D) == [pieces : SUBSET Piece, blocks : [D -> SUBSET Block],
                 size : [D -> 0..BlocksPerPiece]]

Records == UNION {RecordsOf(D) : D \in SUBSET Piece}

ASSUME DownloadAssumption ==
  /\ RequestSize \in Nat \ {0}
  /\ DataChanCap \in Nat \ {0}
  /\ BigFile \in BOOLEAN
  /\ NumPieces > 1 => BigFile
  /\ Faults \subseteq {"crash", "drop", "io", "bad", "stray", "stop"}
  /\ MaxFaults \in Nat
  /\ \A p \in Peer : Speed[p] = Slow   \* no code assigns Peer.Speed
  /\ \A D \in SUBSET Piece : NoRecord \notin RecordsOf(D)

VARIABLES
  \* the transfer goroutine
  tpc,          \* where it is
  current,      \* pb.block.PieceIndex of the block in hand, 0 when there is none
  assignee,     \* the connection received from peerConnChan
  dataChan,     \* received blocks, [block, good]
  incoming,     \* keys of incomingPieces
  received,     \* blocks in the ReceivingPieces
  wrong,        \* those of them whose data is wrong
  hashSet,      \* how many PieceHashes the hash set has, or NilHashSet
  lastError,    \* lastError # nil
  announced,    \* Finished: the session was sent transferChanFinished
  panic,        \* the message of the panic that ended the process
  \* the peer connection of each peer
  cpc,          \* where its goroutine is
  held,         \* requestedBlocks
  toAbort,      \* what unregister still has to send
  closed,       \* Close was called on the socket
  sending,      \* the block it is about to send to dataChan, [block, good], or none
  strayed,      \* for the properties: a peer strayed in this process
  \* the session
  stopping,     \* stopped
  closing,      \* connections whose Close, in a goroutine, is to run
  saving,       \* the resume data it is writing
  unsaved,      \* for the properties: it could not write what it was sent last
  \* durable
  resume,       \* the resume file
  disk,         \* the downloaded file: "none", "good" or "bad" data
  faults        \* how many Faults happened

transferVars == <<tpc, current, assignee, dataChan, incoming, received, wrong,
                  hashSet, lastError, announced, panic>>
connVars     == <<cpc, held, toAbort, closed, sending, strayed>>
sessionVars  == <<stopping, closing, saving, unsaved>>
durableVars  == <<resume, disk>>
vars == <<pickerVars, transferVars, connVars, sessionVars, durableVars, faults>>

Reading   == {"hello", "filename", "status", "hashset", "upload", "parts"}
Connected == Reading \cup {"offerHash", "offerShort", "offerReady", "offerBlock", "leaving"}
Ended     == {"panicked", "exited"}
Alive     == tpc \notin Ended
\* Mutant: the transfer does not wait for the session to have saved.
SessionNeverBusy == Alive

SessionIdle == Alive /\ saving = NoRecord

NilHashSet == -1

Fault(kind) ==
  /\ kind \in Faults
  /\ faults < MaxFaults
  /\ faults' = faults + 1

InPiece(S, p) == {b \in S : b[1] = p}

\* The AddTransferParameters the transfer sends to the session.
Record == [pieces |-> pieces, blocks |-> DownloadedBlocks,
           size |-> [p \in InProgress |-> size[p]]]

WantMoreData(rec) == rec.pieces # Piece \/ DOMAIN rec.blocks # {}

PanicWith(message) ==
  /\ tpc' = "panicked"
  /\ panic' = message

----------------------------------------------------------------------------
(* The transfer goroutine.                                                  *)

TakeHashSet(c) ==
  /\ tpc = "loop"
  /\ \/ cpc[c] = "offerHash" /\ hashSet' = NumPieces
     \/ cpc[c] = "offerShort" /\ hashSet' \in 0..(NumPieces - 1)
  /\ cpc' = [cpc EXCEPT ![c] = "upload"]   \* it sends OP_STARTUPLOADREQ
  /\ UNCHANGED <<pickerVars, tpc, current, assignee, dataChan, incoming, received,
                 wrong, lastError, announced, panic, held, toAbort, closed, sending,
                 strayed, sessionVars, durableVars, faults>>

TakeAbort(c, b) ==
  /\ tpc = "loop"
  /\ cpc[c] = "leaving"
  /\ b \in toAbort[c]
  /\ AbortBlock(b, c)
  /\ toAbort' = [toAbort EXCEPT ![c] = @ \ {b}]
  /\ UNCHANGED <<transferVars, cpc, held, closed, sending, strayed, sessionVars,
                 durableVars, faults>>

\* The piece was removed, or its ReceivingPiece has the block already.
Stale(b) == b[1] \notin incoming \/ b \in received

InsertBlock(b, good) ==
  /\ received' = received \cup {b}
  /\ wrong' = IF good THEN wrong ELSE wrong \cup {b}

DataOf(good) == IF good THEN "good" ELSE "bad"

\* Seek, Write or Sync fails: the block stays in its ReceivingPiece, and nothing,
\* part of it or all of it is in the file.
TakeBlockWriteFails ==
  /\ tpc = "loop"
  /\ dataChan # <<>>
  /\ Fault("io")
  /\ LET b == Head(dataChan).block
         good == Head(dataChan).good
     IN  /\ ~Stale(b)
         /\ InsertBlock(b, good)
         /\ \E d \in {disk[b], "bad", DataOf(good)} : disk' = [disk EXCEPT ![b] = d]
  /\ lastError' = TRUE
  /\ tpc' = "report"
  /\ dataChan' = Tail(dataChan)
  /\ UNCHANGED <<pickerVars, current, assignee, incoming, hashSet, announced,
                 panic, connVars, sessionVars, resume>>

\* The session takes the error from transferChanError.
ReportError ==
  /\ tpc = "report"
  /\ SessionIdle
  /\ tpc' = "loop"
  /\ UNCHANGED <<pickerVars, current, assignee, dataChan, incoming, received, wrong,
                 hashSet, lastError, announced, panic, connVars, sessionVars,
                 durableVars, faults>>

TakeBlock ==
  /\ tpc = "loop"
  /\ dataChan # <<>>
  /\ LET b == Head(dataChan).block
         good == Head(dataChan).good
     IN IF Stale(b)
        THEN UNCHANGED <<pickerVars, tpc, current, received, wrong, panic, disk>>
        ELSE /\ InsertBlock(b, good)
             /\ disk' = [disk EXCEPT ![b] = DataOf(good)]
             /\ current' = b[1]
             /\ IF FinishPanics(b)
                THEN PanicWith("finish not requested block") /\ UNCHANGED pickerVars
                ELSE FinishBlock(b) /\ tpc' = "save" /\ UNCHANGED panic
  /\ dataChan' = Tail(dataChan)
  /\ UNCHANGED <<assignee, incoming, hashSet, lastError, announced, connVars,
                 sessionVars, resume, faults>>

\* The resume data goes out; the piece is complete when its ReceivingPiece
\* has as many blocks as the picker counts for it.
SendResumeData ==
  /\ tpc = "save"
  /\ SessionIdle
  /\ saving' = Record /\ unsaved' = FALSE
  /\ IF Cardinality(InPiece(received, current)) = BlocksInPiece(current)
     THEN tpc' = "verify" /\ UNCHANGED current
     ELSE tpc' = "loop" /\ current' = 0
  /\ UNCHANGED <<pickerVars, assignee, dataChan, incoming, received, wrong,
                 hashSet, lastError, announced, panic, connVars, stopping, closing,
                 durableVars, faults>>

HashMatches(p) == InPiece(wrong, p) = {}

\* The check of the hash, up to the second send of resume data.
VerifyPiece ==
  /\ tpc = "verify"
  /\ current < hashSet
  /\ HashMatches(current) => ~SetHavePanics(current)
  /\ SessionIdle
  /\ IF HashMatches(current) THEN SetHave(current) ELSE RemoveDownloadingPiece(current)
  /\ saving' = Record' /\ unsaved' = FALSE
  /\ tpc' = "complete"
  /\ UNCHANGED <<current, assignee, dataChan, incoming, received, wrong, hashSet,
                 lastError, announced, panic, connVars, stopping, closing, durableVars, faults>>

VerifyPanics ==
  /\ tpc = "verify"
  /\ \/ hashSet = NilHashSet /\ PanicWith("hash set is nil")
     \/ hashSet # NilHashSet /\ hashSet <= current /\ PanicWith("index out of range")
     \/ /\ current < hashSet
        /\ HashMatches(current) /\ SetHavePanics(current)
        /\ PanicWith("not all downloading blocks are finished")
  /\ UNCHANGED <<pickerVars, current, assignee, dataChan, incoming, received, wrong,
                 hashSet, lastError, announced, connVars, sessionVars, durableVars,
                 faults>>

\* The rest of the handler: SetHave, whatever the hash said, and the
\* announcement, upon which the session closes the transfer's connections.
CompletePiece ==
  /\ tpc = "complete"
  /\ ~SetHavePanics(current)
  /\ SetHave(current)
  /\ incoming' = incoming \ {current}
  /\ received' = received \ InPiece(received, current)
  /\ wrong' = wrong \ InPiece(wrong, current)
  /\ tpc' = "loop"
  /\ current' = 0
  /\ IF ~IsFinished /\ IsFinished'
     THEN /\ SessionIdle
          /\ announced' = TRUE
          /\ closed' = [c \in Peer |-> closed[c] \/ cpc[c] \in Connected]
     ELSE UNCHANGED <<announced, closed>>
  /\ UNCHANGED <<assignee, dataChan, hashSet, lastError, panic, cpc, held,
                 toAbort, sending, strayed, sessionVars, durableVars, faults>>

CompletePanics ==
  /\ tpc = "complete"
  /\ SetHavePanics(current)
  /\ PanicWith("set have to already finished piece")
  /\ UNCHANGED <<pickerVars, current, assignee, dataChan, incoming, received, wrong,
                 hashSet, lastError, announced, connVars, sessionVars, durableVars,
                 faults>>

\* peerConnChan: the connection goes back to reading at once.
TakeReady(c) ==
  /\ tpc = "loop"
  /\ cpc[c] = "offerReady"
  /\ cpc' = [cpc EXCEPT ![c] = "parts"]
  /\ tpc' = "assign"
  /\ assignee' = c
  /\ UNCHANGED <<pickerVars, current, dataChan, incoming, received, wrong, hashSet,
                 lastError, announced, panic, held, toAbort, closed, sending, strayed,
                 sessionVars, durableVars, faults>>

\* The transfer refuses a connection after an error.
RefusePeer(c) ==
  /\ tpc = "assign" /\ assignee = c
  /\ lastError
  /\ closed' = [closed EXCEPT ![c] = cpc[c] \in Connected]
  /\ tpc' = "loop"
  /\ assignee' = NoPeer
  /\ UNCHANGED <<pickerVars, current, dataChan, incoming, received, wrong,
                 hashSet, lastError, announced, panic, cpc, held, toAbort, sending,
                 strayed, sessionVars, durableVars, faults>>

\* The requested blocks are appended to the connection and asked from the
\* peer; a connection that gets none is closed.
AssignBlocks(c) ==
  /\ tpc = "assign" /\ assignee = c
  /\ ~lastError
  /\ cpc[c] # "off"
  /\ PickPieces(RequestSize, c)
  /\ LET picked == Picked(RequestSize, c)
     IN /\ held' = [held EXCEPT ![c] = @ \cup picked]
        /\ incoming' = incoming \cup {b[1] : b \in picked}
        /\ closed' = [closed EXCEPT ![c] = @ \/ picked = {}]
  /\ tpc' = "loop"
  /\ assignee' = NoPeer
  /\ UNCHANGED <<current, dataChan, received, wrong, hashSet, lastError,
                 announced, panic, cpc, toAbort, sending, strayed, sessionVars, durableVars,
                 faults>>

\* The session has set the connection's peer and transfer to nil meanwhile.
AssignPanics(c) ==
  /\ tpc = "assign" /\ assignee = c
  /\ ~lastError
  /\ cpc[c] = "off"
  /\ PanicWith("nil peer")
  /\ UNCHANGED <<pickerVars, current, assignee, dataChan, incoming, received, wrong,
                 hashSet, lastError, announced, connVars, sessionVars, durableVars,
                 faults>>

\* Mutant: connections that are closing are forgotten.
NoConnectionReads == \A c \in Peer : cpc[c] \notin Reading

NoConnections == \A c \in Peer : cpc[c] = "off"

\* cmdChan is closed when the stopped session has no connection left.
TransferExit ==
  /\ tpc = "loop"
  /\ stopping /\ SessionIdle
  /\ NoConnections
  /\ tpc' = "exited"
  /\ UNCHANGED <<pickerVars, current, assignee, dataChan, incoming, received, wrong,
                 hashSet, lastError, announced, panic, connVars, sessionVars,
                 durableVars, faults>>

----------------------------------------------------------------------------
(* The connection of peer c.                                                *)

ConnStep(c, from, to) ==
  /\ cpc[c] = from
  /\ cpc' = [cpc EXCEPT ![c] = to]
  /\ UNCHANGED <<pickerVars, transferVars, held, toAbort, closed, sending, sessionVars,
                 durableVars>>

\* The session's tick finds the peer a candidate (WantMorePeers).  Back-off
\* and FailCount are left out; the wait for the second connection of a peer is
\* long enough for the transfer to be done with the first.
Connect(c) ==
  /\ SessionIdle /\ ~stopping /\ ~announced
  /\ lastError => tpc = "report"   \* the session has not heard of it
  /\ ~(tpc = "assign" /\ assignee = c)
  /\ ConnStep(c, "off", "dialing")
  /\ UNCHANGED <<strayed, faults>>

\* net.Dial succeeds and the session registers the connection; Hello is sent.
Register(c) ==
  /\ SessionIdle
  /\ ConnStep(c, "dialing", "hello")
  /\ UNCHANGED <<strayed, faults>>

\* The packet that the peer was asked for.
Answer(c, from, to) ==
  Alive /\ ~closed[c] /\ ConnStep(c, from, to) /\ UNCHANGED <<strayed, faults>>

\* One that it was not asked for, and which the read loop takes all the same.
Stray(c, from, to) ==
  /\ Alive /\ ~closed[c]
  /\ \E place \in Reading \ {from} : ConnStep(c, place, to)
  /\ strayed' = TRUE /\ Fault("stray")

\* Out of their turn these two have the next request sent and change nothing.
HelloAnswer(c)       == Answer(c, "hello", "filename")
ReqFilenameAnswer(c) == Answer(c, "filename", "status")

\* So has this one for a big file; for a small one it gives the hash set.
\* Mutant: the upload is asked for without the hash set.
FileStatusSkipsHashSet(c) == Answer(c, "status", "upload")
FileStatus(c) ==
  \/ Answer(c, "status", IF BigFile THEN "hashset" ELSE "offerHash")
  \/ ~BigFile /\ Stray(c, "status", "offerHash")

\* A hash set may also have too few hashes, which is not noticed here.
HashSetAnswer(c) ==
  \/ Answer(c, "hashset", "offerHash")
  \/ Stray(c, "hashset", "offerHash")
  \/ Stray(c, "none", "offerShort")

AcceptUploadReq(c) == Answer(c, "upload", "offerReady") \/ Stray(c, "upload", "offerReady")

\* The last part of block b arrives, whatever else was said, and the connection
\* goes to send the block to the transfer.
SendingPart(c, b, good) ==
  /\ Alive /\ ~closed[c]
  /\ cpc[c] \in Reading
  /\ b \in held[c]
  /\ IF good THEN UNCHANGED faults ELSE Fault("bad")
  /\ sending' = [sending EXCEPT ![c] = {[block |-> b, good |-> good]}]
  /\ cpc' = [cpc EXCEPT ![c] = "offerBlock"]
  /\ UNCHANGED <<pickerVars, transferVars, held, toAbort, closed, strayed, sessionVars,
                 durableVars>>

\* With nothing left to receive the connection offers itself again.
AfterBlock(c, b) == IF held[c] = {b} THEN "offerReady" ELSE "parts"

\* dataChan has room for the block; until then the connection reads nothing,
\* not even that it was closed.
HandOver(c) ==
  /\ Alive
  /\ cpc[c] = "offerBlock"
  /\ Len(dataChan) < DataChanCap
  /\ \E x \in sending[c] :
       /\ dataChan' = Append(dataChan, x)
       /\ held' = [held EXCEPT ![c] = @ \ {x.block}]
       /\ cpc' = [cpc EXCEPT ![c] = AfterBlock(c, x.block)]
  /\ sending' = [sending EXCEPT ![c] = {}]
  /\ UNCHANGED <<pickerVars, tpc, current, assignee, incoming, received, wrong, hashSet,
                 lastError, announced, panic, toAbort, closed, strayed, sessionVars,
                 durableVars, faults>>

\* unregister walks the slice it finds when the read loop ends.
Leave(c) ==
  /\ cpc' = [cpc EXCEPT ![c] = "leaving"]
  /\ toAbort' = [toAbort EXCEPT ![c] = held[c]]
  /\ held' = [held EXCEPT ![c] = {}]
  /\ closing' = closing \ {c}
  /\ UNCHANGED <<pickerVars, transferVars, closed, sending, strayed, stopping, saving,
                 unsaved, durableVars>>

\* The dial fails, the peer goes away, or it sends a queue ranking, out of
\* parts, no file or end of download: the read loop ends with an error.
Drop(c) ==
  /\ Alive
  /\ cpc[c] \in Reading \cup {"dialing"}
  /\ Fault("drop")
  /\ Leave(c)

\* The next read of a closed socket fails.
ReadClosed(c) ==
  /\ Alive
  /\ cpc[c] \in Reading
  /\ closed[c]
  /\ Leave(c)
  /\ UNCHANGED faults

\* The session forgets the connection and sets its peer to nil.
Unregister(c) ==
  /\ SessionIdle
  /\ cpc[c] = "leaving"
  /\ toAbort[c] = {}
  /\ cpc' = [cpc EXCEPT ![c] = "off"]
  /\ held' = [held EXCEPT ![c] = {}]
  /\ closed' = [closed EXCEPT ![c] = FALSE]
  /\ UNCHANGED <<pickerVars, transferVars, toAbort, sending, strayed, sessionVars,
                 durableVars, faults>>

----------------------------------------------------------------------------
(* The session.                                                             *)

\* saveResumeData: one write of the whole file, which may fail.
SaveResumeData ==
  /\ Alive
  /\ saving # NoRecord
  /\ resume' = saving
  /\ saving' = NoRecord
  /\ UNCHANGED <<pickerVars, transferVars, connVars, stopping, closing, unsaved, disk,
                 faults>>

\* The file cannot be opened or written: that is logged, and the session goes on.
SaveFails ==
  /\ Alive
  /\ saving # NoRecord
  /\ Fault("io")
  /\ saving' = NoRecord /\ unsaved' = TRUE
  /\ UNCHANGED <<pickerVars, transferVars, connVars, stopping, closing, durableVars>>

\* The stop command; each Close that has an effect runs in a goroutine.
StopCommand ==
  /\ Fault("stop")
  /\ SessionIdle /\ ~stopping
  /\ stopping' = TRUE
  /\ closing' = {c \in Peer : cpc[c] \notin {"off", "leaving"} /\ ~closed[c]}
  /\ UNCHANGED <<pickerVars, transferVars, connVars, saving, unsaved, durableVars>>

\* Close only marks a connection that is still dialing, and the mark does
\* nothing when it registers.
RunClose(c) ==
  /\ Alive
  /\ c \in closing
  /\ closing' = closing \ {c}
  /\ closed' = [closed EXCEPT ![c] = @ \/ cpc[c] \in Connected]
  /\ UNCHANGED <<pickerVars, transferVars, cpc, held, toAbort, sending, strayed, stopping,
                 saving, unsaved, durableVars, faults>>

----------------------------------------------------------------------------
(* The process starts: Transfer.Start with the resume data rec, or with nil; *)
(* spent is 1 when a crash, which counts as a fault, was the reason.         *)

NewProcess ==
  /\ cpc' = [c \in Peer |-> "off"]
  /\ held' = [c \in Peer |-> {}]
  /\ toAbort' = [c \in Peer |-> {}]
  /\ closed' = [c \in Peer |-> FALSE]
  /\ sending' = [c \in Peer |-> {}]
  /\ strayed' = FALSE
  /\ stopping' = FALSE /\ closing' = {} /\ unsaved' = FALSE
  /\ current' = 0
  /\ assignee' = NoPeer
  /\ dataChan' = <<>>
  /\ hashSet' = NilHashSet
  /\ panic' = "none"

\* The saved blocks are read back from the file, up to the first that cannot
\* be read in each piece; failed is a block whose read fails.
Restored(saved, failed) ==
  {b \in saved : \A f \in failed : b[1] = f[1] => b[2] < f[2]}

StartRestored(rec, spent) ==
  LET saved == UNION {rec.blocks[p] : p \in DOMAIN rec.blocks}
  IN  /\ WantMoreData(rec)
      /\ FromResumeData(rec.pieces, rec.blocks, rec.size)
      /\ incoming' = DOMAIN rec.blocks
      /\ \E failed \in {{}} \cup {{b} : b \in saved} :
           /\ failed # {} => "io" \in Faults /\ faults + spent < MaxFaults
           /\ received' = Restored(saved, failed)
           /\ lastError' = (failed # {})
           /\ faults' = faults + spent + Cardinality(failed)
      /\ wrong' = {b \in received' : disk[b] # "good"}
      /\ tpc' = "loop"
      /\ announced' = FALSE
      /\ saving' = NoRecord

\* A picker, and ReceivingPieces, without blocks.
NoBlocks ==
  /\ downloading' = <<>>
  /\ size' = [p \in Piece |-> 0]
  /\ requested' = {} /\ finished' = {}
  /\ downloaders' = [b \in Block |-> 0]
  /\ lastDownloader' = [b \in Block |-> NoPeer]
  /\ incoming' = {} /\ received' = {} /\ wrong' = {}
  /\ lastError' = FALSE
  /\ tpc' = "loop"

\* StartFinished: nothing is left to download.  It only waits for the stop: no
\* connection starts for an announced transfer.
StartFinished(rec) ==
  /\ ~WantMoreData(rec)
  /\ NoBlocks
  /\ pieces' = rec.pieces
  /\ blocksInLastPiece' = 0
  /\ announced' = TRUE
  /\ saving' = NoRecord

EmptyRecord == [pieces |-> {}, blocks |-> [p \in {} |-> {}], size |-> [p \in {} |-> 0]]

\* Nothing was saved: the user adds the transfer again.
StartNew ==
  /\ NoBlocks
  /\ pieces' = {}
  /\ blocksInLastPiece' = LastPieceBlocks
  /\ announced' = FALSE
  /\ saving' = EmptyRecord

Start(rec, spent) ==
  /\ NewProcess
  /\ \/ rec # NoRecord /\ StartRestored(rec, spent)
     \/ /\ IF rec = NoRecord THEN StartNew ELSE StartFinished(rec)
        /\ faults' = faults + spent

\* A process that ended may or may not have written what it was saving.
Leftover == {resume} \cup ({saving} \ {NoRecord})

Restart ==
  /\ ~Alive
  /\ resume' \in Leftover
  /\ Start(resume', 0)
  /\ UNCHANGED disk

Crash ==
  /\ Alive
  /\ "crash" \in Faults /\ faults < MaxFaults
  /\ resume' \in Leftover
  /\ Start(resume', 1)
  /\ UNCHANGED disk

----------------------------------------------------------------------------
Init ==
  /\ CreatePiecePicker
  /\ tpc = "loop" /\ current = 0 /\ assignee = NoPeer
  /\ dataChan = <<>>
  /\ incoming = {} /\ received = {} /\ wrong = {}
  /\ hashSet = NilHashSet /\ lastError = FALSE /\ announced = FALSE
  /\ panic = "none"
  /\ cpc = [c \in Peer |-> "off"]
  /\ held = [c \in Peer |-> {}]
  /\ toAbort = [c \in Peer |-> {}]
  /\ closed = [c \in Peer |-> FALSE]
  /\ sending = [c \in Peer |-> {}]
  /\ strayed = FALSE
  /\ stopping = FALSE /\ closing = {} /\ unsaved = FALSE
  /\ saving = EmptyRecord
  /\ resume = NoRecord
  /\ disk = [b \in Block |-> "none"]
  /\ faults = 0

\* A transfer that has finished or failed waits for a command of the user.
WaitForCommand ==
  /\ tpc = "loop" /\ (announced \/ lastError)
  /\ SessionIdle /\ NoConnections /\ dataChan = <<>>
  /\ UNCHANGED vars

TransferStep ==
  \/ ReportError \/ SendResumeData \/ VerifyPiece \/ VerifyPanics \/ CompletePiece \/ CompletePanics
  \/ TransferExit
  \/ \E c \in Peer : RefusePeer(c) \/ AssignBlocks(c) \/ AssignPanics(c)

TransferReceive ==
  \/ TakeBlock \/ TakeBlockWriteFails
  \/ \E c \in Peer : TakeHashSet(c) \/ TakeReady(c) \/ \E b \in Block : TakeAbort(c, b)

\* The packets of the remote peer, and the steps our side takes alone.
RemoteStep(c) ==
  \/ HelloAnswer(c) \/ ReqFilenameAnswer(c) \/ FileStatus(c) \/ HashSetAnswer(c)
  \/ AcceptUploadReq(c)
  \/ \E b \in Block : SendingPart(c, b, TRUE)
LocalStep(c) == Register(c) \/ HandOver(c) \/ ReadClosed(c) \/ Unregister(c)

Next ==
  \/ TransferStep \/ TransferReceive
  \/ \E c \in Peer : Connect(c) \/ LocalStep(c) \/ RunClose(c) \/ RemoteStep(c) \/ Drop(c)
  \/ \E c \in Peer, b \in Block : SendingPart(c, b, FALSE)
  \/ SaveResumeData \/ SaveFails \/ StopCommand
  \/ Crash \/ Restart \/ WaitForCommand

Spec == Init /\ [][Next]_vars

(* Fairness.  Every goroutine runs on.  Where one waits for the other side of *)
(* a channel that others use too, the wait ends although the receiver is now  *)
(* and then busy (strong fairness): Go keeps the senders of a channel in a    *)
(* queue and selects among the ready cases at random.  A connection waits for *)
(* one thing at a time, so one condition stands for all its waits.            *)
LocalFairness ==
  /\ WF_vars(TransferStep) /\ WF_vars(SaveResumeData)
  /\ SF_vars(TakeBlock)
  /\ WF_vars(\E c \in Peer : RunClose(c))
  /\ \A c \in Peer :
       SF_vars(Connect(c) \/ LocalStep(c) \/ TakeHashSet(c) \/ TakeReady(c)
                 \/ \E b \in Block : TakeAbort(c, b))

\* The peers answer.
RemoteFairness == \A c \in Peer : WF_vars(RemoteStep(c))

LocalFairSpec == Spec /\ LocalFairness
FairSpec == LocalFairSpec /\ RemoteFairness

----------------------------------------------------------------------------
\* Every variable has its type.
TypeOK ==
  /\ PickerTypeOK
  /\ tpc \in {"loop", "report", "save", "verify", "complete", "assign"} \cup Ended
  /\ current \in Piece
  /\ assignee \in Peer \cup {NoPeer}
  /\ dataChan \in Seq([block : Block, good : BOOLEAN])
  /\ Len(dataChan) <= DataChanCap
  /\ incoming \subseteq Piece
  /\ wrong \subseteq received /\ received \subseteq Block
  /\ hashSet \in NilHashSet..NumPieces
  /\ {lastError, announced, stopping, strayed, unsaved} \subseteq BOOLEAN
  /\ cpc \in [Peer -> Connected \cup {"off", "dialing"}]
  /\ held \in [Peer -> SUBSET Block]
  /\ toAbort \in [Peer -> SUBSET Block]
  /\ closed \in [Peer -> BOOLEAN]
  /\ sending \in [Peer -> SUBSET [block : Block, good : BOOLEAN]]
  /\ closing \subseteq Peer
  /\ disk \in [Block -> {"none", "good", "bad"}]
  /\ {resume, saving} \subseteq Records \cup {NoRecord}

\* What resume data claims to be in the file.
Verified(rec) == rec.pieces \ DOMAIN rec.blocks
Claims(rec) == (UNION {rec.blocks[p] : p \in DOMAIN rec.blocks})
                 \cup (UNION {RealBlocks(p) : p \in Verified(rec)})

\* Neither the resume file, nor what is on its way to it, nor the picker ever
\* claims a block that was not written, or as verified a piece whose data in
\* the file is not right, whatever crashes and fails
\* (the order of write, FinishBlock and resume data, transfer.go:183-239).
ClaimsAreOnDisk ==
  \A rec \in {resume, saving, Record} \ {NoRecord} :
    /\ \A b \in Claims(rec) : disk[b] # "none"
    /\ \A p \in Verified(rec) : \A b \in RealBlocks(p) : disk[b] = "good"

\* The resume file is never replaced by one that claims less, except for the
\* blocks of a piece with wrong data (the sends of resume data by
\* transfer.go:148, 206, 233 and their writes by the session).
SavedProgressIsKept ==
  [][resume # NoRecord =>
       /\ resume' # NoRecord
       /\ \A b \in Claims(resume) \ Claims(resume') :
            \E other \in RealBlocks(b[1]) : other \in wrong]_vars

\* The copies of b under way: promised by a peer, returned by a connection that
\* ends, or waiting in dataChan.
Owners(b) == {c \in Peer : b \in toAbort[c] \/ (b \in held[c] /\ cpc[c] # "leaving")}
Waiting(b) == {i \in DOMAIN dataChan : dataChan[i].block = b}
Copies(b) == Cardinality(Owners(b)) + Cardinality(Waiting(b))

\* While a block is missing, no two copies of it are under way, and one that
\* is under way is counted by the picker: connections that drop, return their
\* blocks late and come back never make the picker give a block twice.
OneCopyUnderWay ==
  Alive => \A b \in Block : b[1] \in InProgress /\ b \notin finished =>
    /\ Copies(b) <= 1
    /\ Copies(b) = 1 => b \in requested /\ downloaders[b] = 1

\* The assertions of the code on blocks that arrive hold: a block is finished
\* only while requested, all blocks of a complete piece are finished unless a
\* file operation failed, and its hash is there unless a peer strayed
\* (piece_picker.go:113-130, 194-207; transfer.go:218-222).
ArrivalAssertionsHold ==
  /\ panic # "finish not requested block"
  /\ panic = "not all downloading blocks are finished" => lastError
  /\ panic \in {"hash set is nil", "index out of range"} => strayed

\* What a record says, for the pool; and a process that cannot go on: it has panicked,
\* or will, at the second SetHave of a piece with wrong data.
SnapshotOf(rec) ==
  IF rec = NoRecord THEN {} ELSE {[done |-> Claims(rec), verified |-> Verified(rec)]}
Failing == tpc = "panicked" \/ (tpc = "complete" /\ current \notin pieces)

\* Whatever crashes, fails and comes late, the download keeps the promises of
\* DurablePool: a block that was delivered is not asked for again, no free one is left
\* behind, what is saved is what the picker has, a piece that is verified is handed
\* over to be saved in the same step, and, unless the last write of the resume file
\* failed, at most one block is not handed over and a transfer that exits has saved
\* all (transfer.go:96-284, session.go:592-611).  Who owes a block is who was given it last.
Durable == INSTANCE DurablePool WITH
  Pieces <- Piece, LastPiece <- NumPieces - 1, BlocksIn <- RealBlocks,
  Peers <- Peer, PeerSpeed <- Speed, MaxRequest <- RequestSize,
  owners <- [b \in FileBlocks |->
               IF b \in requested \ finished THEN {lastDownloader[b]} ELSE {}],
  done <- finished \cup UNION {RealBlocks(p) : p \in pieces \ InProgress},
  verified <- pieces \ InProgress,
  lost <- IF LastPieceIsLost THEN {NumPieces - 1} ELSE {},
  mode <- IF tpc = "exited" THEN "exited" ELSE IF Failing THEN "failing" ELSE "running",
  saving <- SnapshotOf(saving),
  unsaved <- unsaved,
  file <- SnapshotOf(resume)
ImplementsDurablePool == Durable!DurableSpec

\* With peers that answer, and without faults, the file gets downloaded: the
\* connections' hand-overs (peer_connection.go:221, 262) never end while
\* blocks are missing.
Completes == <>[]IsFinished

\* A connection that was told to close ends, whatever its peer does: nobody
\* waits for ever on a channel of the transfer (peer_connection.go:418-423),
\* when all blocks are given out as when the session stops.
ClosedConnectionsEnd ==
  \A c \in Peer : closed[c] ~> ~closed[c] \/ panic # "none"

----------------------------------------------------------------------------
(* What comments, assertions and tests say, and the code does not do.       *)

\* transfer.go:229 "restore piece as no-have": after a hash mismatch the piece
\* is downloaded again, the process does not end.
RejectedPieceIsDownloadedAgain == panic # "set have to already finished piece"

\* transfer.go:245-248: when the last piece is complete the transfer is
\* announced as finished and its connections are closed.
FinishIsAnnounced == tpc = "loop" /\ IsFinished => announced

\* session.go:151 "close all peer connections": the stopped session ends,
\* whatever the remote peers do.
StopEnds == stopping ~> (tpc = "exited")
=============================================================================
