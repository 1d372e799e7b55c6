----------------------------- MODULE ResumeFile -----------------------------
(***************************************************************************)
(* The resume file of one transfer: the records the transfer hands to the  *)
(* session, the file the session writes them to, and what a later process  *)
(* reads.  A record is AddTransferParameters of proto/transfer.go; its     *)
(* hash, name and size never change and are one unit.  The file is not     *)
(* truncated before it is written, and records have different lengths.     *)
(*                                                                         *)
(* The picker is kept as bytes here: pieces has the bit of a piece that is *)
(* complete or being downloaded, blocks the finished blocks of the latter. *)
(***************************************************************************)
EXTENDS BitField, SequencesExt

CONSTANTS
  NumPieces, BlocksPerPiece, LastPieceBlocks,
  MaxElems,        \* MAX_ELEMS: entries a reader accepts
  MaxWriteErrors,  \* bound on the writes of the session that fail
  CutAt,           \* bound: the units such a write may write
  NoFile, NoRecord

Pieces == 0..(NumPieces - 1)

ASSUME ResumeAssumption ==
  /\ BitFieldAssumption
  /\ NumPieces \in 1..(CountLimit - 1)
  /\ BlocksPerPiece \in 1..(CountLimit - 1) /\ LastPieceBlocks \in 1..BlocksPerPiece
  /\ MaxElems \in Nat /\ MaxWriteErrors \in Nat /\ CutAt \subseteq Nat
  /\ NoFile \notin Seq(Units)

VARIABLES
  transfer,    \* none, running, panicked, finished
  pieces, blocks, lastBlocks,   \* PiecePicker
  handed,      \* the record the session has taken and not yet saved
  opened,      \* the session has opened the file
  file,        \* its units
  written,     \* for the properties: the last record written in full
  torn,        \* a write stopped half way after it
  errors,      \* writes that failed
  verified     \* for the properties: pieces whose hash was right

picker  == <<transfer, pieces, blocks, lastBlocks, verified>>
session == <<handed, opened, file, written, torn, errors>>
vars    == <<transfer, pieces, blocks, lastBlocks, verified,
             handed, opened, file, written, torn, errors>>

----------------------------------------------------------------------------
(* AddTransferParameters.                                                   *)
Record(ps, bs) == [pieces |-> ps, blocks |-> bs]

Head1 == Number(0)   \* hash set, name and size

\* The blocks follow in the order of a walk over the map, each with the number of
\* its piece.
PutEntry(bs, p) == <<Number(p)>> \o Put(bs[p])
PutBlocks(bs, order) == FlattenSeq([k \in 1..Len(order) |-> PutEntry(bs, order[k])])

PutRecord(r, order) ==
  <<Head1>> \o Put(r.pieces) \o <<Number(Len(order) % CountLimit)>> \o PutBlocks(r.blocks, order)

\* The sum over the map of the size of a block and of the number before it.
SizeOfBlocks(bs) == Cardinality(UNION {{p} \X (0..Size(bs[p])) : p \in DOMAIN bs})

SizeOfRecord(r) == 1 + Size(r.pieces) + 1 + SizeOfBlocks(r.blocks)

NoBlocks == [p \in {} |-> {}]
\* The map with an entry added or replaced.
WithEntry(bs, p, bf) == [q \in DOMAIN bs \cup {p} |-> IF q = p THEN bf ELSE bs[q]]

\* One entry after the other; the first that is cut ends it.
GetEntry(f, r) ==
  LET g == Get(f, r.next + 1) IN
  IF ~r.ok \/ r.next > Len(f) \/ ~g.ok THEN [r EXCEPT !.ok = FALSE]
  ELSE [ok |-> TRUE, next |-> g.next, blocks |-> WithEntry(r.blocks, f[r.next].value, g.bf)]
GetBlocks(f, at, n) ==
  LET read[k \in 0..n] ==
        IF k = 0 THEN [ok |-> TRUE, next |-> at, blocks |-> NoBlocks]
        ELSE GetEntry(f, read[k - 1])
  IN  read[n]

\* "downloaded blocks size too large"
GetRecord(f) ==
  LET ps == Get(f, 2) IN
  IF f = <<>> \/ ~ps.ok THEN [ok |-> FALSE]
  ELSE IF ps.next > Len(f) THEN [ok |-> FALSE]
  ELSE IF f[ps.next].value > MaxElems THEN [ok |-> FALSE]
  ELSE LET bs == GetBlocks(f, ps.next + 1, f[ps.next].value) IN
       IF ~bs.ok THEN [ok |-> FALSE]
       ELSE [ok |-> TRUE, record |-> Record(ps.bf, bs.blocks)]

WantMoreData(r) == r.pieces.bits # Count(r.pieces) \/ DOMAIN r.blocks # {}

----------------------------------------------------------------------------
(* The transfer.                                                            *)
BlocksInPiece(p) == IF p + 1 = pieces.bits THEN lastBlocks ELSE BlocksPerPiece

Init ==
  /\ transfer = "none"
  /\ pieces = CreateBitField(0) /\ blocks = NoBlocks /\ lastBlocks = 0 /\ verified = {}
  /\ handed = NoRecord /\ opened = FALSE /\ file = NoFile
  /\ written = NoRecord /\ torn = FALSE /\ errors = 0

\* The transfer is added: it starts from nothing, whatever file is there.
Add ==
  /\ transfer = "none" /\ handed = NoRecord
  /\ transfer' = "running"
  /\ pieces' = CreateBitField(NumPieces) /\ blocks' = NoBlocks
  /\ lastBlocks' = LastPieceBlocks
  /\ handed' = Record(pieces', blocks')
  /\ UNCHANGED <<verified, opened, file, written, torn, errors>>

\* The transfer is restored, with FromResumeData or StartFinished.  What comes out
\* of a torn file is left out.
Restore ==
  /\ transfer = "none" /\ file # NoFile /\ ~torn
  /\ LET g == GetRecord(file) IN
     /\ g.ok
     /\ transfer' = IF WantMoreData(g.record) THEN "running" ELSE "finished"
     /\ pieces' = g.record.pieces /\ blocks' = g.record.blocks
  /\ lastBlocks' = 0
  /\ UNCHANGED <<verified, session>>

\* chooseNextPiece.
ChoosePiece ==
  /\ transfer = "running"
  /\ \E p \in Pieces :
       /\ ~GetBit(pieces, p) /\ \A q \in Pieces : q < p => GetBit(pieces, q)
       /\ blocks' = WithEntry(blocks, p, CreateBitField(BlocksInPiece(p)))
       /\ pieces' = SetBit(pieces, p)
  /\ UNCHANGED <<transfer, lastBlocks, verified, session>>

\* GetDownloadedBlocks.
\* Mutant: pieces of which nothing has come are not worth saving.
DownloadedBlocksBegun(bs) == Restrict(bs, {p \in DOMAIN bs : Count(bs[p]) > 0})
DownloadedBlocks(bs) == bs

Hand(ps, bs) ==
  /\ handed = NoRecord
  /\ handed' = Record(ps, DownloadedBlocks(bs))
  /\ UNCHANGED <<opened, file, written, torn, errors>>

\* A block is in the file.
FinishBlock(p, b) ==
  /\ transfer = "running" /\ p \in DOMAIN blocks
  /\ b < blocks[p].bits /\ ~GetBit(blocks[p], b)
  /\ blocks' = [blocks EXCEPT ![p] = SetBit(@, b)]
  /\ Hand(pieces, blocks')
  /\ UNCHANGED <<transfer, pieces, lastBlocks, verified>>

IsFull(p) == p \in DOMAIN blocks /\ blocks[p].bits > 0 /\ Count(blocks[p]) = blocks[p].bits

\* SetHave of a piece whose hash is right.
SetHave(p) ==
  /\ transfer = "running" /\ IsFull(p)
  /\ blocks' = Restrict(blocks, DOMAIN blocks \ {p})
  /\ verified' = verified \cup {p}
  /\ Hand(pieces, blocks')
  /\ UNCHANGED <<transfer, pieces, lastBlocks>>

\* RemoveDownloadingPiece of one whose hash is wrong; the record is handed over,
\* then the transfer panics.
\* Mutant: the piece is left in the list.
RemoveKeepsPiece(p) ==
  /\ transfer = "running" /\ IsFull(p)
  /\ transfer' = "panicked"
  /\ blocks' = blocks
  /\ pieces' = ClearBit(pieces, p)
  /\ Hand(pieces', blocks')
  /\ UNCHANGED <<lastBlocks, verified>>
RemoveDownloadingPiece(p) ==
  /\ transfer = "running" /\ IsFull(p)
  /\ transfer' = "panicked"
  /\ blocks' = Restrict(blocks, DOMAIN blocks \ {p})
  /\ pieces' = ClearBit(pieces, p)
  /\ Hand(pieces', blocks')
  /\ UNCHANGED <<lastBlocks, verified>>

----------------------------------------------------------------------------
(* saveResumeData of the session.                                           *)

\* The file is created if it is not there.
OpenResumeFile ==
  /\ handed # NoRecord /\ ~opened
  /\ opened' = TRUE
  /\ file' = IF file = NoFile THEN <<>> ELSE file
  /\ UNCHANGED <<handed, written, torn, errors, picker>>

\* What a write leaves: the units of before stay behind it.
\* Mutant: it is appended.
Appended(f, data) == f \o data
Overwritten(f, data) == data \o SubSeq(f, Len(data) + 1, Len(f))

WriteRecord ==
  /\ opened
  /\ \E order \in SetToSeqs(DOMAIN handed.blocks) :
       file' = Overwritten(file, PutRecord(handed, order))
  /\ written' = handed /\ torn' = FALSE
  /\ handed' = NoRecord /\ opened' = FALSE
  /\ UNCHANGED <<errors, picker>>

\* The disk is full: the file gets a part of the record, or nothing, which is logged
\* only.
WriteFails ==
  /\ opened /\ errors < MaxWriteErrors
  /\ \E order \in SetToSeqs(DOMAIN handed.blocks), k \in CutAt :
       /\ k < SizeOfRecord(handed)
       /\ file' = Overwritten(file, SubSeq(PutRecord(handed, order), 1, k))
       /\ torn' = (torn \/ k > 0)
  /\ handed' = NoRecord /\ opened' = FALSE
  /\ errors' = errors + 1
  /\ UNCHANGED <<written, picker>>

\* The process ends, by itself or not.
Crash ==
  /\ transfer # "none"
  /\ transfer' = "none"
  /\ pieces' = CreateBitField(0) /\ blocks' = NoBlocks /\ lastBlocks' = 0
  /\ handed' = NoRecord /\ opened' = FALSE
  /\ UNCHANGED <<verified, file, written, torn, errors>>

Next ==
  \/ Add \/ Restore \/ ChoosePiece
  \/ \E p \in Pieces : \/ \E b \in 0..(BlocksPerPiece - 1) : FinishBlock(p, b)
                       \/ SetHave(p) \/ RemoveDownloadingPiece(p)
  \/ OpenResumeFile \/ WriteRecord \/ WriteFails
  \/ Crash

Spec == Init /\ [][Next]_vars

----------------------------------------------------------------------------
\* Every variable has its type, and the bits at the end of the last bytes are 0.
TypeOK_ResumeFile ==
  LET Fields == {pieces} \cup {blocks[p] : p \in DOMAIN blocks}
  IN  /\ transfer \in {"none", "running", "panicked", "finished"}
      /\ \A bf \in Fields : WellFormed(bf)
      /\ DOMAIN blocks \subseteq Elements(pieces)
      /\ lastBlocks \in {0, LastPieceBlocks} /\ verified \subseteq Pieces
      /\ handed # NoRecord => DOMAIN handed.blocks \subseteq Elements(handed.pieces)
      /\ opened \in BOOLEAN /\ torn \in BOOLEAN /\ errors \in 0..MaxWriteErrors

\* What is read is the record that was written last, in whatever order its blocks
\* were written and whatever a longer record or a torn one has left behind it; it is
\* refused only for having more pieces under way than a reader accepts.
ReadsBack ==
  written # NoRecord /\ ~torn =>
    LET g == GetRecord(file) IN
    IF Cardinality(DOMAIN written.blocks) > MaxElems THEN ~g.ok
    ELSE g.ok /\ g.record = written

\* The buffer that is made for a record is filled exactly: a record is never cut, and
\* never followed by bytes that are not its own.
FillsBuffer ==
  handed # NoRecord =>
    \A order \in SetToSeqs(DOMAIN handed.blocks) :
      Len(PutRecord(handed, order)) = SizeOfRecord(handed)

\* No record has a piece as complete whose hash was never found right, and a restored
\* transfer that starts as finished has them all.
Complete(r) == Elements(r.pieces) \ DOMAIN r.blocks
CompleteIsVerified ==
  /\ \A r \in {handed, written} \ {NoRecord} : Complete(r) \subseteq verified
  /\ transfer = "finished" => verified = Pieces

\* On the bit fields of every record that is saved the operations on bytes are those of
\* sets: the count, and every change of size with the value of the new bits.
BitsAreASet ==
  LET Resized(bf, n, val) ==
        (Elements(bf) \cap 0..(n - 1)) \cup IF val THEN bf.bits..(n - 1) ELSE {}
      Is(bf, n, S) == bf.bits = n /\ WellFormed(bf) /\ Elements(bf) = S
      Fields == IF opened THEN {handed.pieces} \cup {handed.blocks[p] : p \in DOMAIN handed.blocks}
                ELSE {}
  IN  \A bf \in Fields :
        /\ Count(bf) = Cardinality(Elements(bf))
        /\ Is(SetAll(bf), bf.bits, 0..(bf.bits - 1)) /\ Is(ClearAll(bf), bf.bits, {})
        /\ \A n \in 0..(2 * ByteBits + 1) :
             /\ Is(Resize(bf, n), n, Resized(bf, n, FALSE))
             /\ \A val \in BOOLEAN : Is(ResizeVal(bf, n, val), n, Resized(bf, n, val))
             /\ LET all == [i \in 0..2 |-> Positions]
                IN  Is(Assign(bf, all, n), n, 0..(n - 1))
=============================================================================
