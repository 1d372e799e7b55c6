-------------------------- MODULE PickerUseProofs --------------------------
(***************************************************************************)
(* Proofs about the piece picker: in PickerUse, for every file, every set  *)
(* of peers and their speeds, and every request size,                      *)
(*   - every variable has its type,                                        *)
(*   - the accounts of the picker are right (Accounting), and with them    *)
(*   - no assertion of FinishBlock or SetHave fails (NoPanic),             *)
(*   - the picker keeps the promises of BlockPool through any number of    *)
(*     restarts: PickerUse implements BlockPool.                           *)
(* The inductive invariant adds to Accounting what it rests on: the marks  *)
(* and the lists fit together (Consistent), and the pieces have the        *)
(* lengths of the file (Sized, with what each operator keeps of it in      *)
(* PiecePickerProofs).                                                     *)
(***************************************************************************)
EXTENDS PickerUse, PiecePickerProofs

IndInv == TypeOK /\ Consistent /\ Accounting /\ Sized

LEMMA InvParts ==
  ASSUME IndInv
  PROVE  TypeOK /\ Consistent /\ Accounting /\ Sized /\ PickerInv
BY DEF IndInv, TypeOK, Consistent, PickerInv, Listed, MarksFit

----------------------------------------------------------------------------
(* Counting those who owe a block.                                          *)

LEMMA HoldersFinite ==
  ASSUME TypeOK, NEW b \in Block
  PROVE  IsFiniteSet(holders[b]) /\ holders[b] \subseteq Peer
<1>1. holders[b] \subseteq Peer
  BY DEF TypeOK
<1> QED
  BY <1>1, FS_Subset, PickerAssumption

LEMMA OneHolderLess ==
  ASSUME TypeOK, NEW b \in Block, NEW peer \in holders[b],
         Cardinality(holders[b]) = downloaders[b]
  PROVE  /\ Cardinality(holders[b] \ {peer}) = downloaders[b] - 1
         /\ holders[b] \ {peer} = {} <=> downloaders[b] = 1
<1> DEFINE H == holders[b]
           R == H \ {peer}
<1>1. IsFiniteSet(H)
  BY HoldersFinite
<1>2. IsFiniteSet(R) /\ Cardinality(R) = Cardinality(H) - 1
  BY <1>1, FS_RemoveElement
<1>3. R = {} <=> Cardinality(R) = 0
  BY <1>2, FS_EmptySet
<1>4. Cardinality(H) \in Nat
  BY <1>1, FS_CardinalityType
<1> HIDE DEF R
<1>5. Cardinality(R) = 0 <=> Cardinality(H) = 1
  BY <1>2, <1>4
<1> QED
  BY <1>2, <1>3, <1>5 DEF R

LEMMA OneHolderMore ==
  ASSUME TypeOK, NEW b \in Block, NEW peer \in Peer \ holders[b]
  PROVE  Cardinality(holders[b] \cup {peer}) = Cardinality(holders[b]) + 1
BY HoldersFinite, FS_AddElement

----------------------------------------------------------------------------
(* The invariant holds at the start, and every step keeps it.               *)

LEMMA InitInvariant == Init => IndInv
<1> SUFFICES ASSUME Init PROVE IndInv
  OBVIOUS
<1>1. PickerInv
  BY CreateMakesPickerInv DEF Init
<1>2. /\ holders = [b \in Block |-> {}]
      /\ downloaders = [b \in Block |-> 0]
      /\ InProgress = {}
  BY DEF Init, CreatePiecePicker, InProgress
<1>3. Accounting
  BY <1>2 DEF Accounting
<1> QED
  BY <1>1, <1>2, <1>3 DEF IndInv, TypeOK, Consistent, PickerInv, Listed, MarksFit

LEMMA AskStep ==
  ASSUME IndInv, NEW peer \in Peer, Ask(peer)
  PROVE  IndInv'
<1> DEFINE picked == Picked(RequestSize, peer)
           chosen == Chosen(RequestSize, peer)
<1>1. TypeOK /\ Consistent /\ Accounting /\ PickerInv
  BY InvParts
<1>2. RequestSize \in Nat /\ PickPieces(RequestSize, peer)
  BY RequestSizeAssumption DEF Ask
<1>3. /\ picked \subseteq Block
      /\ chosen \subseteq Piece \ pieces
      /\ \A b \in picked :
           \/ b \in FreeBlocks
           \/ Speed[peer] # Slow /\ b \in requested \ finished
           \/ b[1] \in chosen /\ b[2] < BlocksInPiece(b[1])
      /\ InProgress' = InProgress \cup chosen
  BY <1>1, <1>2, PickFacts DEF PickerInv
<1>4. /\ requested' = requested \cup picked
      /\ downloaders' = [b \in Block |-> IF b \in picked THEN downloaders[b] + 1
                                                         ELSE downloaders[b]]
      /\ pieces' = pieces \cup chosen /\ finished' = finished
      /\ holders' = [b \in Block |-> IF b \in picked THEN holders[b] \cup {peer}
                                                     ELSE holders[b]]
  BY <1>2 DEF PickPieces, Ask
<1>5. PickerInv' /\ \A b \in picked : b[1] \in InProgress'
  BY <1>1, <1>2, PickKeepsPickerInv
\* Those who are handed a block do not owe it already.
<1>6. ASSUME NEW b \in picked PROVE peer \notin holders[b]
  <2>1. CASE b \in FreeBlocks
    BY <2>1, <1>1 DEF FreeBlocks, Accounting, Consistent
  <2>2. CASE Speed[peer] # Slow
    BY <2>2, <1>3, <1>6 DEF Ask, Owed
  <2>3. CASE b[1] \in chosen
    BY <2>3, <1>1, <1>3, <1>6 DEF Consistent
  <2> QED
    BY <2>1, <2>2, <2>3, <1>3, <1>6
<1> HIDE DEF picked, chosen
<1>7. TypeOK'
  BY <1>1, <1>4, <1>5 DEF TypeOK, PickerInv
<1>8. Consistent'
  <2>1. \A b \in Block : b[1] \notin InProgress' => downloaders'[b] = 0
    BY <1>1, <1>3, <1>4, <1>5 DEF Consistent
  <2>2. \A b \in Block : b[1] \notin pieces' => holders'[b] = {}
    BY <1>1, <1>3, <1>4, <1>5 DEF Consistent
  <2> QED
    BY <2>1, <2>2, <1>5 DEF Consistent, PickerInv, Listed, MarksFit
<1>9. Accounting'
  <2> SUFFICES ASSUME NEW b \in Block, b[1] \in InProgress', b \notin finished'
               PROVE  /\ downloaders'[b] = Cardinality(holders'[b])
                      /\ b \in requested' <=> holders'[b] # {}
    BY DEF Accounting
  <2>1. /\ downloaders[b] = Cardinality(holders[b])
        /\ b \in requested <=> holders[b] # {}
    <3>1. CASE b[1] \in InProgress
      BY <3>1, <1>1, <1>4 DEF Accounting
    <3>2. CASE b[1] \notin InProgress
      <4>1. b[1] \in chosen
        BY <3>2, <1>3
      <4>2. holders[b] = {} /\ downloaders[b] = 0 /\ b \notin requested
        BY <3>2, <4>1, <1>1, <1>3 DEF Consistent
      <4> QED
        BY <4>2, FS_EmptySet
    <3> QED
      BY <3>1, <3>2
  <2>2. CASE b \in picked
    <3>1. Cardinality(holders[b] \cup {peer}) = Cardinality(holders[b]) + 1
      BY <2>2, <1>1, <1>6, OneHolderMore
    <3> QED
      BY <2>1, <2>2, <3>1, <1>4
  <2>3. CASE b \notin picked
    BY <2>1, <2>3, <1>4
  <2> QED
    BY <2>2, <2>3
<1> QED
  BY <1>5, <1>7, <1>8, <1>9 DEF IndInv, PickerInv

\* A block that is late changes nothing but who owes it.
LEMMA LateStep ==
  ASSUME IndInv, NEW peer \in Peer, NEW b \in Block, peer \in holders[b],
         holders' = [holders EXCEPT ![b] = @ \ {peer}],
         UNCHANGED pickerVars, b \in finished \/ b[1] \notin InProgress
  PROVE  IndInv'
<1>1. TypeOK /\ Consistent /\ Accounting /\ Sized
  BY InvParts
<1>2. TypeOK'
  BY <1>1 DEF TypeOK, PickerTypeOK, pickerVars
<1>3. InProgress' = InProgress
  BY DEF InProgress, pickerVars
<1>4. \A c \in Block : holders'[c] = IF c = b THEN holders[c] \ {peer} ELSE holders[c]
  BY <1>1 DEF TypeOK
<1>5. Consistent'
  BY <1>1, <1>3, <1>4 DEF Consistent, pickerVars
<1>6. Accounting'
  BY <1>1, <1>3, <1>4 DEF Accounting, pickerVars
<1>7. Sized'
  BY <1>1, <1>3 DEF Sized, RealCount, pickerVars
<1> QED
  BY <1>2, <1>5, <1>6, <1>7 DEF IndInv

LEMMA DeliverStep ==
  ASSUME IndInv, NEW peer \in Peer, NEW b \in Block, Deliver(peer, b)
  PROVE  IndInv'
<1>1. TypeOK /\ Consistent /\ Accounting /\ PickerInv
  BY InvParts
<1>2. peer \in holders[b] /\ holders' = [holders EXCEPT ![b] = @ \ {peer}]
  BY DEF Deliver
<1>3. CASE UNCHANGED pickerVars /\ (b \in finished \/ b[1] \notin InProgress)
  BY <1>2, <1>3, LateStep
<1>4. CASE b[1] \in InProgress /\ b \notin finished /\ FinishBlock(b)
  <2>1. /\ finished' = finished \cup {b}
        /\ downloaders' = [downloaders EXCEPT ![b] = @ - 1]
        /\ UNCHANGED <<pieces, requested>>
    BY <1>4 DEF FinishBlock
  <2>2. b \in requested
    BY <1>1, <1>2, <1>4 DEF Accounting
  <2>3. PickerInv' /\ InProgress' = InProgress
    BY <1>1, <1>4, <2>2, FinishKeepsPickerInv DEF FinishPanics
  <2>4. \A c \in Block :
          /\ holders'[c] = IF c = b THEN holders[c] \ {peer} ELSE holders[c]
          /\ downloaders'[c] = IF c = b THEN downloaders[c] - 1 ELSE downloaders[c]
    BY <1>1, <1>2, <2>1 DEF TypeOK, PickerTypeOK
  <2>5. TypeOK'
    BY <1>1, <1>2, <2>3 DEF TypeOK, PickerInv
  <2>6. Consistent'
    BY <1>1, <1>4, <2>1, <2>3, <2>4 DEF Consistent, PickerInv, Listed, MarksFit
  <2>7. Accounting'
    BY <1>1, <2>1, <2>3, <2>4 DEF Accounting
  <2> QED
    BY <2>3, <2>5, <2>6, <2>7 DEF IndInv, PickerInv
<1> QED
  BY <1>3, <1>4 DEF Deliver, FinishBlock

LEMMA ReturnStep ==
  ASSUME IndInv, NEW peer \in Peer, NEW b \in Block, Return(peer, b)
  PROVE  IndInv'
<1>1. TypeOK /\ Consistent /\ Accounting /\ PickerInv
  BY InvParts
<1>2. peer \in holders[b] /\ holders' = [holders EXCEPT ![b] = @ \ {peer}]
  BY DEF Return
<1>3. CASE UNCHANGED pickerVars /\ (b \in finished \/ b[1] \notin InProgress)
  BY <1>2, <1>3, LateStep
<1>4. CASE b[1] \in InProgress /\ b \notin finished
  <2>1. /\ downloaders' = [downloaders EXCEPT ![b] = @ - 1]
        /\ requested' = IF downloaders[b] = 1 THEN requested \ {b} ELSE requested
        /\ UNCHANGED <<pieces, finished>>
    BY <1>4 DEF Return, AbortBlock
  <2>2. PickerInv' /\ InProgress' = InProgress
    BY <1>1, AbortKeepsPickerInv DEF Return
  <2>3. TypeOK'
    BY <1>1, <1>2, <2>2 DEF TypeOK, PickerInv
  <2>4. \A c \in Block :
          /\ holders'[c] = IF c = b THEN holders[c] \ {peer} ELSE holders[c]
          /\ downloaders'[c] = IF c = b THEN downloaders[c] - 1 ELSE downloaders[c]
    BY <1>1, <1>2, <2>1 DEF TypeOK, PickerTypeOK
  <2>5. Consistent'
    BY <1>1, <1>4, <2>1, <2>2, <2>4 DEF Consistent, PickerInv, Listed, MarksFit
  <2>6. downloaders[b] = Cardinality(holders[b]) /\ b \in requested
    BY <1>1, <1>2, <1>4 DEF Accounting
  <2>7. /\ Cardinality(holders[b] \ {peer}) = downloaders[b] - 1
        /\ holders[b] \ {peer} = {} <=> downloaders[b] = 1
    BY <1>1, <1>2, <2>6, OneHolderLess
  <2>8. Accounting'
    <3> SUFFICES ASSUME NEW c \in Block, c[1] \in InProgress, c \notin finished
                 PROVE  /\ downloaders'[c] = Cardinality(holders'[c])
                        /\ c \in requested' <=> holders'[c] # {}
      BY <2>1, <2>2 DEF Accounting
    <3>1. CASE c = b
      BY <3>1, <2>1, <2>4, <2>6, <2>7
    <3>2. CASE c # b
      BY <3>2, <1>1, <2>1, <2>4 DEF Accounting
    <3> QED
      BY <3>1, <3>2
  <2> QED
    BY <2>2, <2>3, <2>5, <2>8 DEF IndInv, PickerInv
<1> QED
  BY <1>3, <1>4 DEF Return, AbortBlock

\* A piece is dropped: its bit stays (SetHave) or, when nobody owes a block of it,
\* is taken off (RemoveDownloadingPiece).
LEMMA ForgetStep ==
  ASSUME IndInv, NEW p \in InProgress, Forget(p), UNCHANGED holders,
         \/ UNCHANGED pieces
         \/ pieces' = pieces \ {p} /\ \A b \in BlocksOf(p) : holders[b] = {}
  PROVE  IndInv'
<1>1. TypeOK /\ Consistent /\ Accounting /\ PickerInv
  BY InvParts
<1>2. PickerInv' /\ InProgress' = InProgress \ {p}
  BY <1>1, ForgetKeepsPickerInv
<1>3. /\ requested' = {b \in requested : b[1] # p}
      /\ finished' = {b \in finished : b[1] # p}
      /\ downloaders' = [b \in Block |-> IF b[1] = p THEN 0 ELSE downloaders[b]]
  BY DEF Forget
<1>4. TypeOK'
  BY <1>1, <1>2 DEF TypeOK, PickerInv
<1>5. Consistent'
  <2>1. \A b \in Block : b[1] \notin InProgress' => downloaders'[b] = 0
    BY <1>1, <1>2, <1>3 DEF Consistent
  <2>2. ASSUME NEW b \in Block, b[1] \notin pieces' PROVE holders'[b] = {}
    <3>1. CASE b[1] \notin pieces
      BY <3>1, <1>1 DEF Consistent
    <3>2. CASE b[1] \in pieces
      <4>1. b[1] = p /\ \A c \in BlocksOf(p) : holders[c] = {}
        BY <3>2, <2>2
      <4>2. CASE b \in BlocksOf(p)
        BY <4>1, <4>2
      \* Nobody is handed a block beyond the end of the piece.
      <4>3. CASE b \notin BlocksOf(p)
        <5>1. b \notin requested /\ b \notin finished
          BY <4>1, <4>3, <1>1 DEF Consistent, BlocksOf
        <5> QED
          BY <4>1, <5>1, <1>1 DEF Accounting
      <4> QED
        BY <4>2, <4>3
    <3> QED
      BY <3>1, <3>2
  <2> QED
    BY <2>1, <2>2, <1>2 DEF Consistent, PickerInv, Listed, MarksFit
<1>6. Accounting'
  BY <1>1, <1>2, <1>3 DEF Accounting
<1> QED
  BY <1>2, <1>4, <1>5, <1>6 DEF IndInv, PickerInv

LEMMA AcceptStep ==
  ASSUME IndInv, NEW p \in Piece, Accept(p)
  PROVE  IndInv'
<1>1. p \in InProgress /\ Forget(p) /\ UNCHANGED pieces /\ UNCHANGED holders
  BY DEF Accept, Full, SetHave
<1> QED
  BY <1>1, ForgetStep

LEMMA RejectStep ==
  ASSUME IndInv, NEW p \in Piece, Reject(p)
  PROVE  IndInv'
<1>1. /\ p \in InProgress /\ Forget(p) /\ UNCHANGED holders
      /\ pieces' = pieces \ {p} /\ \A b \in BlocksOf(p) : holders[b] = {}
  BY DEF Reject, Full, RemoveDownloadingPiece
<1> QED
  BY <1>1, ForgetStep

\* The picker's own resume data brings the same lists and lengths back, and what was
\* finished.
LEMMA RestartFacts ==
  ASSUME IndInv, Restart
  PROVE  /\ PickerInv' /\ requested' = finished'
         /\ InProgress' = InProgress /\ pieces' = pieces
         /\ size' = size
         /\ finished' = finished
<1> DEFINE saved == DownloadedBlocks
<1>1. TypeOK /\ Consistent /\ Sized
  BY InvParts
<1>2. /\ DOMAIN saved = InProgress
      /\ \A p \in InProgress : saved[p] = finished \cap BlocksOf(p)
  BY DEF DownloadedBlocks
<1>3. InProgress \subseteq pieces /\ pieces \subseteq Piece
  BY <1>1 DEF Consistent, TypeOK, PickerTypeOK
<1> HIDE DEF saved
<1>4. FromResumeData(pieces, saved, size)
  BY DEF Restart, saved
<1>5. Restorable(pieces, saved, size)
  <2>1. ASSUME NEW p \in InProgress
        PROVE  /\ size[p] = RealCount(p) \/ (size[p] = 0 /\ p = NumPieces - 1)
               /\ saved[p] \subseteq {b \in Block : b[1] = p /\ b[2] < size[p]}
    BY <1>1, <1>2, <1>3, <2>1 DEF Sized, BlocksOf
  <2> QED
    BY <1>2, <1>3, <2>1 DEF Restorable
<1>6. /\ PickerInv' /\ InProgress' = InProgress /\ pieces' = pieces
      /\ requested' = finished'
  BY <1>2, <1>4, <1>5, RestoreMakesPickerInv
<1>7. size' = size
  <2>1. size' = [p \in Piece |-> IF p \in InProgress THEN size[p] ELSE 0]
    BY <1>2, <1>4 DEF FromResumeData
  <2>2. \A p \in Piece : p \notin InProgress => size[p] = 0
    BY <1>1 DEF Sized
  <2> QED
    BY <1>1, <2>1, <2>2 DEF TypeOK, PickerTypeOK
<1>8. finished' = finished
  <2>1. finished' = UNION {saved[p] : p \in InProgress}
    BY <1>2, <1>4 DEF FromResumeData
  <2>2. ASSUME NEW b \in finished PROVE b[1] \in InProgress /\ b \in BlocksOf(b[1])
    BY <1>1, <2>2 DEF Consistent, TypeOK, PickerTypeOK, BlocksOf
  <2> QED
    BY <1>2, <2>1, <2>2
<1> QED
  BY <1>6, <1>7, <1>8

LEMMA RestartStep ==
  ASSUME IndInv, Restart
  PROVE  IndInv'
<1>1. /\ PickerInv' /\ requested' = finished'
      /\ holders' = [b \in Block |-> {}]
      /\ downloaders' = [b \in Block |-> 0]
  BY RestartFacts DEF Restart, FromResumeData
<1>2. Consistent'
  BY <1>1 DEF Consistent, PickerInv, Listed, MarksFit
<1>3. Accounting'
  BY <1>1, FS_EmptySet DEF Accounting
<1> QED
  BY <1>1, <1>2, <1>3 DEF IndInv, TypeOK, PickerInv

----------------------------------------------------------------------------
LEMMA NextStep == IndInv /\ [Next]_vars => IndInv'
<1> SUFFICES ASSUME IndInv, [Next]_vars PROVE IndInv'
  OBVIOUS
<1>1. ASSUME NEW peer \in Peer, Ask(peer) PROVE IndInv'
  BY <1>1, AskStep
<1>2. ASSUME NEW peer \in Peer, NEW b \in Block, Deliver(peer, b) PROVE IndInv'
  BY <1>2, DeliverStep
<1>3. ASSUME NEW peer \in Peer, NEW b \in Block, Return(peer, b) PROVE IndInv'
  BY <1>3, ReturnStep
<1>4. ASSUME NEW p \in Piece, Accept(p) PROVE IndInv'
  BY <1>4, AcceptStep
<1>5. ASSUME NEW p \in Piece, Reject(p) PROVE IndInv'
  BY <1>5, RejectStep
<1>6. CASE Restart
  BY <1>6, RestartStep
<1>7. CASE UNCHANGED vars
  BY <1>7 DEF IndInv, TypeOK, PickerTypeOK, Consistent, Accounting, Sized, RealCount,
              InProgress, vars, pickerVars
<1> QED
  BY <1>1, <1>2, <1>3, <1>4, <1>5, <1>6, <1>7 DEF Next

LEMMA Inductive == Spec => []IndInv
BY InitInvariant, NextStep, PTL DEF Spec

\* The variables keep their types, for every file and every set of peers
\* (piece_picker.go, downloading_piece.go).
THEOREM TypeCorrect == Spec => []TypeOK
<1>1. IndInv => TypeOK
  BY DEF IndInv
<1> QED
  BY Inductive, <1>1, PTL

\* The lists and the marks of the picker fit together in every reachable state, after
\* restarts too: no piece is listed twice or listed without its bit, no mark lies
\* outside its piece (chooseNextPiece, RemoveDownloadingPiece, remove, FromResumeData).
THEOREM RecordsFitTogether == Spec => []Consistent
<1>1. IndInv => Consistent
  BY DEF IndInv
<1> QED
  BY Inductive, <1>1, PTL

\* downloadersCount is the number of connections that owe the block, and a block
\* that has not arrived is marked requested exactly when that is not zero
\* (DownloadingPiece.PickBlock, AbortBlock, FinishBlock).
THEOREM AccountsAreRight == Spec => []Accounting
<1>1. IndInv => Accounting
  BY DEF IndInv
<1> QED
  BY Inductive, <1>1, PTL

\* A caller that keeps the rules meets none of the panics of
\* DownloadingPiece.FinishBlock and PiecePicker.SetHave.
THEOREM NoAssertionFails == Spec => []NoPanic
<1>1. IndInv => NoPanic
  <2> SUFFICES ASSUME IndInv PROVE NoPanic
    OBVIOUS
  <2>1. TypeOK /\ Consistent /\ Accounting
    BY DEF IndInv
  <2>2. ASSUME NEW b \in Block, holders[b] # {} PROVE ~FinishPanics(b)
    <3>1. CASE b \in finished
      BY <3>1, <2>1 DEF FinishPanics, Consistent
    <3>2. CASE b \notin finished
      BY <3>2, <2>1, <2>2 DEF FinishPanics, Accounting
    <3> QED
      BY <3>1, <3>2
  <2>3. ASSUME NEW p \in Piece, Full(p) PROVE ~SetHavePanics(p)
    BY <2>1, <2>3 DEF SetHavePanics, Full, Consistent
  <2> QED
    BY <2>2, <2>3 DEF NoPanic
<1> QED
  BY Inductive, <1>1, PTL

----------------------------------------------------------------------------
(* The pool as a view of the picker.                                        *)
Lost == IF LastPieceIsLost THEN {NumPieces - 1} ELSE {}

LEMMA InitIsPoolInit == Init => Pool!Init
<1> SUFFICES ASSUME Init PROVE Pool!Init
  OBVIOUS
<1> USE DEF Init, CreatePiecePicker
<1>1. InProgress = {} /\ pieces = {} /\ finished = {}
  BY DEF InProgress
<1>2. ~LastPieceIsLost
  BY PickerAssumption DEF LastPieceIsLost
<1> QED
  BY <1>1, <1>2, FileBlocksAre DEF Pool!Init, Pool!Blocks, FileBlocks

----------------------------------------------------------------------------
(* Nobody owes a block the file does not have.                              *)
OwedExist == \A b \in Block : holders[b] # {} => b \in FileBlocks

PoolInv == IndInv /\ OwedExist

LEMMA InitPoolInv == Init => PoolInv
BY InitInvariant DEF PoolInv, OwedExist, Init

LEMMA PoolInvStep == PoolInv /\ [Next]_vars => PoolInv'
<1> SUFFICES ASSUME PoolInv, [Next]_vars PROVE OwedExist'
  BY NextStep DEF PoolInv
<1>1. TypeOK /\ OwedExist
  BY InvParts DEF PoolInv
<1>2. FileBlocks' = FileBlocks
  BY DEF FileBlocks, RealBlocks
<1> HIDE DEF FileBlocks
<1>3. ASSUME NEW peer \in Peer, Ask(peer) PROVE OwedExist'
  <2>1. RequestSize \in Nat /\ PickPieces(RequestSize, peer) /\ PickerInv
    BY <1>3, InvParts, RequestSizeAssumption DEF Ask, PoolInv
  <2>2. \A b \in Picked(RequestSize, peer) : b \in FileBlocks
    BY <2>1, PickedExist
  <2>3. holders' = [b \in Block |-> IF b \in Picked(RequestSize, peer)
                                    THEN holders[b] \cup {peer} ELSE holders[b]]
    BY <1>3 DEF Ask
  <2> QED
    BY <1>1, <1>2, <2>2, <2>3 DEF OwedExist
<1>4. ASSUME NEW peer \in Peer, NEW b \in Block,
             Deliver(peer, b) \/ Return(peer, b)
      PROVE  OwedExist'
  <2>1. holders' = [holders EXCEPT ![b] = @ \ {peer}]
    BY <1>4 DEF Deliver, Return
  <2>2. \A c \in Block : holders'[c] # {} => holders[c] # {}
    BY <1>1, <2>1 DEF TypeOK
  <2> QED
    BY <1>1, <1>2, <2>2 DEF OwedExist
<1>5. ASSUME NEW p \in Piece, Accept(p) \/ Reject(p) PROVE OwedExist'
  BY <1>1, <1>2, <1>5 DEF Accept, Reject, OwedExist
<1>6. CASE Restart
  BY <1>6 DEF Restart, OwedExist
<1>7. CASE UNCHANGED vars
  BY <1>1, <1>2, <1>7 DEF OwedExist, vars
<1> QED
  BY <1>3, <1>4, <1>5, <1>6, <1>7 DEF Next

----------------------------------------------------------------------------
(* Each action is a step of the pool.                                       *)

\* The instance counts with the same operator.
LEMMA SameCardinality == \A S : Pool!Cardinality(S) = Cardinality(S)
BY DEF Pool!Cardinality, Cardinality

LEMMA LostIs ==
  /\ Pool!Blocks = FileBlocks
  /\ Pool!LostBlocks = {b \in FileBlocks : b[1] = NumPieces - 1 /\ LastPieceIsLost}
<1>1. Pool!Blocks = FileBlocks
  BY DEF Pool!Blocks, FileBlocks
<1>2. NumPieces - 1 \in Piece
  BY PickerAssumption DEF Piece
<1>3. RealBlocks(NumPieces - 1) = {b \in FileBlocks : b[1] = NumPieces - 1}
  BY <1>2, RealBlocksAre, FileBlocksAre
<1>4. Pool!LostBlocks = IF LastPieceIsLost THEN RealBlocks(NumPieces - 1) ELSE {}
  BY DEF Pool!LostBlocks
<1> QED
  BY <1>1, <1>3, <1>4

LEMMA AskIsRequest ==
  ASSUME PoolInv, NEW peer \in Peer, Ask(peer)
  PROVE  Pool!Request(peer)
<1> DEFINE n == RequestSize
           S == Picked(n, peer)
           chosen == Chosen(n, peer)
<1>1. TypeOK /\ Consistent /\ Accounting /\ Sized /\ PickerInv
  BY InvParts DEF PoolInv
<1>2. n \in Nat /\ PickPieces(n, peer)
  BY RequestSizeAssumption DEF Ask
<1>3. /\ chosen \subseteq Piece \ pieces
      /\ InProgress' = InProgress \cup chosen
      /\ S \subseteq Block
      /\ \A b \in S :
           \/ b \in FreeBlocks
           \/ Speed[peer] # Slow /\ b \in requested \ finished
           \/ b[1] \in chosen /\ b[2] < BlocksInPiece(b[1])
  BY <1>1, <1>2, PickFacts DEF PickerInv
<1>4. /\ pieces' = pieces \cup chosen
      /\ size' = [p \in Piece |-> IF p \in chosen THEN BlocksInPiece(p) ELSE size[p]]
      /\ finished' = finished /\ blocksInLastPiece' = blocksInLastPiece
      /\ holders' = [b \in Block |-> IF b \in S THEN holders[b] \cup {peer} ELSE holders[b]]
  BY <1>2 DEF PickPieces, Ask
<1>5. ASSUME NEW b \in S
      PROVE  /\ b \in FileBlocks
             /\ b[1] = NumPieces - 1 => ~LastPieceIsLost
  BY <1>1, <1>2, PickedExist
<1>6. ASSUME NEW b \in S PROVE b \notin Done
  <2>1. b \in Block /\ b[1] \in Piece
    BY <1>3, <1>6, BlockParts
  <2>2. b \notin finished
    BY <1>1, <1>3, <1>6 DEF Consistent, FreeBlocks
  <2>3. b[1] \notin pieces \ InProgress
    BY <1>1, <1>3, <1>6 DEF Consistent, FreeBlocks
  <2> QED
    BY <1>1, <2>1, <2>2, <2>3, DoneIs DEF PickerInv
<1>7. ASSUME NEW b \in S
      PROVE  \/ holders[b] = {}
             \/ Speed[peer] > 0 /\ peer \notin holders[b] /\ Cardinality(holders[b]) = 1
  <2>1. CASE b \in FreeBlocks
    BY <2>1, <1>1 DEF FreeBlocks, Accounting, Consistent
  <2>2. CASE b[1] \in chosen
    BY <2>2, <1>1, <1>3, <1>7 DEF Consistent
  <2>3. CASE b \notin FreeBlocks /\ b[1] \notin chosen
    <3>1. b \in ReRequestable(peer) /\ Speed[peer] # Slow
      BY <2>3, <1>7 DEF Picked, Candidates, OldCandidates, NewBlocks
    <3>2. Speed[peer] > 0
      BY <3>1, PickerAssumption DEF Slow
    <3>3. peer \notin holders[b]
      BY <3>1, <1>3, <1>7 DEF Ask, Owed
    <3>4. /\ downloaders[b] < 2 /\ downloaders[b] = Cardinality(holders[b])
          /\ holders[b] # {}
      BY <3>1, <1>1, <1>3, <1>7 DEF ReRequestable, Accounting, Consistent
    <3>5. IsFiniteSet(holders[b])
      BY <1>1, <1>3, <1>7, HoldersFinite
    <3>6. Cardinality(holders[b]) \in Nat /\ Cardinality(holders[b]) # 0
      BY <3>4, <3>5, FS_CardinalityType, FS_EmptySet
    <3> QED
      BY <3>2, <3>3, <3>4, <3>6
  <2> QED
    BY <2>1, <2>2, <2>3
<1>8. /\ Cardinality(S) <= n
      /\ Cardinality(S) < n => S = Candidates(n, peer) /\ IsFiniteSet(Candidates(n, peer))
  BY <1>1, <1>2, PickedCount DEF PickerInv
<1>9. ASSUME Cardinality(S) < n, NEW b \in FileBlocks, b \notin Done,
             b[1] = NumPieces - 1 => ~LastPieceIsLost, holders[b] = {}
      PROVE  b \in S
  <2>1. b \in Block /\ b \notin finished /\ b[1] \notin pieces \ InProgress
    BY <1>1, <1>9, DoneIs, FileBlocksAre DEF PickerInv
  <2>2. b \notin requested
    BY <1>1, <1>9, <2>1 DEF Accounting, Consistent
  <2> QED
    BY <1>1, <1>2, <1>8, <1>9, <2>1, <2>2, IdleIsCandidate
<1>10. /\ UNCHANGED (pieces \ InProgress) /\ Done' = Done
       /\ LastPieceIsLost' <=> LastPieceIsLost
  BY <1>1, <1>2, PickKeepsView
<1> HIDE DEF n, S, chosen
<1>13. [b \in FileBlocks |-> holders[b]]'
         = [b \in FileBlocks |-> IF b \in S THEN holders[b] \cup {peer} ELSE holders[b]]
  BY <1>4, FileBlocksAre DEF FileBlocks, RealBlocks
<1>14. S \in SUBSET ((FileBlocks \ Done) \ Pool!LostBlocks)
  BY <1>5, <1>6, LostIs
<1>15. Cardinality(S) < n =>
         {b \in (FileBlocks \ Done) \ Pool!LostBlocks : holders[b] = {}} \subseteq S
  BY <1>9, LostIs
<1>16. /\ Pool!Cardinality(S) <= n
       /\ Pool!Cardinality(S) < n => Pool!Idle \subseteq S
  <2>1. Pool!Idle = {b \in (FileBlocks \ Done) \ Pool!LostBlocks : holders[b] = {}}
    BY LostIs DEF Pool!Idle, Done
  <2> QED
    BY <2>1, <1>8, <1>15, SameCardinality
<1>17. ASSUME NEW b \in S
       PROVE  \/ [c \in FileBlocks |-> holders[c]][b] = {}
              \/ /\ Speed[peer] > 0 /\ peer \notin [c \in FileBlocks |-> holders[c]][b]
                 /\ Pool!Cardinality([c \in FileBlocks |-> holders[c]][b]) = 1
  BY <1>5, <1>7, SameCardinality
<1> HIDE DEF Done
<1>18. [b \in FileBlocks |-> holders[b]]'
         = [b \in Pool!Blocks |->
              IF b \in S THEN [c \in FileBlocks |-> holders[c]][b] \cup {peer}
                         ELSE [c \in FileBlocks |-> holders[c]][b]]
  BY <1>13, LostIs
<1>19. UNCHANGED <<Done, pieces \ InProgress, IF LastPieceIsLost THEN {NumPieces - 1} ELSE {}>>
  BY <1>10
<1> QED
  BY <1>14, <1>16, <1>17, <1>18, <1>19, LostIs DEF Pool!Request, n, Done

\* Somebody who owes a block is among its owners, and leaves them.
LEMMA OwnerLeaves ==
  ASSUME PoolInv, NEW peer \in Peer, NEW b \in Block, peer \in holders[b],
         holders' = [holders EXCEPT ![b] = @ \ {peer}]
  PROVE  LET owners == [c \in FileBlocks |-> holders[c]]
         IN  /\ b \in Pool!Blocks
             /\ peer \in owners[b]
             /\ owners' = [owners EXCEPT ![b] = @ \ {peer}]
<1>1. TypeOK /\ OwedExist
  BY InvParts DEF PoolInv
<1>2. b \in FileBlocks
  BY <1>1 DEF OwedExist
<1>3. \A c \in FileBlocks : holders'[c] = IF c = b THEN holders[c] \ {peer} ELSE holders[c]
  BY <1>1, FileBlocksAre DEF TypeOK
<1>4. FileBlocks' = FileBlocks
  BY DEF FileBlocks, RealBlocks
<1> HIDE DEF FileBlocks
<1>5. [c \in FileBlocks |-> holders[c]]'
        = [[c \in FileBlocks |-> holders[c]] EXCEPT ![b] = @ \ {peer}]
  BY <1>2, <1>3, <1>4
<1> QED
  BY <1>2, <1>5, LostIs

LEMMA LeaveIsReleaseOrDeliver ==
  ASSUME PoolInv, NEW peer \in Peer, NEW b \in Block,
         Deliver(peer, b) \/ Return(peer, b)
  PROVE  b \in Pool!Blocks /\ (Pool!Release(peer, b) \/ Pool!Deliver(peer, b))
<1> DEFINE owners == [c \in FileBlocks |-> holders[c]]
<1>1. TypeOK
  BY InvParts DEF PoolInv
<1>2. /\ b \in Pool!Blocks
      /\ peer \in owners[b]
      /\ owners' = [owners EXCEPT ![b] = @ \ {peer}]
  BY OwnerLeaves DEF Deliver, Return
<1> HIDE DEF owners
<1>3. UNCHANGED <<blocksInLastPiece, pieces, downloading, size>>
  BY DEF Deliver, Return, FinishBlock, AbortBlock, pickerVars
<1>4. finished' = finished \/ finished' = finished \cup {b}
  BY DEF Deliver, Return, FinishBlock, AbortBlock, pickerVars
<1>5. (pieces \ InProgress)' = pieces \ InProgress /\ (LastPieceIsLost' <=> LastPieceIsLost)
  BY <1>3 DEF InProgress, LastPieceIsLost
<1>6. UNCHANGED <<pieces \ InProgress, IF LastPieceIsLost THEN {NumPieces - 1} ELSE {}>>
  BY <1>5
<1>7. CASE finished' = finished
  <2>1. Done' = Done
    BY <1>5, <1>7 DEF Done, RealBlocks
  <2>2. Pool!Release(peer, b)
    BY <1>2, <1>6, <2>1 DEF Pool!Release, owners, Done
  <2> QED
    BY <1>2, <2>2
<1>8. CASE finished' = finished \cup {b}
  <2>1. Done' = Done \cup {b}
    BY <1>5, <1>8 DEF Done, RealBlocks
  <2>2. Pool!Deliver(peer, b)
    BY <1>2, <1>6, <2>1 DEF Pool!Deliver, owners, Done
  <2> QED
    BY <1>2, <2>2
<1> QED
  BY <1>4, <1>7, <1>8

\* A piece is full when every block the file has there has arrived.
LEMMA FullIsDone ==
  ASSUME PoolInv, NEW p \in Piece, Full(p)
  PROVE  /\ RealBlocks(p) \subseteq finished
         /\ p = NumPieces - 1 => blocksInLastPiece # 0
<1>1. PickerInv
  BY InvParts DEF PoolInv
<1>2. p \in InProgress /\ NumHave(p) = size[p] /\ size[p] # 0 /\ BlocksInPiece(p) # 0
  BY DEF Full
<1>3. p = NumPieces - 1 => blocksInLastPiece # 0
  BY <1>1, <1>2, CountIs DEF PickerInv
<1> QED
  BY <1>1, <1>2, <1>3, FullHasAll

\* What Forget does to the view of the pool.
LEMMA ForgetFullFacts ==
  ASSUME PoolInv, NEW p \in Piece, Full(p), Forget(p), UNCHANGED holders,
         UNCHANGED pieces \/ pieces' = pieces \ {p}
  PROVE  /\ RealBlocks(p) \subseteq Done
         /\ p \notin pieces \ InProgress
         /\ InProgress' = InProgress \ {p}
         /\ finished' = finished \ RealBlocks(p)
         /\ RealBlocks(p) \subseteq finished
         /\ UNCHANGED [b \in FileBlocks |-> holders[b]]
         /\ UNCHANGED (IF LastPieceIsLost THEN {NumPieces - 1} ELSE {})
<1>1. TypeOK /\ Consistent /\ Sized /\ PickerInv
  BY InvParts DEF PoolInv
<1>2. p \in InProgress
  BY DEF Full
<1>3. InProgress' = InProgress \ {p}
  BY <1>1, <1>2, ForgetFacts DEF PickerInv
<1>4. RealBlocks(p) \subseteq finished /\ (p = NumPieces - 1 => blocksInLastPiece # 0)
  BY FullIsDone
<1>5. /\ finished' = {b \in finished : b[1] # p}
      /\ size' = [size EXCEPT ![p] = 0] /\ blocksInLastPiece' = blocksInLastPiece
  BY DEF Forget
<1>6. ASSUME NEW b \in finished PROVE b[1] = p <=> b \in RealBlocks(p)
  <2>1. b \in Block /\ b[2] < size[b[1]] /\ b[2] \in Nat
    BY <1>1, <1>6, BlockParts, PickerAssumption DEF Consistent, TypeOK, PickerTypeOK
  <2>2. size[p] = RealCount(p) \/ size[p] = 0
    BY <1>1 DEF Sized
  <2> QED
    BY <2>1, <2>2, RealBlocksAre
<1>7. finished' = finished \ RealBlocks(p)
  BY <1>5, <1>6
<1>8. UNCHANGED [b \in FileBlocks |-> holders[b]]
  BY DEF FileBlocks, RealBlocks
<1>9. LastPieceIsLost' <=> LastPieceIsLost
  <2>1. CASE p = NumPieces - 1
    BY <2>1, <1>4, <1>5 DEF LastPieceIsLost
  <2>2. CASE p # NumPieces - 1
    <3>1. NumPieces - 1 \in Piece
      BY PickerAssumption DEF Piece
    <3>2. size'[NumPieces - 1] = size[NumPieces - 1]
      BY <1>1, <1>5, <2>2, <3>1 DEF TypeOK, PickerTypeOK
    <3>3. NumPieces - 1 \in pieces' \ InProgress' <=> NumPieces - 1 \in pieces \ InProgress
      BY <1>3, <2>2
    <3> QED
      BY <1>5, <3>2, <3>3 DEF LastPieceIsLost
  <2> QED
    BY <2>1, <2>2
<1>10. RealBlocks(p) \subseteq Done
  BY <1>4 DEF Done
<1> QED
  BY <1>2, <1>3, <1>4, <1>7, <1>8, <1>9, <1>10

LEMMA AcceptIsVerify ==
  ASSUME PoolInv, NEW p \in Piece, Accept(p)
  PROVE  Pool!Verify(p)
<1>1. Full(p) /\ Forget(p) /\ UNCHANGED pieces /\ UNCHANGED holders
  BY DEF Accept, Full, SetHave
<1>2. /\ RealBlocks(p) \subseteq Done
      /\ p \notin pieces \ InProgress
      /\ InProgress' = InProgress \ {p}
      /\ finished' = finished \ RealBlocks(p)
      /\ RealBlocks(p) \subseteq finished
      /\ UNCHANGED [b \in FileBlocks |-> holders[b]]
      /\ UNCHANGED (IF LastPieceIsLost THEN {NumPieces - 1} ELSE {})
  BY <1>1, ForgetFullFacts
<1>3. p \in pieces
  BY <1>1 DEF Full, PoolInv, IndInv, Consistent
<1>4. (pieces \ InProgress)' = (pieces \ InProgress) \cup {p}
  BY <1>1, <1>2, <1>3
<1>5. Done' = Done
  <2>1. \A q : RealBlocks(q)' = RealBlocks(q)
    BY DEF RealBlocks
  <2> HIDE DEF RealBlocks
  <2>2. Done' = finished' \cup UNION {RealBlocks(q) : q \in (pieces \ InProgress)'}
    BY <2>1 DEF Done
  <2> QED
    BY <1>2, <1>4, <2>2 DEF Done
<1> QED
  BY <1>2, <1>4, <1>5 DEF Pool!Verify, Done

LEMMA RejectIsReject ==
  ASSUME PoolInv, NEW p \in Piece, Reject(p)
  PROVE  Pool!Reject(p)
<1>1. Full(p) /\ Forget(p) /\ pieces' = pieces \ {p} /\ UNCHANGED holders
  BY DEF Reject, Full, RemoveDownloadingPiece
<1>2. /\ RealBlocks(p) \subseteq Done
      /\ p \notin pieces \ InProgress
      /\ InProgress' = InProgress \ {p}
      /\ finished' = finished \ RealBlocks(p)
      /\ UNCHANGED [b \in FileBlocks |-> holders[b]]
      /\ UNCHANGED (IF LastPieceIsLost THEN {NumPieces - 1} ELSE {})
  BY <1>1, ForgetFullFacts
<1>3. (pieces \ InProgress)' = pieces \ InProgress
  BY <1>1, <1>2
<1>4. Done' = Done \ RealBlocks(p)
  <2>1. \A q \in pieces \ InProgress : RealBlocks(q) \cap RealBlocks(p) = {}
    BY <1>2 DEF RealBlocks
  <2>2. \A q : RealBlocks(q)' = RealBlocks(q)
    BY DEF RealBlocks
  <2> HIDE DEF RealBlocks
  <2>3. Done' = finished' \cup UNION {RealBlocks(q) : q \in pieces \ InProgress}
    BY <1>3, <2>2 DEF Done
  <2> QED
    BY <1>2, <2>1, <2>3 DEF Done
<1> QED
  BY <1>2, <1>3, <1>4 DEF Pool!Reject, Done

LEMMA RestartIsResume ==
  ASSUME PoolInv, Restart
  PROVE  Pool!Resume
<1>1. TypeOK /\ Consistent /\ Sized
  BY InvParts DEF PoolInv
<1>2. /\ InProgress' = InProgress /\ size' = size /\ finished' = finished
  BY RestartFacts DEF PoolInv
<1>3. /\ pieces' = pieces /\ blocksInLastPiece' = 0
      /\ holders' = [b \in Block |-> {}]
  BY DEF Restart, FromResumeData
<1>4. (pieces \ InProgress)' = pieces \ InProgress
  BY <1>2, <1>3
<1>5. Done' = Done
  BY <1>2, <1>4 DEF Done, RealBlocks
<1>6. [b \in FileBlocks |-> holders[b]]' = [b \in FileBlocks |-> {}]
  BY <1>3, FileBlocksAre DEF FileBlocks, RealBlocks
<1>7. LastPieceIsLost => LastPieceIsLost'
  BY <1>2, <1>3, <1>4 DEF LastPieceIsLost
<1>8. LastPieceIsLost' => /\ NumPieces - 1 \notin (pieces \ InProgress)'
                          /\ RealBlocks(NumPieces - 1) \cap Done = {}
  <2>1. (PickerInv /\ LastPieceIsLost =>
           /\ NumPieces - 1 \notin pieces \ InProgress
           /\ RealBlocks(NumPieces - 1) \cap Done = {})'
    BY LostHasNothing, PTL
  <2>2. PickerInv' /\ RealBlocks(NumPieces - 1)' = RealBlocks(NumPieces - 1)
    BY RestartFacts DEF PoolInv, RealBlocks
  <2> QED
    BY <1>5, <2>1, <2>2
<1> DEFINE lost == IF LastPieceIsLost THEN {NumPieces - 1} ELSE {}
<1>9. lost' \in {lost, lost \cup {NumPieces - 1}}
  BY <1>7
<1>10. NumPieces - 1 \in lost' => /\ NumPieces - 1 \notin pieces \ InProgress
                                  /\ RealBlocks(NumPieces - 1) \cap Done = {}
  BY <1>4, <1>8
<1>11. [b \in FileBlocks |-> holders[b]]' = [b \in Pool!Blocks |-> {}]
  BY <1>6, LostIs
<1> HIDE DEF Done
<1> QED
  BY <1>4, <1>5, <1>9, <1>10, <1>11 DEF Pool!Resume, Done

----------------------------------------------------------------------------
LEMMA StepIsPoolStep == PoolInv /\ [Next]_vars => [Pool!Next]_(Pool!poolVars)
<1> SUFFICES ASSUME PoolInv, [Next]_vars PROVE Pool!Next \/ UNCHANGED Pool!poolVars
  OBVIOUS
<1>1. ASSUME NEW peer \in Peer, Ask(peer) PROVE Pool!Next
  BY <1>1, AskIsRequest DEF Pool!Next
<1>2. ASSUME NEW peer \in Peer, NEW b \in Block, Deliver(peer, b) \/ Return(peer, b)
      PROVE  Pool!Next
  BY <1>2, LeaveIsReleaseOrDeliver DEF Pool!Next
<1>3. ASSUME NEW p \in Piece, Accept(p) PROVE Pool!Next
  BY <1>3, AcceptIsVerify DEF Pool!Next
<1>4. ASSUME NEW p \in Piece, Reject(p) PROVE Pool!Next
  BY <1>4, RejectIsReject DEF Pool!Next
<1>5. ASSUME Restart PROVE Pool!Next
  BY <1>5, RestartIsResume DEF Pool!Next
<1>6. ASSUME UNCHANGED vars PROVE UNCHANGED Pool!poolVars
  BY <1>6 DEF Pool!poolVars, vars, pickerVars, InProgress, LastPieceIsLost,
              FileBlocks, RealBlocks
<1> QED
  BY <1>1, <1>2, <1>3, <1>4, <1>5, <1>6 DEF Next

LEMMA PoolInvHolds == Spec => []PoolInv
BY InitPoolInv, PoolInvStep, PTL DEF Spec

\* The picker implements the pool of blocks: a request returns no block that was
\* delivered, doubles a block only for a faster connection, and leaves no free block
\* behind while it returns fewer than asked for; a restart forgets nothing but the
\* last piece when no block of it was there (PickPieces, FromResumeData).
THEOREM PickerImplementsPool == Spec => ImplementsBlockPool
<1>1. Init => Pool!Init
  BY InitIsPoolInit
<1>2. PoolInv /\ [Next]_vars => [Pool!Next]_(Pool!poolVars)
  BY StepIsPoolStep
<1> QED
  BY <1>1, <1>2, PoolInvHolds, PTL DEF Spec, ImplementsBlockPool, Pool!Spec

\* Downloads of blocks that do not exist are never begun: whoever owes a block owes
\* one the file has, also of the shorter last piece and after a restart, when its
\* length is not known any more (chooseNextPiece, GetBlocksInPiece).
THEOREM OnlyFileBlocksAreOwed == Spec => []OwedExist
<1>1. PoolInv => OwedExist
  BY DEF PoolInv
<1> QED
  BY PoolInvHolds, <1>1, PTL
=============================================================================
