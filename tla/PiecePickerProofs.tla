------------------------- MODULE PiecePickerProofs -------------------------
(***************************************************************************)
(* What the operators of the piece picker keep, whoever calls them and in  *)
(* whatever order, for every file and every set of peers: the list of      *)
(* downloading pieces, the bits, the marks and the lengths of the pieces   *)
(* fit together (PickerInv).  The proofs about PickerUse and Download rest *)
(* on these lemmas.                                                        *)
(***************************************************************************)
EXTENDS PiecePicker, FiniteSetTheorems, WellFoundedInduction, TLAPS

\* Every downloading piece is listed once, and its bit is set.
Listed ==
  /\ \A i, j \in DOMAIN downloading : downloading[i] = downloading[j] => i = j
  /\ InProgress \subseteq pieces

\* Marks are only on blocks of the downloading pieces, and what arrived was requested.
MarksFit ==
  /\ finished \subseteq requested
  /\ \A b \in requested : b[1] \in InProgress /\ b[2] < size[b[1]]

\* A downloading piece has the blocks the file has there; the last one has none at
\* all when a restart has forgotten its length.
RealCount(p) == IF p = NumPieces - 1 THEN LastPieceBlocks ELSE BlocksPerPiece
Sized ==
  \A p \in Piece :
    \/ p \in InProgress /\ size[p] = RealCount(p)
    \/ size[p] = 0 /\ (p \in InProgress => p = NumPieces - 1 /\ blocksInLastPiece = 0)

PickerInv == PickerTypeOK /\ Listed /\ MarksFit /\ Sized

----------------------------------------------------------------------------
(* Blocks, and the sequences the picker makes.                              *)

LEMMA BlockParts ==
  \A b \in Block : b[1] \in Piece /\ b[2] \in 0..(BlocksPerPiece - 1)
BY DEF Block

LEMMA PieceFinite == IsFiniteSet(Piece)
BY FS_Interval, PickerAssumption DEF Piece

LEMMA ArrangementSeq ==
  ASSUME NEW S \in SUBSET Piece, NEW s \in Arrangements(S)
  PROVE  /\ s \in Seq(Piece)
         /\ \A i \in DOMAIN s : s[i] \in S
         /\ \A x \in S : \E i \in DOMAIN s : s[i] = x
         /\ \A i, j \in DOMAIN s : s[i] = s[j] => i = j
<1>1. Cardinality(S) \in Nat
  BY PieceFinite, FS_Subset, FS_CardinalityType
<1>2. s \in [1..Cardinality(S) -> S]
  BY DEF Arrangements
<1> QED
  BY <1>1, <1>2 DEF Arrangements

\* What remove(s, i) leaves: all elements but the i-th, none twice.
LEMMA RemoveSwapFacts ==
  ASSUME NEW S, NEW s \in Seq(S), NEW i \in DOMAIN s,
         \A j, k \in DOMAIN s : s[j] = s[k] => j = k
  PROVE  LET t == RemoveSwap(s, i)
         IN  /\ t \in Seq(S)
             /\ {t[j] : j \in DOMAIN t} = {s[j] : j \in DOMAIN s} \ {s[i]}
             /\ \A j, k \in DOMAIN t : t[j] = t[k] => j = k
<1> DEFINE n == Len(s)
           t == RemoveSwap(s, i)
<1>1. /\ n \in Nat /\ DOMAIN s = 1..n /\ i \in 1..n
      /\ \A j \in 1..n : s[j] \in S
  OBVIOUS
<1>2. /\ DOMAIN t = 1..(n - 1)
      /\ \A j \in 1..(n - 1) : t[j] = IF j = i THEN s[n] ELSE s[j]
  BY DEF RemoveSwap
<1>3. t \in Seq(S)
  <2>1. t \in [1..(n - 1) -> S]
    BY <1>1, <1>2 DEF RemoveSwap
  <2> QED
    BY <2>1, <1>1
<1>4. ASSUME NEW x \in {t[j] : j \in DOMAIN t}
      PROVE  x \in {s[j] : j \in DOMAIN s} \ {s[i]}
  <2>1. PICK j \in 1..(n - 1) : x = t[j]
    BY <1>2, <1>4
  <2>2. CASE j = i
    BY <2>1, <2>2, <1>1, <1>2
  <2>3. CASE j # i
    BY <2>1, <2>3, <1>1, <1>2
  <2> QED
    BY <2>2, <2>3
<1>5. ASSUME NEW x \in {s[j] : j \in DOMAIN s} \ {s[i]}
      PROVE  x \in {t[j] : j \in DOMAIN t}
  <2>1. PICK j \in 1..n : x = s[j] /\ j # i
    BY <1>1, <1>5
  <2>2. CASE j = n
    <3>1. i \in 1..(n - 1) /\ t[i] = x
      BY <2>1, <2>2, <1>1, <1>2
    <3> QED
      BY <3>1, <1>2
  <2>3. CASE j # n
    <3>1. j \in 1..(n - 1)
      <4>1. n \in Nat /\ j \in 1..n /\ j # n
        BY <2>3, <1>1
      <4> HIDE DEF n
      <4> QED
        BY <4>1
    <3>2. t[j] = s[j]
      BY <3>1, <2>1, <1>2
    <3> QED
      BY <3>1, <3>2, <2>1, <1>2
  <2> QED
    BY <2>2, <2>3
<1>6. ASSUME NEW j \in DOMAIN t, NEW k \in DOMAIN t, t[j] = t[k]
      PROVE  j = k
  BY <1>1, <1>2, <1>6
<1> HIDE DEF t
<1>7. {t[j] : j \in DOMAIN t} = {s[j] : j \in DOMAIN s} \ {s[i]}
  BY <1>4, <1>5
<1> QED
  BY <1>3, <1>6, <1>7 DEF t

LEMMA BlockFinite == IsFiniteSet(Block)
<1>1. IsFiniteSet(0..(BlocksPerPiece - 1))
  BY FS_Interval, PickerAssumption
<1> QED
  BY <1>1, PieceFinite, FS_Product DEF Block

LEMMA RealBlocksAre ==
  ASSUME NEW p \in Piece
  PROVE  /\ RealCount(p) \in 1..BlocksPerPiece
         /\ RealBlocks(p) = {b \in Block : b[1] = p /\ b[2] < RealCount(p)}
<1>1. RealCount(p) \in 1..BlocksPerPiece
  BY PickerAssumption DEF RealCount
<1>2. RealBlocks(p) = {<<p, i>> : i \in 0..(RealCount(p) - 1)}
  BY DEF RealBlocks, RealCount
<1> QED
  BY <1>1, <1>2, PickerAssumption DEF Block

LEMMA FileBlocksAre ==
  FileBlocks = {b \in Block : b[2] < RealCount(b[1])}
BY RealBlocksAre, BlockParts DEF FileBlocks

----------------------------------------------------------------------------
(* A piece leaves downloadingPieces.                                        *)

LEMMA ForgetFacts ==
  ASSUME PickerTypeOK, Listed, NEW p \in InProgress, Forget(p)
  PROVE  /\ downloading' \in Seq(Piece)
         /\ InProgress' = InProgress \ {p}
         /\ \A i, j \in DOMAIN downloading' : downloading'[i] = downloading'[j] => i = j
<1> DEFINE i == Position(p)
<1>1. i \in DOMAIN downloading /\ downloading[i] = p
  BY DEF Position, InProgress
<1>2. downloading \in Seq(Piece)
  BY DEF PickerTypeOK
<1>3. \A j, k \in DOMAIN downloading : downloading[j] = downloading[k] => j = k
  BY DEF Listed
<1>4. downloading' = RemoveSwap(downloading, i)
  BY DEF Forget
<1> HIDE DEF i
<1> DEFINE t == RemoveSwap(downloading, i)
<1>5. /\ t \in Seq(Piece)
      /\ {t[j] : j \in DOMAIN t} = {downloading[j] : j \in DOMAIN downloading} \ {p}
      /\ \A j, k \in DOMAIN t : t[j] = t[k] => j = k
  BY <1>1, <1>2, <1>3, RemoveSwapFacts
<1>6. InProgress' = {t[j] : j \in DOMAIN t}
  BY <1>4 DEF InProgress
<1> HIDE DEF t
<1> QED
  BY <1>4, <1>5, <1>6 DEF InProgress, t

\* Blocks are handed out: what is picked, and what becomes of the list.
LEMMA PickFacts ==
  ASSUME PickerTypeOK, Listed, NEW n \in Nat, NEW peer \in Peer, PickPieces(n, peer)
  PROVE  /\ Picked(n, peer) \subseteq Block
         /\ Chosen(n, peer) \subseteq Piece \ pieces
         /\ \A b \in Picked(n, peer) :
              \/ b \in FreeBlocks
              \/ Speed[peer] # Slow /\ b \in requested \ finished
              \/ b[1] \in Chosen(n, peer) /\ b[2] < BlocksInPiece(b[1])
         /\ downloading' \in Seq(Piece)
         /\ InProgress' = InProgress \cup Chosen(n, peer)
         /\ \A i, j \in DOMAIN downloading' : downloading'[i] = downloading'[j] => i = j
<1> DEFINE chosen == Chosen(n, peer)
<1>1. chosen \subseteq Piece \ pieces
  BY DEF Chosen
<1>2. \A b \in Picked(n, peer) :
        \/ b \in FreeBlocks
        \/ Speed[peer] # Slow /\ b \in ReRequestable(peer)
        \/ b \in NewBlocks(chosen)
  BY DEF Picked, Candidates, OldCandidates
<1>3. FreeBlocks \subseteq Block /\ ReRequestable(peer) \subseteq requested \ finished
  BY DEF FreeBlocks, ReRequestable
<1>4. \A b \in NewBlocks(chosen) :
        b \in Block /\ b[1] \in chosen /\ b[2] < BlocksInPiece(b[1])
  BY DEF NewBlocks
<1>5. requested \subseteq Block
  BY DEF PickerTypeOK
<1>6. PICK new \in Ascending(chosen) : downloading' = downloading \o new
  BY DEF PickPieces
<1>7. downloading \in Seq(Piece)
  BY DEF PickerTypeOK
<1>8. /\ new \in Seq(Piece)
      /\ \A i \in DOMAIN new : new[i] \in chosen
      /\ \A x \in chosen : \E i \in DOMAIN new : new[i] = x
      /\ \A i, j \in DOMAIN new : new[i] = new[j] => i = j
  <2>1. new \in Arrangements(chosen)
    BY <1>6 DEF Ascending
  <2> QED
    BY <1>1, <2>1, ArrangementSeq
<1>9. \A i \in DOMAIN downloading : downloading[i] \in pieces
  BY DEF Listed, InProgress
<1>10. \A i, j \in DOMAIN downloading : downloading[i] = downloading[j] => i = j
  BY DEF Listed
<1> HIDE DEF chosen
<1>11. downloading' \in Seq(Piece)
  BY <1>6, <1>7, <1>8
<1> DEFINE k == Len(downloading)
           m == Len(new)
<1>12. /\ k \in Nat /\ m \in Nat
       /\ DOMAIN downloading = 1..k /\ DOMAIN new = 1..m
       /\ DOMAIN downloading' = 1..(k + m)
       /\ \A i \in 1..k : downloading'[i] = downloading[i]
       /\ \A i \in (k + 1)..(k + m) : downloading'[i] = new[i - k]
  BY <1>6, <1>7, <1>8
<1> HIDE DEF k, m
<1>13. \A i \in 1..(k + m) :
         \/ i \in 1..k /\ downloading'[i] = downloading[i]
         \/ i \in (k + 1)..(k + m) /\ i - k \in 1..m /\ downloading'[i] = new[i - k]
  BY <1>12
<1>14. InProgress' = InProgress \cup chosen
  <2>1. ASSUME NEW x \in InProgress' PROVE x \in InProgress \cup chosen
    <3>1. PICK i \in 1..(k + m) : downloading'[i] = x
      BY <1>12, <2>1 DEF InProgress
    <3> QED
      BY <3>1, <1>8, <1>12, <1>13 DEF InProgress
  <2>2. ASSUME NEW x \in InProgress PROVE x \in InProgress'
    <3>1. PICK i \in 1..k : downloading[i] = x
      BY <1>12, <2>2 DEF InProgress
    <3>2. i \in 1..(k + m) /\ downloading'[i] = x
      BY <3>1, <1>12
    <3> QED
      BY <3>2, <1>12 DEF InProgress
  <2>3. ASSUME NEW x \in chosen PROVE x \in InProgress'
    <3>1. PICK i \in 1..m : new[i] = x
      BY <1>8, <1>12, <2>3
    <3>2. k + i \in (k + 1)..(k + m) /\ k + i \in 1..(k + m) /\ (k + i) - k = i
      BY <1>12
    <3>3. downloading'[k + i] = x
      BY <3>1, <3>2, <1>12
    <3> QED
      BY <3>2, <3>3, <1>12 DEF InProgress
  <2> QED
    BY <2>1, <2>2, <2>3
<1>15. ASSUME NEW i \in DOMAIN downloading', NEW j \in DOMAIN downloading',
              downloading'[i] = downloading'[j]
       PROVE  i = j
  <2>1. i \in 1..(k + m) /\ j \in 1..(k + m)
    BY <1>12, <1>15
  <2>2. CASE i \in 1..k /\ j \in 1..k
    BY <2>2, <1>10, <1>12, <1>15
  <2>3. CASE i \notin 1..k /\ j \notin 1..k
    <3>1. new[i - k] = new[j - k] /\ i - k \in 1..m /\ j - k \in 1..m
      BY <2>1, <2>3, <1>13, <1>15
    <3>2. i - k = j - k
      BY <3>1, <1>8, <1>12
    <3> QED
      BY <3>2, <2>1, <1>12
  <2>4. CASE i \in 1..k /\ j \notin 1..k
    BY <2>1, <2>4, <1>1, <1>8, <1>9, <1>12, <1>13, <1>15
  <2>5. CASE i \notin 1..k /\ j \in 1..k
    BY <2>1, <2>5, <1>1, <1>8, <1>9, <1>12, <1>13, <1>15
  <2> QED
    BY <2>2, <2>3, <2>4, <2>5
<1> QED
  BY <1>1, <1>2, <1>3, <1>4, <1>5, <1>11, <1>14, <1>15 DEF chosen, Picked, Candidates, OldCandidates

----------------------------------------------------------------------------
(* What each operator keeps.                                                *)

LEMMA CountIs ==
  ASSUME PickerTypeOK, NEW p \in Piece
  PROVE  /\ BlocksInPiece(p) = IF p = NumPieces - 1 THEN blocksInLastPiece ELSE BlocksPerPiece
         /\ BlocksInPiece(p) \in 0..BlocksPerPiece
         /\ BlocksInPiece(p) # 0 => BlocksInPiece(p) = RealCount(p)
<1>1. /\ NumPieces \in Nat /\ p \in Int /\ blocksInLastPiece \in {0, LastPieceBlocks}
      /\ BlocksPerPiece \in Nat /\ LastPieceBlocks \in 0..BlocksPerPiece
  BY PickerAssumption DEF Piece, PickerTypeOK
<1>2. BlocksInPiece(p) = IF p = NumPieces - 1 THEN blocksInLastPiece ELSE BlocksPerPiece
  BY <1>1 DEF BlocksInPiece
<1> QED
  BY <1>1, <1>2 DEF RealCount

LEMMA CreateMakesPickerInv == CreatePiecePicker => PickerInv
<1> SUFFICES ASSUME CreatePiecePicker PROVE PickerInv
  OBVIOUS
<1>1. PickerTypeOK
  BY PickerAssumption DEF CreatePiecePicker, PickerTypeOK
<1>2. InProgress = {}
  BY DEF InProgress, CreatePiecePicker
<1> QED
  BY <1>1, <1>2 DEF PickerInv, CreatePiecePicker, Listed, MarksFit, Sized

\* PickPieces gives out blocks of the file, of pieces that are downloading then.
LEMMA PickKeepsPickerInv ==
  ASSUME PickerInv, NEW n \in Nat, NEW peer \in Peer, PickPieces(n, peer)
  PROVE  /\ PickerInv'
         /\ Picked(n, peer) \subseteq FileBlocks
         /\ \A b \in Picked(n, peer) : b[1] \in InProgress'
<1> DEFINE picked == Picked(n, peer)
           chosen == Chosen(n, peer)
<1>1. PickerTypeOK /\ Listed /\ MarksFit /\ Sized
  BY DEF PickerInv
<1>2. /\ picked \subseteq Block
      /\ chosen \subseteq Piece \ pieces
      /\ \A b \in picked :
           \/ b \in FreeBlocks
           \/ Speed[peer] # Slow /\ b \in requested \ finished
           \/ b[1] \in chosen /\ b[2] < BlocksInPiece(b[1])
      /\ downloading' \in Seq(Piece)
      /\ InProgress' = InProgress \cup chosen
      /\ \A i, j \in DOMAIN downloading' : downloading'[i] = downloading'[j] => i = j
  BY <1>1, PickFacts
<1>3. /\ pieces' = pieces \cup chosen
      /\ size' = [p \in Piece |-> IF p \in chosen THEN BlocksInPiece(p) ELSE size[p]]
      /\ requested' = requested \cup picked
      /\ downloaders' = [b \in Block |-> IF b \in picked THEN downloaders[b] + 1
                                                         ELSE downloaders[b]]
      /\ lastDownloader' = [b \in Block |-> IF b \in picked THEN peer
                                                            ELSE lastDownloader[b]]
      /\ blocksInLastPiece' = blocksInLastPiece /\ finished' = finished
  BY DEF PickPieces
<1>4. \A p \in Piece : /\ BlocksInPiece(p) \in 0..BlocksPerPiece
                       /\ BlocksInPiece(p) # 0 => BlocksInPiece(p) = RealCount(p)
                       /\ BlocksInPiece(p) = IF p = NumPieces - 1 THEN blocksInLastPiece
                                                                  ELSE BlocksPerPiece
  BY <1>1, CountIs
<1>5. ASSUME NEW b \in picked
      PROVE  b[1] \in InProgress' /\ b[2] < size'[b[1]] /\ b \in FileBlocks
  <2>1. b \in Block /\ b[1] \in Piece /\ b[2] \in Nat
    BY <1>2, <1>5, BlockParts, PickerAssumption
  <2>2. CASE b[1] \in chosen
    <3>1. b \notin requested /\ b \notin FreeBlocks
      BY <2>2, <1>1, <1>2 DEF Listed, MarksFit, FreeBlocks
    <3>2. b[2] < BlocksInPiece(b[1])
      BY <3>1, <1>2, <1>5
    <3>3. BlocksInPiece(b[1]) = RealCount(b[1])
      BY <3>2, <2>1, <1>4
    <3>4. b \in FileBlocks
      BY <2>1, <3>2, <3>3, FileBlocksAre
    <3> QED
      BY <3>2, <3>4, <2>1, <2>2, <1>2, <1>3
  <2>3. CASE b[1] \notin chosen
    <3>1. b[1] \in InProgress /\ b[2] < size[b[1]]
      BY <2>1, <2>3, <1>1, <1>2, <1>5 DEF FreeBlocks, MarksFit
    <3>2. size[b[1]] = RealCount(b[1])
      BY <3>1, <2>1, <1>1 DEF Sized
    <3>3. b \in FileBlocks
      BY <2>1, <3>1, <3>2, FileBlocksAre
    <3> QED
      BY <3>1, <3>3, <2>1, <2>3, <1>2, <1>3
  <2> QED
    BY <2>2, <2>3
<1> HIDE DEF picked, chosen
<1>6. PickerTypeOK'
  BY <1>1, <1>2, <1>3, <1>4 DEF PickerTypeOK
<1>7. Listed'
  BY <1>1, <1>2, <1>3 DEF Listed
<1>8. MarksFit'
  <2>1. ASSUME NEW b \in requested'
        PROVE  b[1] \in InProgress' /\ b[2] < size'[b[1]]
    <3>1. CASE b \in picked
      BY <3>1, <1>5
    <3>2. CASE b \in requested
      <4>1. b[1] \in InProgress /\ b[2] < size[b[1]] /\ b[1] \in Piece
        BY <3>2, <1>1, BlockParts DEF MarksFit, PickerTypeOK
      <4>2. b[1] \notin chosen
        BY <4>1, <1>1, <1>2 DEF Listed
      <4> QED
        BY <4>1, <4>2, <1>2, <1>3
    <3> QED
      BY <3>1, <3>2, <2>1, <1>3
  <2> QED
    BY <2>1, <1>1, <1>3 DEF MarksFit
<1>9. Sized'
  <2> SUFFICES ASSUME NEW p \in Piece
               PROVE  \/ p \in InProgress' /\ size'[p] = RealCount(p)
                      \/ /\ size'[p] = 0
                         /\ p \in InProgress' => p = NumPieces - 1 /\ blocksInLastPiece' = 0
    BY DEF Sized, RealCount
  <2>1. CASE p \in chosen
    BY <1>2, <1>3, <1>4, <2>1, PickerAssumption
  <2>2. CASE p \notin chosen
    BY <2>2, <1>1, <1>2, <1>3 DEF Sized
  <2> QED
    BY <2>1, <2>2
<1> QED
  BY <1>5, <1>6, <1>7, <1>8, <1>9 DEF PickerInv, picked

LEMMA AbortKeepsPickerInv ==
  ASSUME PickerInv, NEW b \in Block, NEW peer \in Peer, AbortBlock(b, peer)
  PROVE  PickerInv' /\ InProgress' = InProgress
<1>1. PickerTypeOK /\ Listed /\ MarksFit /\ Sized
  BY DEF PickerInv
<1>2. CASE UNCHANGED pickerVars
  BY <1>1, <1>2 DEF PickerInv, PickerTypeOK, Listed, MarksFit, Sized, RealCount, InProgress,
                    pickerVars
<1>3. CASE b \notin finished /\ ~UNCHANGED pickerVars
  <2>1. /\ downloaders' = [downloaders EXCEPT ![b] = @ - 1]
        /\ requested' = IF downloaders[b] = 1 THEN requested \ {b} ELSE requested
        /\ lastDownloader' = [lastDownloader EXCEPT ![b] = IF @ = peer THEN NoPeer ELSE @]
        /\ UNCHANGED <<blocksInLastPiece, pieces, downloading, size, finished>>
    BY <1>3 DEF AbortBlock
  <2>2. PickerTypeOK'
    BY <1>1, <2>1 DEF PickerTypeOK
  <2>3. InProgress' = InProgress
    BY <2>1 DEF InProgress
  <2> QED
    BY <1>1, <1>3, <2>1, <2>2, <2>3 DEF PickerInv, Listed, MarksFit, Sized, RealCount
<1> QED
  BY <1>2, <1>3 DEF AbortBlock

LEMMA FinishKeepsPickerInv ==
  ASSUME PickerInv, NEW b \in Block, FinishBlock(b), ~FinishPanics(b)
  PROVE  PickerInv' /\ InProgress' = InProgress
<1>1. PickerTypeOK /\ Listed /\ MarksFit /\ Sized
  BY DEF PickerInv
<1>2. CASE b[1] \notin InProgress
  BY <1>1, <1>2 DEF FinishBlock, PickerInv, PickerTypeOK, Listed, MarksFit, Sized, RealCount,
                    InProgress, pickerVars
<1>3. CASE b[1] \in InProgress
  <2>1. /\ finished' = finished \cup {b}
        /\ downloaders' = [downloaders EXCEPT ![b] = @ - 1]
        /\ lastDownloader' = [lastDownloader EXCEPT ![b] = NoPeer]
        /\ UNCHANGED <<blocksInLastPiece, pieces, downloading, size, requested>>
    BY <1>3 DEF FinishBlock
  <2>2. b \in requested
    BY <1>3 DEF FinishPanics
  <2>3. PickerTypeOK'
    BY <1>1, <2>1 DEF PickerTypeOK
  <2>4. InProgress' = InProgress
    BY <2>1 DEF InProgress
  <2> QED
    BY <1>1, <2>1, <2>2, <2>3, <2>4 DEF PickerInv, Listed, MarksFit, Sized, RealCount
<1> QED
  BY <1>2, <1>3

\* A piece is dropped, with its bit or without.
LEMMA ForgetKeepsPickerInv ==
  ASSUME PickerInv, NEW p \in InProgress, Forget(p),
         UNCHANGED pieces \/ pieces' = pieces \ {p}
  PROVE  PickerInv' /\ InProgress' = InProgress \ {p}
<1>1. PickerTypeOK /\ Listed /\ MarksFit /\ Sized
  BY DEF PickerInv
<1>2. /\ downloading' \in Seq(Piece)
      /\ InProgress' = InProgress \ {p}
      /\ \A i, j \in DOMAIN downloading' : downloading'[i] = downloading'[j] => i = j
  BY <1>1, ForgetFacts
<1>3. /\ size' = [size EXCEPT ![p] = 0]
      /\ requested' = {b \in requested : b[1] # p}
      /\ finished' = {b \in finished : b[1] # p}
      /\ downloaders' = [b \in Block |-> IF b[1] = p THEN 0 ELSE downloaders[b]]
      /\ lastDownloader' = [b \in Block |-> IF b[1] = p THEN NoPeer ELSE lastDownloader[b]]
      /\ blocksInLastPiece' = blocksInLastPiece
  BY DEF Forget
<1>4. p \in pieces /\ p \in Piece
  BY <1>1 DEF Listed, PickerTypeOK
<1>5. \A q \in Piece : size'[q] = IF q = p THEN 0 ELSE size[q]
  BY <1>1, <1>3 DEF PickerTypeOK
<1>6. PickerTypeOK'
  BY <1>1, <1>2, <1>3, <1>4, PickerAssumption DEF PickerTypeOK
<1>7. Listed'
  BY <1>1, <1>2 DEF Listed
<1>8. MarksFit'
  BY <1>1, <1>2, <1>3, <1>5, BlockParts DEF MarksFit, PickerTypeOK
<1>9. Sized'
  BY <1>1, <1>2, <1>3, <1>5 DEF Sized, RealCount
<1> QED
  BY <1>2, <1>6, <1>7, <1>8, <1>9 DEF PickerInv

\* What can be restored: the saved pieces have their bits, and lengths the picker gave
\* them; the marks are within them.
Restorable(savedPieces, savedBlocks, savedSize) ==
  /\ savedPieces \subseteq Piece
  /\ DOMAIN savedBlocks \subseteq savedPieces
  /\ \A p \in DOMAIN savedBlocks :
       /\ savedSize[p] = RealCount(p) \/ (savedSize[p] = 0 /\ p = NumPieces - 1)
       /\ savedBlocks[p] \subseteq {b \in Block : b[1] = p /\ b[2] < savedSize[p]}

LEMMA RestoreMakesPickerInv ==
  ASSUME NEW P, NEW B, NEW S, Restorable(P, B, S), FromResumeData(P, B, S)
  PROVE  /\ PickerInv'
         /\ InProgress' = DOMAIN B /\ pieces' = P
         /\ \A p \in DOMAIN B : size'[p] = S[p] /\ (finished \cap BlocksOf(p))' = B[p]
         /\ finished' \subseteq FileBlocks /\ requested' = finished'
<1>1. /\ P \subseteq Piece /\ DOMAIN B \subseteq P /\ DOMAIN B \in SUBSET Piece
      /\ \A p \in DOMAIN B :
           /\ S[p] = RealCount(p) \/ (S[p] = 0 /\ p = NumPieces - 1)
           /\ \A b \in B[p] : b \in Block /\ b[1] = p /\ b[2] < S[p]
  BY DEF Restorable
<1>2. /\ blocksInLastPiece' = 0
      /\ pieces' = P
      /\ downloading' \in Arrangements(DOMAIN B)
      /\ size' = [p \in Piece |-> IF p \in DOMAIN B THEN S[p] ELSE 0]
      /\ finished' = UNION {B[p] : p \in DOMAIN B}
      /\ requested' = finished'
      /\ downloaders' = [b \in Block |-> 0]
      /\ lastDownloader' = [b \in Block |-> NoPeer]
  BY DEF FromResumeData
<1>3. /\ downloading' \in Seq(Piece)
      /\ \A i \in DOMAIN downloading' : downloading'[i] \in DOMAIN B
      /\ \A x \in DOMAIN B : \E i \in DOMAIN downloading' : downloading'[i] = x
      /\ \A i, j \in DOMAIN downloading' : downloading'[i] = downloading'[j] => i = j
  BY <1>1, <1>2, ArrangementSeq
<1>4. InProgress' = DOMAIN B
  <2>1. InProgress' = {downloading'[i] : i \in DOMAIN downloading'}
    BY DEF InProgress
  <2> DEFINE D == DOMAIN B
  <2>2. /\ \A i \in DOMAIN downloading' : downloading'[i] \in D
        /\ \A x \in D : \E i \in DOMAIN downloading' : downloading'[i] = x
    BY <1>3
  <2> HIDE DEF D
  <2>3. InProgress' = D
    BY <2>1, <2>2
  <2> QED
    BY <2>3 DEF D
<1>5. \A p \in DOMAIN B : p \in Piece /\ S[p] \in 0..BlocksPerPiece
  BY <1>1, RealBlocksAre, PickerAssumption
<1>6. \A b \in finished' : b \in Block /\ b[1] \in DOMAIN B /\ b \in B[b[1]] /\ b[2] < S[b[1]]
  BY <1>1, <1>2
<1>7. PickerTypeOK'
  BY <1>1, <1>2, <1>3, <1>5, <1>6, PickerAssumption DEF PickerTypeOK
<1>8. Listed'
  BY <1>1, <1>2, <1>3, <1>4 DEF Listed
<1>9. MarksFit'
  BY <1>2, <1>4, <1>5, <1>6 DEF MarksFit
<1>10. Sized'
  BY <1>1, <1>2, <1>4 DEF Sized, RealCount
<1>11. ASSUME NEW p \in DOMAIN B
       PROVE  size'[p] = S[p] /\ (finished \cap BlocksOf(p))' = B[p]
  <2>1. size'[p] = S[p]
    BY <1>2, <1>5
  <2>2. (finished \cap BlocksOf(p))' = {b \in finished' : b \in Block /\ b[1] = p /\ b[2] < size'[p]}
    BY DEF BlocksOf
  <2>3. B[p] \subseteq finished'
    BY <1>2
  <2> QED
    BY <2>1, <2>2, <2>3, <1>1, <1>6
<1>12. finished' \subseteq FileBlocks
  <2> SUFFICES ASSUME NEW b \in finished' PROVE b \in FileBlocks
    OBVIOUS
  <2>1. b \in Block /\ b[1] \in DOMAIN B /\ b[2] < S[b[1]] /\ b[2] \in Nat /\ b[1] \in Piece
    BY <1>6, BlockParts, PickerAssumption
  <2>2. S[b[1]] = RealCount(b[1])
    BY <2>1, <1>1
  <2> QED
    BY <2>1, <2>2, FileBlocksAre
<1> QED
  BY <1>2, <1>4, <1>7, <1>8, <1>9, <1>10, <1>11, <1>12 DEF PickerInv

----------------------------------------------------------------------------
(* Counting the blocks of a piece.                                          *)

LEMMA FewBlocks ==
  ASSUME NEW p \in Piece, NEW n \in 0..BlocksPerPiece
  PROVE  LET B == {b \in Block : b[1] = p /\ b[2] < n}
         IN  IsFiniteSet(B) /\ Cardinality(B) \in Nat /\ Cardinality(B) <= n
<1> DEFINE B == {b \in Block : b[1] = p /\ b[2] < n}
           f == [b \in B |-> b[2]]
           T == 0..(n - 1)
<1>1. \A b \in B : b \in Block /\ b[1] = p /\ b[2] \in T
  BY BlockParts, PickerAssumption
<1>2. IsFiniteSet(T) /\ Cardinality(T) = n
  BY FS_Interval, PickerAssumption
<1> HIDE DEF B, T
<1>3. f \in [B -> T]
  BY <1>1
<1>4. ASSUME NEW x \in B, NEW y \in B, f[x] = f[y] PROVE x = y
  BY <1>1, <1>4 DEF Block
<1> HIDE DEF f
<1>5. f \in Injection(B, T)
  BY <1>3, <1>4 DEF Injection, IsInjective
<1>6. IsFiniteSet(B) /\ Cardinality(B) <= n
  BY <1>2, <1>5, FS_Injection
<1>7. Cardinality(B) \in Nat
  BY <1>6, FS_CardinalityType
<1> QED
  BY <1>6, <1>7 DEF B

\* As many of the first n blocks as there are, are all of them.
LEMMA AllBlocks ==
  ASSUME NEW p \in Piece, NEW n \in 0..BlocksPerPiece,
         NEW S \in SUBSET {b \in Block : b[1] = p /\ b[2] < n},
         Cardinality(S) = n
  PROVE  S = {b \in Block : b[1] = p /\ b[2] < n}
<1> DEFINE B == {b \in Block : b[1] = p /\ b[2] < n}
<1>1. IsFiniteSet(B) /\ Cardinality(B) \in Nat /\ Cardinality(B) <= n
  BY FewBlocks
<1>2. S \in SUBSET B
  OBVIOUS
<1> HIDE DEF B
<1>3. Cardinality(S) <= Cardinality(B)
  BY <1>1, <1>2, FS_Subset
<1>4. Cardinality(S) = Cardinality(B)
  BY <1>1, <1>3, PickerAssumption
<1>5. S = B
  BY <1>1, <1>2, <1>4, FS_Subset
<1> QED
  BY <1>5 DEF B

\* A piece with as many finished blocks as its length has all the file has there,
\* unless its length was forgotten.
LEMMA FullHasAll ==
  ASSUME PickerInv, NEW p \in InProgress, NumHave(p) = size[p], size[p] # 0
  PROVE  RealBlocks(p) \subseteq finished
<1>1. p \in Piece /\ size[p] = RealCount(p) /\ size[p] \in 0..BlocksPerPiece
  BY DEF PickerInv, Listed, Sized, PickerTypeOK
<1> DEFINE H == {b \in BlocksOf(p) : b \in finished}
           B == {b \in Block : b[1] = p /\ b[2] < size[p]}
<1>2. Cardinality(H) = size[p] /\ BlocksOf(p) = B
  BY DEF NumHave, BlocksOf
<1>3. H \in SUBSET B
  BY <1>2
<1> HIDE DEF H
<1>4. H = B
  BY <1>1, <1>2, <1>3, AllBlocks
<1>5. RealBlocks(p) = B
  BY <1>1, RealBlocksAre
<1> QED
  BY <1>4, <1>5 DEF H
----------------------------------------------------------------------------
(* The first n elements of a finite set in an order.                        *)
LEMMA LeastNumber ==
  ASSUME NEW T, T \subseteq Nat, T # {}
  PROVE  \E x \in T : \A y \in T : x <= y
<1>1. PICK x \in T : \A y \in T : ~ (<<y, x>> \in OpToRel(<, Nat))
  BY NatLessThanWellFounded, WFMin
<1>2. \A y \in T : ~(y < x)
  BY <1>1 DEF OpToRel
<1> QED
  BY <1>2

Before(R, C, c) == {d \in C : <<d, c>> \in R}
FirstOf(R, C, n) == {c \in C : Cardinality(Before(R, C, c)) < n}

IsStrictOrder(R, C) ==
  /\ \A x \in C : <<x, x>> \notin R
  /\ \A x, y, z \in C : <<x, y>> \in R /\ <<y, z>> \in R => <<x, z>> \in R
  /\ \A x, y \in C : x # y => <<x, y>> \in R \/ <<y, x>> \in R

LEMMA BeforeGrows ==
  ASSUME NEW R, NEW C, IsFiniteSet(C), IsStrictOrder(R, C),
         NEW x \in C, NEW y \in C, <<x, y>> \in R
  PROVE  Cardinality(Before(R, C, x)) < Cardinality(Before(R, C, y))
<1> DEFINE X == Before(R, C, x)
           Y == Before(R, C, y)
<1>1. X \in SUBSET C /\ Y \in SUBSET C
  BY DEF Before
<1>2. IsFiniteSet(X) /\ IsFiniteSet(Y)
  BY <1>1, FS_Subset
<1>3. Cardinality(X) \in Nat /\ Cardinality(Y) \in Nat
  BY <1>2, FS_CardinalityType
<1>4. x \notin X
  BY DEF Before, IsStrictOrder
<1>5. X \cup {x} \in SUBSET Y
  BY DEF Before, IsStrictOrder
<1> HIDE DEF X, Y
<1>6. Cardinality(X \cup {x}) = Cardinality(X) + 1
  BY <1>2, <1>4, FS_AddElement
<1>7. Cardinality(X \cup {x}) <= Cardinality(Y)
  BY <1>2, <1>5, FS_Subset
<1> QED
  BY <1>3, <1>6, <1>7 DEF X, Y

LEMMA FirstOfFacts ==
  ASSUME NEW R, NEW C, IsFiniteSet(C), IsStrictOrder(R, C), NEW n \in Nat
  PROVE  /\ Cardinality(FirstOf(R, C, n)) \in Nat
         /\ Cardinality(FirstOf(R, C, n)) <= n
         /\ Cardinality(FirstOf(R, C, n)) < n => FirstOf(R, C, n) = C
<1> DEFINE F == FirstOf(R, C, n)
           count == [c \in C |-> Cardinality(Before(R, C, c))]
<1>1. ASSUME NEW c \in C PROVE count[c] \in Nat /\ count[c] = Cardinality(Before(R, C, c))
  <2>1. Before(R, C, c) \in SUBSET C
    BY DEF Before
  <2>2. Cardinality(Before(R, C, c)) \in Nat
    BY <2>1, FS_Subset, FS_CardinalityType
  <2> QED
    BY <2>2
<1>2. ASSUME NEW x \in C, NEW y \in C, <<x, y>> \in R PROVE count[x] < count[y]
  BY <1>1, <1>2, BeforeGrows
<1> HIDE DEF count
<1>3. F = {c \in C : count[c] < n}
  BY <1>1 DEF FirstOf
<1>4. IsFiniteSet(F)
  <2>1. F \in SUBSET C
    BY <1>3
  <2> QED
    BY <2>1, FS_Subset
<1>5. Cardinality(F) \in Nat
  BY <1>4, FS_CardinalityType
<1> HIDE DEF F
<1>6. Cardinality(F) <= n
  <2> DEFINE f == [c \in F |-> count[c]]
             T == 0..(n - 1)
  <2>1. f \in [F -> T]
    BY <1>1, <1>3
  <2>2. ASSUME NEW x \in F, NEW y \in F, f[x] = f[y] PROVE x = y
    <3>1. x \in C /\ y \in C /\ count[x] = count[y]
      BY <1>3, <2>2
    <3>2. ~(count[x] < count[y]) /\ ~(count[y] < count[x])
      BY <1>1, <3>1
    <3> QED
      BY <1>2, <3>1, <3>2 DEF IsStrictOrder
  <2>3. f \in Injection(F, T)
    <3> HIDE DEF f, T
    <3>1. f \in [F -> T] /\ \A x, y \in F : f[x] = f[y] => x = y
      BY <2>1, <2>2
    <3> QED
      BY <3>1 DEF Injection, IsInjective
  <2>4. IsFiniteSet(T) /\ Cardinality(T) = n
    BY FS_Interval
  <2> HIDE DEF f, T
  <2> QED
    BY <2>3, <2>4, FS_Injection
<1>7. ASSUME Cardinality(F) < n PROVE F = C
  <2>1. SUFFICES ASSUME C \ F # {} PROVE FALSE
    BY <1>3
  <2> DEFINE T == {count[c] : c \in C \ F}
  <2>2. T \subseteq Nat /\ T # {}
    BY <1>1, <2>1
  <2>3. PICK m \in T : \A k \in T : m <= k
    BY <2>2, LeastNumber
  <2>4. PICK c \in C \ F : count[c] = m
    BY <2>3
  <2>5. Before(R, C, c) \subseteq F
    <3>1. SUFFICES ASSUME NEW d \in C \ F, <<d, c>> \in R PROVE FALSE
      BY DEF Before
    <3>2. count[d] < count[c] /\ count[d] \in Nat /\ count[c] \in Nat
      BY <1>1, <1>2, <2>4, <3>1
    <3>3. count[c] <= count[d]
      BY <2>3, <2>4, <3>1
    <3> QED
      BY <3>2, <3>3
  <2>6. Cardinality(Before(R, C, c)) <= Cardinality(F)
    <3>1. Before(R, C, c) \in SUBSET F
      BY <2>5
    <3> QED
      BY <3>1, <1>4, FS_Subset
  <2>7. count[c] \in Nat /\ ~(count[c] < n) /\ count[c] = Cardinality(Before(R, C, c))
    BY <1>1, <1>3, <2>4
  <2> QED
    BY <1>5, <1>7, <2>6, <2>7
<1> QED
  BY <1>5, <1>6, <1>7 DEF F

----------------------------------------------------------------------------
(* The order in which PickPieces walks.                                     *)
WalkOrder == {e \in Block \X Block : PickedBefore(e[1], e[2])}

LEMMA RankType ==
  ASSUME PickerTypeOK, NEW b \in Block
  PROVE  /\ PickRank(b)[1] \in Int
         /\ PickRank(b)[2] \in Int
         /\ PickRank(b)[3] = b[2] /\ b[2] \in Int
         /\ b[1] \notin InProgress => PickRank(b)[1] = 2 /\ PickRank(b)[2] = b[1]
         /\ b[1] \in InProgress => /\ PickRank(b)[1] \in {0, 1}
                                  /\ PickRank(b)[2] \in DOMAIN downloading
                                  /\ downloading[PickRank(b)[2]] = b[1]
<1>1. b[1] \in Int /\ b[2] \in Int
  BY BlockParts, PickerAssumption DEF Piece
<1>2. CASE b[1] \notin InProgress
  BY <1>1, <1>2 DEF PickRank
<1>3. CASE b[1] \in InProgress
  <2>1. Position(b[1]) \in DOMAIN downloading /\ downloading[Position(b[1])] = b[1]
    BY <1>3 DEF Position, InProgress
  <2>2. DOMAIN downloading \subseteq Int
    BY DEF PickerTypeOK
  <2>3. PickRank(b) = <<IF b \in requested THEN 1 ELSE 0, Position(b[1]), b[2]>>
    BY <1>3 DEF PickRank
  <2> QED
    BY <1>1, <1>3, <2>1, <2>2, <2>3
<1> QED
  BY <1>2, <1>3

LEMMA WalkOrderIs ==
  ASSUME NEW b \in Block, NEW c \in Block
  PROVE  LET r == PickRank(b)
             s == PickRank(c)
         IN  <<b, c>> \in WalkOrder <=>
               \/ r[1] < s[1]
               \/ r[1] = s[1] /\ r[2] < s[2]
               \/ r[1] = s[1] /\ r[2] = s[2] /\ r[3] < s[3]
<1> DEFINE r == PickRank(b)
           s == PickRank(c)
           Less(i) == r[i] < s[i] /\ \A j \in 1..(i - 1) : r[j] = s[j]
<1>1. <<b, c>> \in WalkOrder <=> \E i \in 1..3 : Less(i)
  BY DEF WalkOrder, PickedBefore
<1>2. (\E i \in 1..3 : Less(i)) <=> Less(1) \/ Less(2) \/ Less(3)
  <2>1. 1..3 = {1, 2, 3}
    OBVIOUS
  <2> HIDE DEF Less
  <2> QED
    BY <2>1
<1>3. 1..(1 - 1) = {} /\ 1..(2 - 1) = {1} /\ 1..(3 - 1) = {1, 2}
  OBVIOUS
<1> HIDE DEF r, s
<1>4. /\ Less(1) <=> r[1] < s[1]
      /\ Less(2) <=> r[2] < s[2] /\ r[1] = s[1]
      /\ Less(3) <=> r[3] < s[3] /\ r[1] = s[1] /\ r[2] = s[2]
  BY <1>3
<1> QED
  BY <1>1, <1>2, <1>4 DEF r, s

LEMMA WalkOrderStrict ==
  ASSUME PickerTypeOK, NEW C \in SUBSET Block
  PROVE  IsStrictOrder(WalkOrder, C)
<1> DEFINE R(b) == PickRank(b)
<1>1. \A b \in C : b \in Block /\ R(b)[1] \in Int /\ R(b)[2] \in Int /\ R(b)[3] \in Int
  BY RankType
<1>2. \A b, c \in C :
        <<b, c>> \in WalkOrder <=>
          \/ R(b)[1] < R(c)[1]
          \/ R(b)[1] = R(c)[1] /\ R(b)[2] < R(c)[2]
          \/ R(b)[1] = R(c)[1] /\ R(b)[2] = R(c)[2] /\ R(b)[3] < R(c)[3]
  BY WalkOrderIs
\* Blocks of the same rank are the same.
<1>3. ASSUME NEW b \in C, NEW c \in C,
             R(b)[1] = R(c)[1], R(b)[2] = R(c)[2], R(b)[3] = R(c)[3]
      PROVE  b = c
  <2>1. b[2] = c[2]
    BY <1>3, RankType
  <2>2. b[1] = c[1]
    BY <1>3, RankType
  <2> QED
    BY <2>1, <2>2 DEF Block
<1> HIDE DEF R
<1>4. \A x \in C : <<x, x>> \notin WalkOrder
  BY <1>1, <1>2
<1>5. ASSUME NEW x \in C, NEW y \in C, NEW z \in C,
             <<x, y>> \in WalkOrder, <<y, z>> \in WalkOrder
      PROVE  <<x, z>> \in WalkOrder
  BY <1>1, <1>2, <1>5
<1>6. ASSUME NEW x \in C, NEW y \in C, x # y
      PROVE  <<x, y>> \in WalkOrder \/ <<y, x>> \in WalkOrder
  BY <1>1, <1>2, <1>3, <1>6
<1> QED
  BY <1>4, <1>5, <1>6 DEF IsStrictOrder

\* No more blocks are picked than were asked for, and fewer only if all
\* candidates are.
LEMMA PickedCount ==
  ASSUME PickerTypeOK, NEW n \in Nat, NEW peer \in Peer
  PROVE  /\ IsFiniteSet(Candidates(n, peer))
         /\ Cardinality(Picked(n, peer)) \in Nat
         /\ Cardinality(Picked(n, peer)) <= n
         /\ Cardinality(Picked(n, peer)) < n => Picked(n, peer) = Candidates(n, peer)
<1> DEFINE C == Candidates(n, peer)
<1>1. C \in SUBSET Block
  BY DEF Candidates, OldCandidates, FreeBlocks, ReRequestable, NewBlocks, PickerTypeOK
<1>2. IsFiniteSet(C)
  BY <1>1, BlockFinite, FS_Subset
<1>3. IsStrictOrder(WalkOrder, C)
  BY <1>1, WalkOrderStrict
<1>4. Picked(n, peer) = FirstOf(WalkOrder, C, n)
  <2>1. ASSUME NEW b \in C
        PROVE  {c \in C : PickedBefore(c, b)} = Before(WalkOrder, C, b)
    BY <1>1 DEF Before, WalkOrder
  <2> QED
    BY <2>1 DEF Picked, FirstOf
<1> HIDE DEF C
<1> QED
  BY <1>2, <1>3, <1>4, FirstOfFacts DEF C

----------------------------------------------------------------------------
(* The pool of blocks as a view of the picker.                              *)

Done == finished \cup UNION {RealBlocks(p) : p \in pieces \ InProgress}

LEMMA DoneIs ==
  ASSUME PickerTypeOK, NEW b \in Block
  PROVE  b \in Done <=> \/ b \in finished
                        \/ b[1] \in pieces \ InProgress /\ b \in FileBlocks
<1>1. pieces \subseteq Piece
  BY DEF PickerTypeOK
<1>2. \A p \in Piece : b \in RealBlocks(p) <=> b[1] = p /\ b \in FileBlocks
  BY RealBlocksAre, FileBlocksAre
<1> HIDE DEF RealBlocks, FileBlocks
<1> QED
  BY <1>1, <1>2 DEF Done

\* A last piece that is lost has no blocks.
LEMMA LostHasNothing ==
  ASSUME PickerInv, LastPieceIsLost
  PROVE  /\ NumPieces - 1 \notin pieces \ InProgress
         /\ RealBlocks(NumPieces - 1) \cap Done = {}
<1>1. PickerTypeOK /\ MarksFit
  BY DEF PickerInv
<1>2. size[NumPieces - 1] = 0 /\ NumPieces - 1 \notin pieces \ InProgress
  BY DEF LastPieceIsLost
<1>3. NumPieces - 1 \in Piece
  BY PickerAssumption DEF Piece
<1>4. ASSUME NEW b \in RealBlocks(NumPieces - 1) PROVE b \notin Done
  <2>1. b \in Block /\ b[1] = NumPieces - 1 /\ b[2] \in Nat
    BY <1>3, <1>4, RealBlocksAre, BlockParts, PickerAssumption
  <2>2. b \notin finished
    BY <1>1, <1>2, <2>1 DEF MarksFit
  <2> QED
    BY <1>1, <1>2, <2>1, <2>2, DoneIs
<1> QED
  BY <1>2, <1>4

\* The blocks that are free, joined or new are of pieces that are not lost.
LEMMA PickedExist ==
  ASSUME PickerInv, NEW n \in Nat, NEW peer \in Peer, PickPieces(n, peer),
         NEW b \in Picked(n, peer)
  PROVE  /\ b \in FileBlocks
         /\ b[1] = NumPieces - 1 => ~LastPieceIsLost
<1>1. PickerTypeOK /\ Listed /\ MarksFit /\ Sized
  BY DEF PickerInv
<1>2. /\ b \in Block
      /\ \/ b \in FreeBlocks
         \/ b \in requested \ finished
         \/ b[1] \in Chosen(n, peer) /\ b[2] < BlocksInPiece(b[1])
      /\ b \in FileBlocks
  BY <1>1, PickFacts, PickKeepsPickerInv
<1>3. b[1] \in Piece /\ b[2] \in Nat
  BY <1>2, BlockParts, PickerAssumption
<1>4. CASE b[1] \in InProgress /\ b[2] < size[b[1]]
  BY <1>2, <1>3, <1>4 DEF LastPieceIsLost
<1>5. CASE b[1] \in Chosen(n, peer) /\ b[2] < BlocksInPiece(b[1])
  <2>1. b[1] = NumPieces - 1 => blocksInLastPiece # 0
    BY <1>1, <1>3, <1>5, CountIs
  <2> QED
    BY <1>2, <2>1 DEF LastPieceIsLost
<1> QED
  BY <1>1, <1>2, <1>4, <1>5 DEF FreeBlocks, MarksFit, Listed

\* An idle block is a candidate when there are fewer candidates than asked for:
\* the walk goes on to the piece of the block.
LEMMA IdleIsCandidate ==
  ASSUME PickerInv, NEW n \in Nat, NEW peer \in Peer,
         IsFiniteSet(Candidates(n, peer)), Cardinality(Candidates(n, peer)) < n,
         NEW b \in FileBlocks, b \notin finished, b[1] \notin pieces \ InProgress,
         b[1] = NumPieces - 1 => ~LastPieceIsLost,
         b \notin requested
  PROVE  b \in Candidates(n, peer)
<1> DEFINE p == b[1]
           Old == OldCandidates(peer)
           New(q) == NewBlocks({r \in Piece \ pieces : r < q})
<1>1. PickerTypeOK /\ Listed /\ MarksFit /\ Sized
  BY DEF PickerInv
<1>2. b \in Block /\ p \in Piece /\ b[2] \in Nat /\ b[2] < RealCount(p)
  BY FileBlocksAre, BlockParts, PickerAssumption
<1>3. CASE p \in InProgress
  <2>2. size[p] = RealCount(p)
    BY <1>1, <1>2, <1>3 DEF Sized, LastPieceIsLost
  <2>3. b \in FreeBlocks
    BY <1>2, <1>3, <2>2 DEF FreeBlocks
  <2> QED
    BY <2>3 DEF Candidates, OldCandidates
<1>4. CASE p \notin InProgress
  <2>1. p \in Piece \ pieces
    BY <1>2, <1>4
  <2>2. BlocksInPiece(p) = RealCount(p)
    <3>1. NumPieces \in Nat /\ p \in Int /\ blocksInLastPiece \in {0, LastPieceBlocks}
      BY <1>1, <1>2, PickerAssumption DEF Piece, PickerTypeOK
    <3>2. BlocksInPiece(p) = IF p = NumPieces - 1 THEN blocksInLastPiece ELSE BlocksPerPiece
      BY <3>1 DEF BlocksInPiece
    <3>3. size[p] = 0
      BY <1>1, <1>2, <1>4 DEF Sized
    <3>4. p = NumPieces - 1 => blocksInLastPiece # 0
      BY <2>1, <3>3 DEF LastPieceIsLost
    <3> QED
      BY <3>1, <3>2, <3>4 DEF RealCount
  \* Otherwise take the first piece the walk does not reach.
  <2>3. SUFFICES ASSUME p \notin Chosen(n, peer) PROVE FALSE
    BY <1>2, <2>2 DEF Candidates, NewBlocks
  <2> DEFINE T == (Piece \ pieces) \ Chosen(n, peer)
  <2>4. T \subseteq Nat /\ T # {}
    BY <2>1, <2>3, PickerAssumption DEF Piece
  <2>5. PICK q \in T : \A r \in T : q <= r
    BY <2>4, LeastNumber
  <2>6. ~(Cardinality(Old) + Cardinality(New(q)) < n)
    BY <2>5 DEF Chosen
  <2>7. {r \in Piece \ pieces : r < q} \subseteq Chosen(n, peer)
    <3>1. SUFFICES ASSUME NEW r \in Piece \ pieces, r < q, r \notin Chosen(n, peer)
                   PROVE  FALSE
      OBVIOUS
    <3>2. q <= r /\ q \in Nat /\ r \in Nat
      BY <2>4, <2>5, <3>1
    <3> QED
      BY <3>1, <3>2
  <2>8. Old \cup New(q) \in SUBSET Candidates(n, peer)
    BY <2>7 DEF Candidates, NewBlocks
  <2>9. Old \cap New(q) = {}
    <3>1. \A c \in Old : c[1] \in InProgress
      BY <1>1 DEF OldCandidates, FreeBlocks, ReRequestable, MarksFit
    <3>2. \A c \in New(q) : c[1] \notin pieces
      BY DEF NewBlocks
    <3> QED
      BY <3>1, <3>2, <1>1 DEF Listed
  <2> HIDE DEF Old, New
  <2>10. IsFiniteSet(Old) /\ IsFiniteSet(New(q))
    <3>1. Old \in SUBSET Candidates(n, peer) /\ New(q) \in SUBSET Candidates(n, peer)
      BY <2>8
    <3> QED
      BY <3>1, FS_Subset
  <2>11. Cardinality(Old \cup New(q)) = Cardinality(Old) + Cardinality(New(q))
    <3>1. Cardinality(Old \cup New(q))
            = Cardinality(Old) + Cardinality(New(q)) - Cardinality(Old \cap New(q))
      BY <2>10, FS_Union
    <3>2. Cardinality(Old) \in Nat /\ Cardinality(New(q)) \in Nat
      BY <2>10, FS_CardinalityType
    <3>3. Cardinality(Old \cap New(q)) = 0
      BY <2>9, FS_EmptySet
    <3> QED
      BY <3>1, <3>2, <3>3
  <2>12. Cardinality(Old \cup New(q)) <= Cardinality(Candidates(n, peer))
    BY <2>8, FS_Subset
  <2>13. /\ Cardinality(Old) \in Nat /\ Cardinality(New(q)) \in Nat
         /\ Cardinality(Candidates(n, peer)) \in Nat
    BY <2>10, FS_CardinalityType
  <2> QED
    BY <2>6, <2>11, <2>12, <2>13
<1> QED
  BY <1>3, <1>4

\* Handing out blocks changes neither what is there nor what is lost.
LEMMA PickKeepsView ==
  ASSUME PickerInv, NEW n \in Nat, NEW peer \in Peer, PickPieces(n, peer)
  PROVE  /\ UNCHANGED (pieces \ InProgress)
         /\ LastPieceIsLost' <=> LastPieceIsLost
         /\ Done' = Done
<1> DEFINE chosen == Chosen(n, peer)
<1>1. PickerTypeOK /\ Listed /\ Sized
  BY DEF PickerInv
<1>2. chosen \subseteq Piece \ pieces /\ InProgress' = InProgress \cup chosen
  BY <1>1, PickFacts
<1>3. /\ pieces' = pieces \cup chosen
      /\ size' = [p \in Piece |-> IF p \in chosen THEN BlocksInPiece(p) ELSE size[p]]
      /\ finished' = finished /\ blocksInLastPiece' = blocksInLastPiece
  BY DEF PickPieces
<1> HIDE DEF chosen
<1>4. pieces' \ InProgress' = pieces \ InProgress
  BY <1>2, <1>3
<1>5. LastPieceIsLost' <=> LastPieceIsLost
  <2>1. NumPieces - 1 \in Piece /\ BlocksInPiece(NumPieces - 1) = blocksInLastPiece
    BY PickerAssumption DEF Piece, BlocksInPiece
  <2>2. NumPieces - 1 \notin InProgress => size[NumPieces - 1] = 0
    BY <1>1, <2>1 DEF Sized
  <2>3. NumPieces - 1 \in chosen => NumPieces - 1 \notin InProgress
    BY <1>1, <1>2 DEF Listed
  <2> QED
    BY <1>3, <1>4, <2>1, <2>2, <2>3 DEF LastPieceIsLost
<1>6. Done' = Done
  BY <1>3, <1>4 DEF Done, RealBlocks
<1> QED
  BY <1>4, <1>5, <1>6
=============================================================================
