--------------------------- MODULE ReceivingPiece ---------------------------
(***************************************************************************)
(* ReceivingPiece of piece_storage.go: the blocks of a piece that arrived, *)
(* kept in the order of their indices, and the hash of the piece, which is *)
(* fed with every block as soon as all blocks before it are there.         *)
(***************************************************************************)
EXTENDS Integers, Sequences, FiniteSets

CONSTANTS
  NumBlocks,  \* blocks of the piece
  Data        \* what a block may hold

ASSUME PieceAssumption == NumBlocks \in Nat \ {0}

VARIABLES
  blocks,          \* sequence of [index, data]
  hashBlockIndex,  \* the block the hash waits for
  hashed,          \* what was written to the hash
  first            \* for the properties: the first copy of each block that came

vars == <<blocks, hashBlockIndex, hashed, first>>

Index == 0..(NumBlocks - 1)
\* Mutant: a second copy is not noticed.
HasNone(i) == FALSE
Has(i) == \E n \in DOMAIN blocks : blocks[n].index = i

\* The scan stops at the first block with the same or a greater index.
SkipBlocks(i) ==
  CHOOSE k \in 0..Len(blocks) :
    /\ \A n \in 1..k : blocks[n].index < i
    /\ k < Len(blocks) => blocks[k + 1].index >= i

\* Mutant: the block takes the place of the next one.
InsertOver(s, k, x) == SubSeq(s, 1, k) \o <<x>> \o SubSeq(s, k + 2, Len(s))
InsertAfter(s, k, x) == SubSeq(s, 1, k) \o <<x>> \o SubSeq(s, k + 1, Len(s))

\* The second walk feeds the hash with the run of blocks from hashBlockIndex on.
\* Mutant: one block is hashed at a time.
HashableByOne(s, from) == IF \E n \in DOMAIN s : s[n].index = from THEN from + 1 ELSE from
HashableUpTo(s, from) ==
  CHOOSE h \in from..NumBlocks :
    /\ \A i \in from..(h - 1) : \E n \in DOMAIN s : s[n].index = i
    /\ ~\E n \in DOMAIN s : s[n].index = h
DataOf(s, i) == s[CHOOSE n \in DOMAIN s : s[n].index = i].data

InsertBlock(i, d) ==
  IF Has(i) THEN UNCHANGED <<blocks, hashBlockIndex, hashed>>
  ELSE LET s == InsertAfter(blocks, SkipBlocks(i), [index |-> i, data |-> d])
           h == HashableUpTo(s, hashBlockIndex)
       IN  /\ blocks' = s
           /\ hashBlockIndex' = h
           /\ hashed' = hashed \o [n \in 1..(h - hashBlockIndex) |->
                                     DataOf(s, hashBlockIndex + n - 1)]

Init ==
  /\ blocks = <<>>
  /\ hashBlockIndex = 0
  /\ hashed = <<>>
  /\ first = [i \in {} |-> 0]

Next ==
  \E i \in Index, d \in Data :
    /\ InsertBlock(i, d)
    /\ first' = [j \in DOMAIN first \cup {i} |-> IF j \in DOMAIN first THEN first[j] ELSE d]

Spec == Init /\ [][Next]_vars

----------------------------------------------------------------------------
\* Every variable has its type.
TypeOK ==
  /\ blocks \in Seq([index : Index, data : Data]) /\ Len(blocks) <= NumBlocks
  /\ hashBlockIndex \in 0..NumBlocks
  /\ hashed \in Seq(Data)

\* However the blocks come, and whatever a second copy of one holds, the
\* blocks are the first copies in the order of their indices.
SortedFirstCopies ==
  /\ Len(blocks) = Cardinality(DOMAIN first)
  /\ \A n \in DOMAIN blocks :
       /\ blocks[n].index \in DOMAIN first
       /\ blocks[n].data = first[blocks[n].index]
       /\ \A m \in 1..(n - 1) : blocks[m].index < blocks[n].index

\* The hash has been fed with the longest run of blocks from the start, each
\* once and in order: with all blocks there, with the whole piece.
HashIsOfPrefix ==
  /\ hashed = [n \in 1..hashBlockIndex |-> first[n - 1]]
  /\ hashBlockIndex \notin DOMAIN first
=============================================================================
