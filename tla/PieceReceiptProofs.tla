------------------------- MODULE PieceReceiptProofs -------------------------
(***************************************************************************)
(* Proofs about the way of a piece to its hash.                            *)
(*                                                                         *)
(* First ReceivingPiece by itself: for every number of blocks, every order *)
(* in which they come and whatever their second copies hold, the blocks    *)
(* are kept in order (SortedFirstCopies) and the hash is fed with the      *)
(* longest run of them from the start (HashIsOfPrefix).                    *)
(*                                                                         *)
(* Then PieceReceipt, for blocks, pieces and files of every size and any   *)
(* number of connections: what the connections and the transfer do         *)
(* implements ReceivingPiece, so that all that was proved of the list of   *)
(* blocks and of the hash holds where parts, failures and second copies    *)
(* decide which block comes when.  On the way: data.Sub is set difference, *)
(* and one PendingBlock by itself waits for exactly what has not arrived.  *)
(***************************************************************************)
EXTENDS PieceReceipt, FiniteSetTheorems, SequenceTheorems, WellFoundedInduction, TLAPS

Entry == [index : Index, data : Data]

\* The inductive invariant: what is in the list is what came first.
FirstIsTheList ==
  /\ first \in [DOMAIN first -> Data]
  /\ DOMAIN first = {blocks[n].index : n \in DOMAIN blocks}
  /\ 0..(hashBlockIndex - 1) \subseteq DOMAIN first

IndInv == TypeOK /\ FirstIsTheList /\ SortedFirstCopies /\ HashIsOfPrefix

----------------------------------------------------------------------------
LEMMA LeastElement ==
  ASSUME NEW T, T \subseteq Nat, T # {}
  PROVE  \E x \in T : \A y \in T : x <= y
<1>1. PICK x \in T : \A y \in T : ~ (<<y, x>> \in OpToRel(<, Nat))
  BY NatLessThanWellFounded, WFMin
<1>2. \A y \in T : ~(y < x)
  BY <1>1 DEF OpToRel
<1> QED
  BY <1>2

\* Induction over 0..n: a number without a property has a least one.
LEMMA UpTo ==
  ASSUME NEW n \in Nat, NEW G, 0 \in G, \A i \in 1..n : i - 1 \in G => i \in G
  PROVE  0..n \subseteq G
<1> DEFINE T == (0..n) \ G
<1>1. SUFFICES ASSUME T # {} PROVE FALSE
  OBVIOUS
<1>2. PICK k \in T : \A y \in T : k <= y
  <2>1. T \subseteq Nat
    OBVIOUS
  <2> HIDE DEF T
  <2> QED
    BY <1>1, <2>1, LeastElement
<1>3. k \in 1..n /\ k - 1 \notin T
  BY <1>2
<1> QED
  BY <1>2, <1>3

LEMMA IndexFacts ==
  /\ NumBlocks \in Nat \ {0}
  /\ Index \subseteq Nat /\ \A i : i \in Index <=> i \in Nat /\ i < NumBlocks
  /\ IsFiniteSet(Index) /\ Cardinality(Index) = NumBlocks
<1>1. NumBlocks \in Nat \ {0}
  BY PieceAssumption
<1>2. \A i : i \in Index <=> i \in Nat /\ i < NumBlocks
  BY <1>1 DEF Index
<1>3. IsFiniteSet(Index) /\ Cardinality(Index) = NumBlocks
  BY <1>1, FS_Interval DEF Index
<1> QED
  BY <1>1, <1>2, <1>3

LEMMA FunctionIsSeq ==
  ASSUME NEW S, NEW n \in Nat, NEW f \in [1..n -> S]
  PROVE  f \in Seq(S) /\ Len(f) = n
OBVIOUS

----------------------------------------------------------------------------
(* The walk that looks for the place of a block.                            *)
LEMMA SkipBlocksFacts ==
  ASSUME NEW i \in Index, blocks \in Seq(Entry)
  PROVE  LET k == SkipBlocks(i)
         IN  /\ k \in 0..Len(blocks)
             /\ \A n \in 1..k : blocks[n].index < i
             /\ k < Len(blocks) => blocks[k + 1].index >= i
<1> DEFINE T == {k \in 0..Len(blocks) : k < Len(blocks) => blocks[k + 1].index >= i}
<1>1. Len(blocks) \in Nat /\ \A n \in 1..Len(blocks) : blocks[n] \in Entry
  OBVIOUS
<1>2. Len(blocks) \in T /\ T \subseteq Nat
  BY <1>1
<1>3. PICK k \in T : \A y \in T : k <= y
  BY <1>2, LeastElement
<1>4. \A n \in 1..k : blocks[n].index < i
  <2>1. SUFFICES ASSUME NEW n \in 1..k, ~(blocks[n].index < i) PROVE FALSE
    OBVIOUS
  <2>2. n - 1 \in 0..Len(blocks) /\ n - 1 < Len(blocks) /\ n \in 1..Len(blocks)
    BY <1>1, <1>3
  <2>3. blocks[n].index \in Nat /\ i \in Nat
    BY <2>2, <1>1, IndexFacts DEF Entry
  <2>4. blocks[(n - 1) + 1].index >= i
    BY <2>1, <2>3
  <2>5. n - 1 \in T
    BY <2>2, <2>4
  <2>6. k <= n - 1 /\ k \in Nat
    BY <2>5, <1>2, <1>3
  <2>7. n \in Nat /\ n <= k
    BY <2>6
  <2> QED
    BY <2>6, <2>7
<1>5. \E j \in 0..Len(blocks) :
        /\ \A n \in 1..j : blocks[n].index < i
        /\ j < Len(blocks) => blocks[j + 1].index >= i
  BY <1>3, <1>4
<1> QED
  BY <1>5 DEF SkipBlocks

\* t is s with x put in after its first k elements.
IsInsertion(t, s, k, x) ==
  /\ Len(t) = Len(s) + 1
  /\ \A n \in 1..k : t[n] = s[n]
  /\ t[k + 1] = x
  /\ \A n \in (k + 2)..(Len(s) + 1) : t[n] = s[n - 1]

LEMMA InsertAfterFacts ==
  ASSUME NEW S, NEW s \in Seq(S), NEW k \in 0..Len(s), NEW x \in S
  PROVE  /\ InsertAfter(s, k, x) \in Seq(S)
         /\ IsInsertion(InsertAfter(s, k, x), s, k, x)
<1> DEFINE a == SubSeq(s, 1, k)
           b == SubSeq(s, k + 1, Len(s))
<1>1. Len(s) \in Nat /\ k \in Nat /\ k <= Len(s) /\ \A n \in 1..Len(s) : s[n] \in S
  OBVIOUS
<1>2. a \in Seq(S) /\ Len(a) = k /\ \A n \in 1..k : a[n] = s[n]
  BY <1>1, SubSeqProperties
<1>3. b \in Seq(S) /\ Len(b) = Len(s) - k /\ \A n \in 1..(Len(s) - k) : b[n] = s[k + n]
  <2>1. \A n \in (k + 1)..Len(s) : s[n] \in S
    BY <1>1
  <2>2. /\ b \in Seq(S)
        /\ Len(b) = IF k + 1 <= Len(s) THEN Len(s) - (k + 1) + 1 ELSE 0
        /\ \A n \in 1..(Len(s) - (k + 1) + 1) : b[n] = s[(k + 1) + n - 1]
    BY <1>1, <2>1, SubSeqProperties
  <2>3. \A n \in 1..(Len(s) - k) : n \in 1..(Len(s) - (k + 1) + 1) /\ (k + 1) + n - 1 = k + n
    BY <1>1
  <2> QED
    BY <2>2, <2>3, <1>1
<1>4. <<x>> \in Seq(S) /\ Len(<<x>>) = 1 /\ <<x>>[1] = x
  OBVIOUS
<1> DEFINE c == a \o <<x>>
<1> HIDE DEF a, b
<1>5. c \in Seq(S) /\ Len(c) = k + 1 /\ \A n \in 1..(k + 1) : c[n] = IF n <= k THEN s[n] ELSE x
  <2>1. /\ c \in Seq(S) /\ Len(c) = Len(a) + 1
        /\ \A n \in 1..(Len(a) + 1) : c[n] = IF n <= Len(a) THEN a[n] ELSE <<x>>[n - Len(a)]
    BY <1>2, <1>4, ConcatProperties
  <2> HIDE DEF c
  <2>2. ASSUME NEW n \in 1..(k + 1) PROVE c[n] = IF n <= k THEN s[n] ELSE x
    <3>1. CASE n <= k
      BY <3>1, <2>1, <1>2, <1>1
    <3>2. CASE n = k + 1
      <4>1. n - Len(a) = 1 /\ ~(n <= Len(a)) /\ n \in 1..(Len(a) + 1)
        BY <3>2, <1>2, <1>1
      <4>2. c[n] = <<x>>[1]
        BY <4>1, <2>1
      <4> QED
        BY <4>2, <1>4, <3>2, <1>1
    <3> QED
      BY <3>1, <3>2, <1>1
  <2> QED
    BY <2>1, <2>2, <1>2
<1> HIDE DEF c
<1>6. /\ c \o b \in Seq(S) /\ Len(c \o b) = Len(s) + 1
      /\ \A n \in 1..(Len(s) + 1) : (c \o b)[n] = IF n <= k + 1 THEN c[n] ELSE b[n - (k + 1)]
  <2>1. /\ c \o b \in Seq(S) /\ Len(c \o b) = Len(c) + Len(b)
        /\ \A n \in 1..(Len(c) + Len(b)) :
             (c \o b)[n] = IF n <= Len(c) THEN c[n] ELSE b[n - Len(c)]
    BY <1>3, <1>5, ConcatProperties
  <2>2. Len(c) + Len(b) = Len(s) + 1
    BY <1>1, <1>3, <1>5
  <2> QED
    BY <2>1, <2>2, <1>5
<1>7. InsertAfter(s, k, x) = c \o b
  BY DEF InsertAfter, a, b, c
<1>8. \A n \in 1..k : (c \o b)[n] = s[n]
  BY <1>1, <1>5, <1>6
<1>9. (c \o b)[k + 1] = x
  <2>1. k + 1 \in 1..(Len(s) + 1) /\ k + 1 \in 1..(k + 1) /\ ~(k + 1 <= k)
    BY <1>1
  <2> QED
    BY <2>1, <1>5, <1>6
<1>10. ASSUME NEW n \in (k + 2)..(Len(s) + 1) PROVE (c \o b)[n] = s[n - 1]
  <2>1. /\ n \in 1..(Len(s) + 1) /\ ~(n <= k + 1) /\ n - (k + 1) \in 1..(Len(s) - k)
        /\ k + (n - (k + 1)) = n - 1
    BY <1>1
  <2> QED
    BY <2>1, <1>3, <1>6
<1> QED
  BY <1>6, <1>7, <1>8, <1>9, <1>10 DEF IsInsertion

\* The run of blocks the hash can take.
LEMMA HashableUpToFacts ==
  ASSUME NEW s \in Seq(Entry), NEW from \in 0..NumBlocks
  PROVE  LET h == HashableUpTo(s, from)
         IN  /\ h \in from..NumBlocks
             /\ \A i \in from..(h - 1) : \E n \in DOMAIN s : s[n].index = i
             /\ ~\E n \in DOMAIN s : s[n].index = h
<1> DEFINE T == {h \in from..NumBlocks : ~\E n \in DOMAIN s : s[n].index = h}
<1>1. NumBlocks \in Nat /\ from \in Nat /\ from <= NumBlocks
  BY IndexFacts
<1>2. NumBlocks \in T
  <2>1. \A n \in DOMAIN s : s[n] \in Entry
    OBVIOUS
  <2>2. \A n \in DOMAIN s : s[n].index # NumBlocks
    BY <2>1, IndexFacts DEF Entry
  <2> QED
    BY <2>2, <1>1
<1>3. PICK h \in T : \A y \in T : h <= y
  <2>1. T \subseteq Nat /\ T # {}
    BY <1>1, <1>2
  <2> QED
    BY <2>1, LeastElement
<1>4. \A i \in from..(h - 1) : \E n \in DOMAIN s : s[n].index = i
  <2>1. \A i \in from..(h - 1) : i \in from..NumBlocks /\ ~(h <= i)
    BY <1>1, <1>3
  <2> QED
    BY <2>1, <1>3
<1>5. \E g \in from..NumBlocks :
        /\ \A i \in from..(g - 1) : \E n \in DOMAIN s : s[n].index = i
        /\ ~\E n \in DOMAIN s : s[n].index = g
  BY <1>3, <1>4
<1> QED
  BY <1>5 DEF HashableUpTo

----------------------------------------------------------------------------
\* One block more in the list of first copies, at its place.
LEMMA InsertKeepsOrder ==
  ASSUME IndInv, NEW i \in Index, NEW d \in Data, ~Has(i),
         first' = [j \in DOMAIN first \cup {i} |-> IF j \in DOMAIN first THEN first[j] ELSE d]
  PROVE  LET s == InsertAfter(blocks, SkipBlocks(i), [index |-> i, data |-> d])
         IN  /\ s \in Seq(Entry) /\ Len(s) = Cardinality(DOMAIN first')
             /\ i \notin DOMAIN first /\ DOMAIN first' = DOMAIN first \cup {i}
             /\ first' \in [DOMAIN first' -> Data]
             /\ \A j \in DOMAIN first : first'[j] = first[j]
             /\ DOMAIN first' = {s[n].index : n \in DOMAIN s}
             /\ \A n \in DOMAIN s : s[n].data = first'[s[n].index]
             /\ \A n \in DOMAIN s : \A m \in 1..(n - 1) : s[m].index < s[n].index
<1> DEFINE k == SkipBlocks(i)
           x == [index |-> i, data |-> d]
           s == InsertAfter(blocks, k, x)
<1>1. /\ blocks \in Seq(Entry) /\ Len(blocks) \in Nat /\ DOMAIN blocks = 1..Len(blocks)
      /\ \A n \in 1..Len(blocks) : blocks[n] \in Entry
  <2>1. blocks \in Seq(Entry)
    BY DEF IndInv, TypeOK, Entry
  <2> QED
    BY <2>1
<1>2. \A n \in 1..Len(blocks) : blocks[n].index \in Nat /\ blocks[n].data \in Data
  BY <1>1, IndexFacts DEF Entry
<1>3. /\ k \in 0..Len(blocks)
      /\ \A n \in 1..k : blocks[n].index < i
      /\ k < Len(blocks) => blocks[k + 1].index >= i
  BY <1>1, SkipBlocksFacts
<1>4. x \in Entry /\ x.index = i /\ x.data = d /\ i \in Nat
  BY IndexFacts DEF Entry
<1> HIDE DEF k, x
<1>5. /\ s \in Seq(Entry) /\ Len(s) = Len(blocks) + 1
      /\ \A n \in 1..k : s[n] = blocks[n]
      /\ s[k + 1] = x
      /\ \A n \in (k + 2)..(Len(blocks) + 1) : s[n] = blocks[n - 1]
  <2>1. s \in Seq(Entry) /\ IsInsertion(s, blocks, k, x)
    BY <1>1, <1>3, <1>4, InsertAfterFacts
  <2> HIDE DEF s
  <2> QED
    BY <2>1 DEF IsInsertion
<1> HIDE DEF s
<1>6. DOMAIN s = 1..(Len(blocks) + 1)
  BY <1>5
<1>7. \A n \in 1..Len(blocks) : blocks[n].index # i
  BY <1>1 DEF Has
<1>8. \A n, m \in 1..Len(blocks) : m < n => blocks[m].index < blocks[n].index
  <2>1. \A n, m \in 1..Len(blocks) : m < n => m \in 1..(n - 1)
    OBVIOUS
  <2> QED
    BY <2>1, <1>1 DEF IndInv, SortedFirstCopies
<1>9. \A n \in (k + 1)..Len(blocks) : i < blocks[n].index
  <2>1. SUFFICES ASSUME NEW n \in (k + 1)..Len(blocks) PROVE i < blocks[n].index
    OBVIOUS
  <2>2. k \in Nat /\ k + 1 \in 1..Len(blocks) /\ n \in 1..Len(blocks) /\ k < Len(blocks)
    BY <1>1, <1>3
  <2>3. blocks[k + 1].index \in Nat /\ blocks[k + 1].index >= i /\ blocks[k + 1].index # i
    BY <2>2, <1>2, <1>3, <1>7
  <2>4. i < blocks[k + 1].index
    BY <2>3, <1>4
  <2>5. CASE n = k + 1
    BY <2>4, <2>5
  <2>6. CASE n # k + 1
    <3>1. k + 1 < n
      BY <2>2, <2>6
    <3>2. blocks[k + 1].index < blocks[n].index
      BY <3>1, <2>2, <1>8
    <3> QED
      BY <3>2, <2>2, <2>4, <1>2, <1>4
  <2> QED
    BY <2>5, <2>6
<1>10. k \in Nat /\ k <= Len(blocks)
  BY <1>1, <1>3
\* Where each entry of the new list comes from.
<1>11. \A n \in DOMAIN s :
         \/ n \in 1..k /\ n \in 1..Len(blocks) /\ s[n] = blocks[n]
         \/ n = k + 1 /\ s[n] = x
         \/ /\ n \in (k + 2)..(Len(blocks) + 1) /\ n - 1 \in 1..Len(blocks)
            /\ n - 1 \in (k + 1)..Len(blocks) /\ s[n] = blocks[n - 1]
  <2> TAKE n \in DOMAIN s
  <2>1. n \in 1..(Len(blocks) + 1)
    BY <1>6
  <2>2. CASE n <= k
    <3>1. n \in 1..k /\ n \in 1..Len(blocks)
      BY <2>1, <2>2, <1>1, <1>10
    <3> QED
      BY <3>1, <1>5
  <2>3. CASE n = k + 1
    BY <2>3, <1>5
  <2>4. CASE n > k + 1
    <3>1. /\ n \in (k + 2)..(Len(blocks) + 1) /\ n - 1 \in 1..Len(blocks)
          /\ n - 1 \in (k + 1)..Len(blocks)
      BY <2>1, <2>4, <1>1, <1>10
    <3> QED
      BY <3>1, <1>5
  <2> QED
    BY <2>1, <2>2, <2>3, <2>4, <1>1, <1>10
<1>12. /\ DOMAIN first = {blocks[n].index : n \in DOMAIN blocks}
       /\ first \in [DOMAIN first -> Data]
       /\ \A n \in 1..Len(blocks) : blocks[n].data = first[blocks[n].index]
  BY <1>1 DEF IndInv, FirstIsTheList, SortedFirstCopies
<1>13. i \notin DOMAIN first
  BY <1>1, <1>7, <1>12
<1>14. /\ DOMAIN first' = DOMAIN first \cup {i} /\ first' \in [DOMAIN first' -> Data]
       /\ \A j \in DOMAIN first : first'[j] = first[j]
       /\ first'[i] = d
  BY <1>12, <1>13
<1>15. Len(s) = Cardinality(DOMAIN first')
  <2>1. DOMAIN first \in SUBSET Index
    BY <1>12, <1>1 DEF Entry
  <2>2. IsFiniteSet(DOMAIN first)
    BY <2>1, IndexFacts, FS_Subset
  <2>3. Cardinality(DOMAIN first \cup {i}) = Cardinality(DOMAIN first) + 1
    BY <2>2, <1>13, FS_AddElement
  <2> QED
    BY <2>3, <1>5, <1>14 DEF IndInv, SortedFirstCopies
<1>16. \A n \in DOMAIN s : s[n].index \in DOMAIN first' /\ s[n].data = first'[s[n].index]
  <2>1. \A n \in 1..Len(blocks) : /\ blocks[n].index \in DOMAIN first
                                  /\ blocks[n].data = first'[blocks[n].index]
    BY <1>1, <1>12, <1>14
  <2>2. SUFFICES ASSUME NEW n \in DOMAIN s
                 PROVE  s[n].index \in DOMAIN first' /\ s[n].data = first'[s[n].index]
    OBVIOUS
  <2>3. CASE s[n] = x
    BY <2>3, <1>4, <1>14
  <2>4. CASE n \in 1..Len(blocks) /\ s[n] = blocks[n]
    BY <2>1, <2>4, <1>14
  <2>5. CASE n - 1 \in 1..Len(blocks) /\ s[n] = blocks[n - 1]
    BY <2>1, <2>5, <1>14
  <2> QED
    BY <2>3, <2>4, <2>5, <1>11
<1>17. ASSUME NEW j \in DOMAIN first' PROVE \E n \in DOMAIN s : s[n].index = j
  <2>1. CASE j = i
    <3>1. k + 1 \in DOMAIN s
      BY <1>1, <1>6, <1>10
    <3> QED
      BY <3>1, <2>1, <1>4, <1>5
  <2>2. CASE j # i
    <3>1. PICK n \in 1..Len(blocks) : blocks[n].index = j
      BY <2>2, <1>1, <1>12, <1>14
    <3>2. CASE n <= k
      <4>1. n \in 1..k /\ n \in DOMAIN s
        BY <3>2, <1>1, <1>6, <1>10
      <4> QED
        BY <4>1, <3>1, <1>5
    <3>3. CASE n > k
      <4>1. n + 1 \in (k + 2)..(Len(blocks) + 1) /\ n + 1 \in DOMAIN s /\ (n + 1) - 1 = n
        BY <3>3, <1>1, <1>6, <1>10
      <4> QED
        BY <4>1, <3>1, <1>5
    <3> QED
      BY <3>2, <3>3, <1>10
  <2> QED
    BY <2>1, <2>2
<1>18. ASSUME NEW n \in DOMAIN s, NEW m \in 1..(n - 1)
       PROVE  s[m].index < s[n].index
  <2>1. m \in DOMAIN s /\ m < n /\ n \in Nat /\ m \in Nat
    BY <1>1, <1>6
  <2>2. CASE m \in 1..k /\ m \in 1..Len(blocks) /\ s[m] = blocks[m]
    <3>1. CASE n \in 1..k /\ n \in 1..Len(blocks) /\ s[n] = blocks[n]
      BY <2>1, <2>2, <3>1, <1>8
    <3>2. CASE n = k + 1 /\ s[n] = x
      BY <2>2, <3>2, <1>3, <1>4
    <3>3. CASE n - 1 \in 1..Len(blocks) /\ n - 1 \in (k + 1)..Len(blocks) /\ s[n] = blocks[n - 1]
      <4>1. m < n - 1
        BY <2>2, <3>3, <1>10, <2>1
      <4> QED
        BY <4>1, <2>2, <3>3, <1>8
    <3> QED
      BY <3>1, <3>2, <3>3, <1>11
  <2>3. CASE m = k + 1 /\ s[m] = x
    <3>1. n \notin 1..k /\ n # k + 1
      BY <2>1, <2>3, <1>10
    <3>2. n - 1 \in (k + 1)..Len(blocks) /\ s[n] = blocks[n - 1]
      BY <3>1, <1>11
    <3> QED
      BY <3>2, <2>3, <1>4, <1>9
  <2>4. CASE /\ m \in (k + 2)..(Len(blocks) + 1) /\ m - 1 \in 1..Len(blocks)
             /\ s[m] = blocks[m - 1]
    <3>1. n \notin 1..k /\ n # k + 1 /\ m - 1 < n - 1
      BY <2>1, <2>4, <1>10
    <3>2. n - 1 \in 1..Len(blocks) /\ s[n] = blocks[n - 1]
      BY <3>1, <1>11
    <3> QED
      BY <3>1, <3>2, <2>4, <1>8
  <2> QED
    BY <2>1, <2>2, <2>3, <2>4, <1>11
<1>19. DOMAIN first' = {s[n].index : n \in DOMAIN s}
  BY <1>16, <1>17
<1> QED
  BY <1>5, <1>13, <1>14, <1>15, <1>16, <1>18, <1>19 DEF s, k, x

----------------------------------------------------------------------------
\* What is fed to the hash for a block is its first copy.
LEMMA DataOfFacts ==
  ASSUME NEW s \in Seq(Entry), NEW f, NEW j,
         \A n \in DOMAIN s : s[n].data = f[s[n].index],
         \E n \in DOMAIN s : s[n].index = j
  PROVE  DataOf(s, j) = f[j]
<1> DEFINE n == CHOOSE m \in DOMAIN s : s[m].index = j
<1>1. n \in DOMAIN s /\ s[n].index = j
  OBVIOUS
<1>2. DataOf(s, j) = s[n].data
  BY DEF DataOf
<1> HIDE DEF n
<1> QED
  BY <1>1, <1>2

\* The blocks of numbers a to b - 1.
RunOf(g, a, b) == [n \in 1..(b - a) |-> g[a + n - 1]]
UpToBlock(g, b) == [n \in 1..b |-> g[n - 1]]

\* One more run of blocks, after those that were hashed before.
LEMMA HashedGrows ==
  ASSUME NEW a \in Nat, NEW b \in Nat, a <= b, NEW g,
         \A j \in 0..(b - 1) : g[j] \in Data
  PROVE  /\ UpToBlock(g, a) \o RunOf(g, a, b) \in Seq(Data)
         /\ UpToBlock(g, a) \o RunOf(g, a, b) = UpToBlock(g, b)
<1> DEFINE old == UpToBlock(g, a)
           new == RunOf(g, a, b)
           all == UpToBlock(g, b)
<1> USE DEF UpToBlock, RunOf
<1>1. \A n \in 1..a : n - 1 \in 0..(a - 1) /\ n - 1 \in 0..(b - 1) /\ n \in 1..b
  OBVIOUS
<1>2. \A n \in 1..(b - a) : a + n - 1 \in 0..(b - 1) /\ a + n \in 1..b
  OBVIOUS
<1>3. old \in [1..a -> Data]
  BY <1>1
<1>4. new \in [1..(b - a) -> Data]
  BY <1>2
<1>5. \A n \in 1..b : n - 1 \in 0..(b - 1)
  OBVIOUS
<1>6. all \in [1..b -> Data]
  BY <1>5
<1>7. old \in Seq(Data) /\ Len(old) = a
  BY <1>3, FunctionIsSeq
<1>8. b - a \in Nat
  OBVIOUS
<1>9. new \in Seq(Data) /\ Len(new) = b - a
  BY <1>4, <1>8, FunctionIsSeq
<1>10. all \in Seq(Data) /\ Len(all) = b
  BY <1>6, FunctionIsSeq
<1>11. \A n \in 1..a : old[n] = all[n]
  BY <1>1
<1>12. \A n \in 1..(b - a) : new[n] = all[a + n]
  <2>1. \A n \in 1..(b - a) : (a + n) - 1 = a + n - 1
    OBVIOUS
  <2> QED
    BY <2>1, <1>2
<1> HIDE DEF all
<1>13. /\ old \o new \in Seq(Data) /\ Len(old \o new) = Len(old) + Len(new)
       /\ \A n \in 1..(Len(old) + Len(new)) :
            (old \o new)[n] = IF n <= Len(old) THEN old[n] ELSE new[n - Len(old)]
  BY <1>7, <1>9, ConcatProperties
<1>14. Len(old) + Len(new) = b
  BY <1>7, <1>9
<1>15. ASSUME NEW n \in 1..b PROVE (old \o new)[n] = all[n]
  <2>1. CASE n <= a
    <3>1. n \in 1..a
      BY <2>1
    <3> QED
      BY <2>1, <3>1, <1>7, <1>11, <1>13, <1>14
  <2>2. CASE ~(n <= a)
    <3>1. n - a \in 1..(b - a) /\ a + (n - a) = n
      BY <2>2
    <3>2. (old \o new)[n] = new[n - a]
      BY <2>2, <1>7, <1>13, <1>14
    <3>3. new[n - a] = all[n]
      BY <3>1, <1>12
    <3> QED
      BY <3>2, <3>3
  <2> QED
    BY <2>1, <2>2
<1>16. old \o new = all
  BY <1>10, <1>13, <1>14, <1>15, SeqEqual
<1> QED
  BY <1>13, <1>16 DEF all

----------------------------------------------------------------------------
LEMMA InitInv == Init => IndInv
<1> SUFFICES ASSUME Init PROVE IndInv
  OBVIOUS
<1>1. NumBlocks \in Nat \ {0}
  BY IndexFacts
<1>2. blocks = <<>> /\ hashBlockIndex = 0 /\ hashed = <<>> /\ DOMAIN first = {}
  BY DEF Init
<1>3. TypeOK
  BY <1>1, <1>2 DEF TypeOK
<1>4. FirstIsTheList
  <2>1. 0..(hashBlockIndex - 1) = {} /\ DOMAIN blocks = {}
    BY <1>2
  <2>2. first \in [{} -> Data]
    BY DEF Init
  <2> QED
    BY <1>2, <2>1, <2>2 DEF FirstIsTheList
<1>5. SortedFirstCopies
  <2>1. Len(blocks) = 0 /\ DOMAIN blocks = {} /\ Cardinality(DOMAIN first) = 0
    BY <1>2, FS_EmptySet
  <2> QED
    BY <2>1 DEF SortedFirstCopies
<1>6. HashIsOfPrefix
  <2>1. hashed = [n \in 1..0 |-> first[n - 1]]
    BY <1>2
  <2> QED
    BY <1>2, <2>1 DEF HashIsOfPrefix
<1> QED
  BY <1>3, <1>4, <1>5, <1>6 DEF IndInv

LEMMA StepInv == IndInv /\ [Next]_vars => IndInv'
<1> SUFFICES ASSUME IndInv, [Next]_vars PROVE IndInv'
  OBVIOUS
<1>1. CASE UNCHANGED vars
  BY <1>1 DEF IndInv, TypeOK, FirstIsTheList, SortedFirstCopies, HashIsOfPrefix, vars
<1>2. CASE Next
  <2>1. PICK i \in Index, d \in Data :
          /\ InsertBlock(i, d)
          /\ first' = [j \in DOMAIN first \cup {i} |-> IF j \in DOMAIN first THEN first[j] ELSE d]
    BY <1>2 DEF Next
  \* The block is there: nothing changes.
  <2>2. CASE Has(i)
    <3>1. UNCHANGED <<blocks, hashBlockIndex, hashed>>
      BY <2>1, <2>2 DEF InsertBlock
    <3>2. i \in DOMAIN first /\ first \in [DOMAIN first -> Data]
      BY <2>2 DEF Has, IndInv, FirstIsTheList
    <3>3. first' = first
      BY <2>1, <3>2
    <3> QED
      BY <3>1, <3>3 DEF IndInv, TypeOK, FirstIsTheList, SortedFirstCopies, HashIsOfPrefix
  <2>3. CASE ~Has(i)
    <3> DEFINE x == [index |-> i, data |-> d]
               s == InsertAfter(blocks, SkipBlocks(i), x)
               h == HashableUpTo(s, hashBlockIndex)
    <3>1. /\ blocks' = s /\ hashBlockIndex' = h
          /\ hashed' = hashed \o [n \in 1..(h - hashBlockIndex) |->
                                    DataOf(s, hashBlockIndex + n - 1)]
      BY <2>1, <2>3 DEF InsertBlock
    <3>2. /\ s \in Seq(Entry) /\ Len(s) = Cardinality(DOMAIN first')
          /\ DOMAIN first' = DOMAIN first \cup {i}
          /\ first' \in [DOMAIN first' -> Data]
          /\ \A j \in DOMAIN first : first'[j] = first[j]
          /\ DOMAIN first' = {s[n].index : n \in DOMAIN s}
          /\ \A n \in DOMAIN s : s[n].data = first'[s[n].index]
          /\ \A n \in DOMAIN s : \A m \in 1..(n - 1) : s[m].index < s[n].index
      BY ZenonT(30), <2>1, <2>3, InsertKeepsOrder
    <3> HIDE DEF s
    <3>3. NumBlocks \in Nat /\ hashBlockIndex \in 0..NumBlocks
      BY IndexFacts DEF IndInv, TypeOK
    <3>4. /\ h \in hashBlockIndex..NumBlocks
          /\ \A j \in hashBlockIndex..(h - 1) : \E n \in DOMAIN s : s[n].index = j
          /\ ~\E n \in DOMAIN s : s[n].index = h
      BY <3>2, <3>3, HashableUpToFacts
    <3> HIDE DEF h
    <3>5. hashBlockIndex \in Nat /\ h \in Nat /\ hashBlockIndex <= h /\ h <= NumBlocks
      BY <3>3, <3>4
    <3>6. \A j \in 0..(hashBlockIndex - 1) : j \in DOMAIN first
      BY DEF IndInv, FirstIsTheList
    <3>7. ASSUME NEW j \in hashBlockIndex..(h - 1)
          PROVE  j \in DOMAIN first' /\ DataOf(s, j) = first'[j]
      <4>1. \E n \in DOMAIN s : s[n].index = j
        BY <3>4
      <4>2. DataOf(s, j) = first'[j]
        <5>1. s \in Seq(Entry) /\ \A n \in DOMAIN s : s[n].data = first'[s[n].index]
          BY <3>2
        <5> QED
          BY <4>1, <5>1, DataOfFacts
      <4> QED
        BY <3>2, <4>1, <4>2
    <3>8. \A j \in 0..(h - 1) : j \in DOMAIN first'
      <4>1. \A j \in 0..(h - 1) : j \in 0..(hashBlockIndex - 1) \/ j \in hashBlockIndex..(h - 1)
        BY <3>5
      <4> QED
        BY <4>1, <3>2, <3>6, <3>7
    <3>9. Len(s) \in Nat /\ Len(s) <= NumBlocks
      <4>1. DOMAIN first' \in SUBSET Index
        <5>1. \A n \in DOMAIN s : s[n] \in Entry
          BY <3>2
        <5>2. ASSUME NEW j \in DOMAIN first' PROVE j \in Index
          <6>1. PICK n \in DOMAIN s : j = s[n].index
            BY <3>2
          <6>2. s[n] \in Entry
            BY <5>1, <6>1
          <6> QED
            BY <6>1, <6>2 DEF Entry
        <5> QED
          BY <5>2
      <4> QED
        BY <4>1, <3>2, IndexFacts, FS_Subset
    <3>10. hashed' \in Seq(Data) /\ hashed' = [n \in 1..h |-> first'[n - 1]]
      <4>1. hashed = [n \in 1..hashBlockIndex |-> first[n - 1]]
        BY DEF IndInv, HashIsOfPrefix
      <4>2. \A j \in 0..(h - 1) : first'[j] \in Data
        BY <3>2, <3>8
      <4>3. hashed = UpToBlock(first', hashBlockIndex)
        <5>1. \A n \in 1..hashBlockIndex : n - 1 \in 0..(hashBlockIndex - 1)
          BY <3>5
        <5>2. \A n \in 1..hashBlockIndex : first[n - 1] = first'[n - 1]
          BY <5>1, <3>2, <3>6
        <5> QED
          BY <4>1, <5>2 DEF UpToBlock
      <4>4. [n \in 1..(h - hashBlockIndex) |-> DataOf(s, hashBlockIndex + n - 1)]
              = RunOf(first', hashBlockIndex, h)
        <5>1. \A n \in 1..(h - hashBlockIndex) : hashBlockIndex + n - 1 \in hashBlockIndex..(h - 1)
          BY <3>5
        <5> QED
          BY <5>1, <3>7 DEF RunOf
      <4>5. /\ UpToBlock(first', hashBlockIndex) \o RunOf(first', hashBlockIndex, h) \in Seq(Data)
            /\ UpToBlock(first', hashBlockIndex) \o RunOf(first', hashBlockIndex, h) = UpToBlock(first', h)
        BY <3>5, <4>2, HashedGrows
      <4>6. hashed' = hashed \o RunOf(first', hashBlockIndex, h)
        BY <3>1, <4>4
      <4>7. UpToBlock(first', h) = [n \in 1..h |-> first'[n - 1]]
        BY DEF UpToBlock
      <4> QED
        BY <4>3, <4>5, <4>6, <4>7
    <3>11. TypeOK'
      BY <3>1, <3>2, <3>5, <3>9, <3>10 DEF TypeOK, Entry
    <3>12. FirstIsTheList'
      BY ZenonT(30), <3>1, <3>2, <3>8 DEF FirstIsTheList
    <3>13. SortedFirstCopies'
      <4>1. \A n \in DOMAIN s : s[n].index \in DOMAIN first'
        BY <3>2
      <4> QED
        BY <4>1, <3>1, <3>2 DEF SortedFirstCopies
    <3>14. HashIsOfPrefix'
      BY <3>1, <3>2, <3>4, <3>10 DEF HashIsOfPrefix
    <3> QED
      BY <3>11, <3>12, <3>13, <3>14 DEF IndInv
  <2> QED
    BY <2>2, <2>3
<1> QED
  BY <1>1, <1>2

LEMMA Inductive == Spec => []IndInv
  BY InitInv, StepInv, PTL DEF Spec

\* In every reachable state each variable of ReceivingPiece has its type; the
\* blocks are not more than the piece has.
THEOREM TypeCorrect == Spec => []TypeOK
<1>1. IndInv => TypeOK
  BY DEF IndInv
<1> QED
  BY <1>1, Inductive, PTL

\* However the blocks come and whatever a second copy holds, InsertBlock keeps
\* exactly the first copies, in the order of their indices.
THEOREM BlocksInOrder == Spec => []SortedFirstCopies
<1>1. IndInv => SortedFirstCopies
  BY DEF IndInv
<1> QED
  BY <1>1, Inductive, PTL

\* However the blocks come, the hash has been fed with the longest run of
\* blocks from the start, each once and in order.
THEOREM HashInOrder == Spec => []HashIsOfPrefix
<1>1. IndInv => HashIsOfPrefix
  BY DEF IndInv
<1> QED
  BY <1>1, Inductive, PTL

----------------------------------------------------------------------------
\* What the buffers hold is what a block may hold.
BuffersHoldBytes ==
  /\ pending \in [Connection -> SUBSET Index]
  /\ data \in [Connection -> [Index -> Seq(Int)]]

----------------------------------------------------------------------------
LEMMA PositionFacts ==
  /\ BlockSize \in Nat \ {0} /\ PieceIndex \in Int /\ PieceSize \in Int /\ FileSize \in Int
  /\ \A i \in Index : i \in Int /\ Start(i) \in Int /\ End(i) \in Int
  /\ \A b \in Int : InBlockOffset(b) \in Int
<1>1. /\ BlockSize \in Nat \ {0} /\ BlocksPerPiece \in Nat \ {0} /\ FileSize \in Nat
  BY ReceiptAssumption
<1>2. PieceIndex \in Int
  BY ReceiptAssumption
<1>3. PieceSize \in Int
  BY <1>1 DEF PieceSize
<1>4. \A i \in Index : i \in Int
  BY IndexFacts
<1>5. ASSUME NEW i \in Index PROVE Start(i) \in Int /\ End(i) \in Int
  <2>1. PieceIndex * PieceSize \in Int
    BY <1>2, <1>3
  <2>2. i * BlockSize \in Int
    BY <1>1, <1>4
  <2>3. Start(i) \in Int
    BY <2>1, <2>2 DEF Start
  <2> QED
    BY <2>3, <1>1 DEF End
<1>6. \A b \in Int : InBlockOffset(b) \in Int
  BY <1>1 DEF InBlockOffset
<1> QED
  BY <1>1, <1>2, <1>3, <1>4, <1>5, <1>6

LEMMA EmptyBufferIsBytes == \A i \in Index : EmptyBuffer(i) \in Seq(Int)
<1> TAKE i \in Index
<1>1. End(i) - Start(i) \in Int
  BY PositionFacts
<1> DEFINE n == End(i) - Start(i)
<1>2. EmptyBuffer(i) = [k \in 1..n |-> Zero]
  BY DEF EmptyBuffer
<1> HIDE DEF n
<1>3. CASE n \in Nat
  <2>1. EmptyBuffer(i) \in [1..n -> Int]
    BY <1>2 DEF Zero
  <2> QED
    BY <2>1, <1>3, FunctionIsSeq
<1>4. CASE n < 0
  <2>1. 1..n = 1..0
    BY <1>4, <1>1 DEF n
  <2>2. EmptyBuffer(i) \in [1..0 -> Int]
    BY <2>1, <1>2
  <2> QED
    BY <2>2, FunctionIsSeq
<1> QED
  BY <1>1, <1>3, <1>4 DEF n

LEMMA ReadIntoIsBytes ==
  ASSUME NEW buffer \in Seq(Int), NEW b \in Int, NEW e \in Int
  PROVE  ReadInto(buffer, b, e) \in Seq(Int)
<1>1. Len(buffer) \in Nat /\ DOMAIN buffer = 1..Len(buffer)
      /\ \A n \in 1..Len(buffer) : buffer[n] \in Int
  OBVIOUS
<1>2. InBlockOffset(b) \in Int
  BY PositionFacts
<1>3. \A n \in 1..Len(buffer) : b + (n - 1 - InBlockOffset(b)) \in Int
  BY <1>2
<1>4. ReadInto(buffer, b, e) \in [1..Len(buffer) -> Int]
  BY <1>1, <1>3 DEF ReadInto
<1> QED
  BY <1>1, <1>4, FunctionIsSeq

----------------------------------------------------------------------------
\* A block that is handed over is inserted; nothing else touches the piece.
LEMMA PartIsInsertion ==
  ASSUME Seq(Int) \subseteq Data, BuffersHoldBytes,
         NEW c \in Connection, NEW i \in Index, NEW b \in Int, NEW e \in Int,
         ReadPart(c, i, b, e)
  PROVE  [Next]_vars /\ BuffersHoldBytes'
<1> DEFINE buffer == ReadInto(data[c][i], b, e)
<1>1. buffer \in Seq(Int)
  BY ReadIntoIsBytes DEF BuffersHoldBytes
<1>2. HandOver(c, i, buffer)
        \/ (data' = [data EXCEPT ![c][i] = buffer] /\ UNCHANGED <<pending, vars>>)
  BY DEF ReadPart
<1> HIDE DEF buffer
<1>3. CASE HandOver(c, i, buffer)
  <2>1. Next
    BY <1>1, <1>3 DEF HandOver, Next
  <2>2. BuffersHoldBytes'
    BY <1>3, EmptyBufferIsBytes DEF HandOver, BuffersHoldBytes
  <2> QED
    BY <2>1, <2>2
<1>4. CASE data' = [data EXCEPT ![c][i] = buffer] /\ UNCHANGED <<pending, vars>>
  <2>1. BuffersHoldBytes'
    BY <1>1, <1>4 DEF BuffersHoldBytes
  <2> QED
    BY <2>1, <1>4
<1> QED
  BY <1>2, <1>3, <1>4

LEMMA StepIsInsertion ==
  ASSUME Seq(Int) \subseteq Data, BuffersHoldBytes, [NextReceipt]_receiptVars
  PROVE  [Next]_vars /\ BuffersHoldBytes'
<1>1. CASE UNCHANGED receiptVars
  BY <1>1 DEF receiptVars, BuffersHoldBytes
<1>2. ASSUME NEW c \in Connection, Request(c) PROVE UNCHANGED vars /\ BuffersHoldBytes'
  BY <1>2, EmptyBufferIsBytes DEF Request, BuffersHoldBytes
<1>3. ASSUME NEW i \in Index PROVE End(i) \in Int /\ \A b \in Positions : b \in Int /\ b + 1 \in Int
  <2>1. NumBlocks - 1 \in Index /\ 0 \in Index
    BY IndexFacts
  <2>2. \A b \in Positions : b \in Int
    BY <2>1, PositionFacts DEF Positions
  <2> QED
    BY <2>2, PositionFacts
<1>4. ASSUME NEW c \in Connection, SendingPart(c) PROVE [Next]_vars /\ BuffersHoldBytes'
  <2>1. PICK b \in Positions, i \in Index : \E e \in b..End(i) : ReadPart(c, i, b, e)
    BY <1>4 DEF SendingPart
  <2>2. PICK e \in b..End(i) : ReadPart(c, i, b, e)
    BY <2>1
  <2>3. b \in Int /\ e \in Int
    BY <1>3
  <2> QED
    BY <2>2, <2>3, PartIsInsertion
<1>5. ASSUME NEW c \in Connection, SendingPartFails(c) PROVE UNCHANGED vars /\ BuffersHoldBytes'
  <2>1. PICK b \in Positions, i \in Index : \E e \in b..(End(i) - 1) :
          data' = [data EXCEPT ![c][i] = ReadInto(@, b, e)]
    BY <1>5 DEF SendingPartFails
  <2>2. PICK e \in b..(End(i) - 1) : data' = [data EXCEPT ![c][i] = ReadInto(@, b, e)]
    BY <2>1
  <2>3. b \in Int /\ e \in Int
    BY <1>3
  <2>4. ReadInto(data[c][i], b, e) \in Seq(Int)
    BY <2>3, ReadIntoIsBytes DEF BuffersHoldBytes
  <2>5. UNCHANGED vars /\ pending' = pending
    BY <1>5 DEF SendingPartFails
  <2> QED
    BY <2>2, <2>4, <2>5 DEF BuffersHoldBytes
<1>6. ASSUME NEW c \in Connection, CompressedPart(c) PROVE [Next]_vars /\ BuffersHoldBytes'
  <2>1. PICK b \in Positions, i \in Index : ReadPart(c, i, b, End(i))
    BY <1>6 DEF CompressedPart
  <2>2. b \in Int /\ End(i) \in Int
    BY <1>3
  <2> QED
    BY <2>1, <2>2, PartIsInsertion
<1>7. ASSUME NEW c \in Connection, UnexpectedPart(c) PROVE UNCHANGED vars /\ BuffersHoldBytes'
  BY <1>7 DEF UnexpectedPart, BuffersHoldBytes
<1>8. ASSUME NEW c \in Connection, Unregister(c) PROVE UNCHANGED vars /\ BuffersHoldBytes'
  BY <1>8, EmptyBufferIsBytes DEF Unregister, BuffersHoldBytes
<1> QED
  BY <1>1, <1>2, <1>4, <1>5, <1>6, <1>7, <1>8 DEF NextReceipt

----------------------------------------------------------------------------
\* What the connections and the transfer do to a piece implements ReceivingPiece.
THEOREM ReceiptImplementsReceivingPiece ==
  ASSUME Seq(Int) \subseteq Data
  PROVE  ReceiptSpec => Spec
<1>1. InitReceipt => Init /\ BuffersHoldBytes
  BY EmptyBufferIsBytes DEF InitReceipt, BuffersHoldBytes
<1>2. BuffersHoldBytes /\ [NextReceipt]_receiptVars => [Next]_vars /\ BuffersHoldBytes'
  BY StepIsInsertion
<1> QED
  BY <1>1, <1>2, PTL DEF ReceiptSpec, Spec

\* Whatever parts arrive and whichever connections break off, the blocks of the
\* piece are the first copies that were handed over, in order (InsertBlock).
THEOREM ReceiptKeepsOrder ==
  ASSUME Seq(Int) \subseteq Data
  PROVE  ReceiptSpec => []SortedFirstCopies
BY ReceiptImplementsReceivingPiece, BlocksInOrder, PTL

\* Whatever parts arrive and whichever connections break off, the hash has been
\* fed with the longest run of blocks from the start (InsertBlock).
THEOREM ReceiptHashesPrefix ==
  ASSUME Seq(Int) \subseteq Data
  PROVE  ReceiptSpec => []HashIsOfPrefix
BY ReceiptImplementsReceivingPiece, HashInOrder, PTL

----------------------------------------------------------------------------
(* data.Sub and Region.Sub, for ranges and regions of every length.         *)
LEMMA MakeParts ==
  ASSUME NEW b \in Nat, NEW e \in Nat
  PROVE  /\ Make(b, e) \in Ranges
         /\ Make(b, e).begin = b /\ Make(b, e).end = e
         /\ Bytes(Make(b, e)) = b .. (e - 1)
BY DEF Make, Ranges, Bytes

LEMMA BytesOfFew ==
  /\ BytesOf({}) = {}
  /\ \A r : BytesOf({r}) = Bytes(r)
  /\ \A r, q : BytesOf({r, q}) = Bytes(r) \cup Bytes(q)
BY DEF BytesOf

\* A segment without a part: its bytes that are not the part's, in segments that
\* lie within it and are not empty.
LEMMA SubIsDifference ==
  ASSUME NEW s \in Ranges, NEW t \in Ranges, s.begin < s.end, t.begin <= t.end
  PROVE  /\ BytesOf(Sub(s, t)) = Bytes(s) \ Bytes(t)
         /\ \A r \in Sub(s, t) :
              r \in Ranges /\ s.begin <= r.begin /\ r.begin < r.end /\ r.end <= s.end
<1> DEFINE sb == s.begin
           se == s.end
           tb == t.begin
           te == t.end
<1>1. /\ sb \in Nat /\ se \in Nat /\ tb \in Nat /\ te \in Nat
      /\ sb < se /\ tb <= te
      /\ Bytes(s) = sb .. (se - 1) /\ Bytes(t) = tb .. (te - 1)
  BY DEF Ranges, Bytes
<1>2. CASE SubInside(s, t)
  <2>1. Sub(s, t) = {Make(sb, tb), Make(te, se)} /\ sb < tb /\ te < se
    BY <1>2 DEF Sub, SubInside
  <2> HIDE DEF sb, se, tb, te
  <2>2. BytesOf(Sub(s, t)) = (sb .. (tb - 1)) \cup (te .. (se - 1))
    <3>1. BytesOf(Sub(s, t)) = Bytes(Make(sb, tb)) \cup Bytes(Make(te, se))
      BY <2>1, BytesOfFew
    <3>2. Bytes(Make(sb, tb)) = sb .. (tb - 1) /\ Bytes(Make(te, se)) = te .. (se - 1)
      BY <1>1, MakeParts
    <3> QED
      BY <3>1, <3>2
  <2>3. (sb .. (tb - 1)) \cup (te .. (se - 1)) = (sb .. (se - 1)) \ (tb .. (te - 1))
    BY <2>1, <1>1
  <2>4. \A r \in Sub(s, t) : r \in Ranges /\ sb <= r.begin /\ r.begin < r.end /\ r.end <= se
    BY <2>1, <1>1, MakeParts
  <2> QED
    BY <2>2, <2>3, <2>4, <1>1 DEF sb, se
<1>3. CASE ~SubInside(s, t) /\ SubApart(s, t)
  <2>1. Sub(s, t) = {s} /\ (se <= tb \/ te <= sb)
    BY <1>3 DEF Sub, SubApart
  <2>2. BytesOf(Sub(s, t)) = Bytes(s)
    BY <2>1, BytesOfFew
  <2>3. Bytes(s) = Bytes(s) \ Bytes(t)
    BY <2>1, <1>1
  <2> QED
    BY <2>1, <2>2, <2>3, <1>1
<1>4. CASE ~SubInside(s, t) /\ ~SubApart(s, t) /\ SubTail(s, t)
  <2>1. /\ Sub(s, t) = {Make(sb, tb)}
        /\ sb < tb /\ tb < se /\ se <= te
    BY <1>1, <1>4 DEF Sub, SubTail, SubInside
  <2> HIDE DEF sb, se, tb, te
  <2>2. BytesOf(Sub(s, t)) = sb .. (tb - 1)
    BY <2>1, <1>1, MakeParts, BytesOfFew
  <2>3. sb .. (tb - 1) = (sb .. (se - 1)) \ (tb .. (te - 1))
    BY <2>1, <1>1
  <2>4. \A r \in Sub(s, t) : r \in Ranges /\ sb <= r.begin /\ r.begin < r.end /\ r.end <= se
    BY <2>1, <1>1, MakeParts
  <2> QED
    BY <2>2, <2>3, <2>4, <1>1 DEF sb, se
<1>5. CASE ~SubInside(s, t) /\ ~SubApart(s, t) /\ ~SubTail(s, t) /\ SubHead(s, t)
  <2>1. /\ Sub(s, t) = {Make(te, se)}
        /\ tb <= sb /\ sb < te /\ te < se
    BY <1>1, <1>5 DEF Sub, SubTail, SubHead, SubInside, SubApart
  <2> HIDE DEF sb, se, tb, te
  <2>2. BytesOf(Sub(s, t)) = te .. (se - 1)
    BY <2>1, <1>1, MakeParts, BytesOfFew
  <2>3. te .. (se - 1) = (sb .. (se - 1)) \ (tb .. (te - 1))
    BY <2>1, <1>1
  <2>4. \A r \in Sub(s, t) : r \in Ranges /\ sb <= r.begin /\ r.begin < r.end /\ r.end <= se
    BY <2>1, <1>1, MakeParts
  <2> QED
    BY <2>2, <2>3, <2>4, <1>1 DEF sb, se
<1>6. CASE ~SubInside(s, t) /\ ~SubApart(s, t) /\ ~SubTail(s, t) /\ ~SubHead(s, t)
  <2>1. Sub(s, t) = {} /\ tb <= sb /\ se <= te
    BY <1>1, <1>6 DEF Sub, SubTail, SubHead, SubInside, SubApart
  <2>2. BytesOf(Sub(s, t)) = {}
    BY <2>1, BytesOfFew
  <2>3. Bytes(s) \ Bytes(t) = {}
    BY <2>1, <1>1
  <2> QED
    BY <2>1, <2>2, <2>3
<1> QED
  BY <1>2, <1>3, <1>4, <1>5, <1>6

\* Region.Sub, over all the segments.
LEMMA RegionSubIsDifference ==
  ASSUME NEW lo \in Int, NEW hi \in Int, NEW R \in SUBSET Ranges, NEW t \in Ranges,
         t.begin <= t.end,
         \A s \in R : lo <= s.begin /\ s.begin < s.end /\ s.end <= hi
  PROVE  /\ BytesOf(RegionSub(R, t)) = BytesOf(R) \ Bytes(t)
         /\ \A r \in RegionSub(R, t) :
              r \in Ranges /\ lo <= r.begin /\ r.begin < r.end /\ r.end <= hi
<1>1. \A s \in R :
        /\ BytesOf(Sub(s, t)) = Bytes(s) \ Bytes(t)
        /\ \A r \in Sub(s, t) :
             r \in Ranges /\ s.begin <= r.begin /\ r.begin < r.end /\ r.end <= s.end
  BY SubIsDifference
<1>2. BytesOf(RegionSub(R, t)) = UNION {BytesOf(Sub(s, t)) : s \in R}
  BY DEF BytesOf, RegionSub
<1>3. BytesOf(R) \ Bytes(t) = UNION {Bytes(s) \ Bytes(t) : s \in R}
  BY DEF BytesOf
<1>4. UNION {BytesOf(Sub(s, t)) : s \in R} = UNION {Bytes(s) \ Bytes(t) : s \in R}
  BY <1>1
<1>5. ASSUME NEW r \in RegionSub(R, t)
      PROVE  r \in Ranges /\ lo <= r.begin /\ r.begin < r.end /\ r.end <= hi
  <2>1. PICK s \in R : r \in Sub(s, t)
    BY <1>5 DEF RegionSub
  <2>2. /\ r \in Ranges /\ s \in Ranges /\ s.begin <= r.begin /\ r.begin < r.end
        /\ r.end <= s.end /\ lo <= s.begin /\ s.end <= hi
    BY <1>1, <2>1
  <2> QED
    BY <2>2 DEF Ranges
<1> QED
  BY <1>2, <1>3, <1>4, <1>5

----------------------------------------------------------------------------
(* One block by itself, of any length.                                      *)
CONSTANTS BlockBegin, BlockEnd
VARIABLES segments, arrived, broken

ABlock == INSTANCE PendingBlock WITH region <- segments, filled <- arrived, failed <- broken

OneBlockInv ==
  ABlock!TypeOK /\ ABlock!NothingMissing /\ ABlock!NoEmptySegment /\ ABlock!RegionIsTheRest

LEMMA RegionsAreTheSame ==
  /\ ABlock!Ranges = Ranges
  /\ \A s : ABlock!BytesOf(s) = BytesOf(s) /\ ABlock!Bytes(s) = Bytes(s)
  /\ \A s, t : ABlock!RegionSub(s, t) = RegionSub(s, t) /\ ABlock!Make(s, t) = Make(s, t)
<1>1. ABlock!Ranges = Ranges
  BY Zenon DEF ABlock!Ranges, Ranges
<1>2. \A s : ABlock!BytesOf(s) = BytesOf(s) /\ ABlock!Bytes(s) = Bytes(s)
  BY Zenon DEF ABlock!Bytes, Bytes, ABlock!BytesOf, BytesOf
<1>3. \A s, t : ABlock!Sub(s, t) = Sub(s, t) /\ ABlock!Make(s, t) = Make(s, t)
  BY Zenon DEF ABlock!Sub, ABlock!SubInside, ABlock!SubApart, ABlock!SubTail, ABlock!SubHead,
               ABlock!Make, Sub, SubInside, SubApart, SubTail, SubHead, Make
<1>4. \A s, t : ABlock!RegionSub(s, t) = RegionSub(s, t)
  BY <1>3, Zenon DEF ABlock!RegionSub, RegionSub
<1> QED
  BY <1>1, <1>2, <1>3, <1>4

LEMMA BlockBytesAre ==
  ASSUME ABlock!BlockAssumption
  PROVE  ABlock!BlockBytes = BlockBegin .. (BlockEnd - 1)
BY MakeParts, RegionsAreTheSame DEF ABlock!BlockAssumption, ABlock!BlockBytes

LEMMA OneBlockInit ==
  ASSUME ABlock!BlockAssumption
  PROVE  ABlock!Init => OneBlockInv
<1> SUFFICES ASSUME ABlock!Init PROVE OneBlockInv
  OBVIOUS
<1> DEFINE whole == Make(BlockBegin, BlockEnd)
<1>1. segments = {whole} /\ arrived = {} /\ broken = FALSE
  BY RegionsAreTheSame DEF ABlock!Init
<1>2. whole \in Ranges /\ whole.begin = BlockBegin /\ whole.end = BlockEnd
  BY ABlock!BlockAssumption, MakeParts DEF ABlock!BlockAssumption
<1>3. BytesOf(segments) = ABlock!BlockBytes
  BY <1>1, BytesOfFew, RegionsAreTheSame DEF ABlock!BlockBytes
<1> HIDE DEF whole
<1>4. ABlock!TypeOK
  BY <1>1, <1>2, RegionsAreTheSame DEF ABlock!TypeOK
<1>5. ABlock!NoEmptySegment
  BY <1>1, <1>2, ABlock!BlockAssumption DEF ABlock!BlockAssumption, ABlock!NoEmptySegment
<1>6. ABlock!NothingMissing /\ ABlock!RegionIsTheRest
  BY <1>1, <1>3, RegionsAreTheSame DEF ABlock!NothingMissing, ABlock!RegionIsTheRest
<1> QED
  BY <1>4, <1>5, <1>6 DEF OneBlockInv

\* A part is received: what it covers is no longer missing.
LEMMA OneBlockReceives ==
  ASSUME ABlock!BlockAssumption, OneBlockInv, NEW b \in ABlock!Position, NEW e \in ABlock!Position, b <= e, ABlock!Receive(b, e)
  PROVE  OneBlockInv'
<1> DEFINE t == Make(b, e)
<1>1. /\ ~broken /\ broken' = broken
      /\ arrived' = arrived \cup Bytes(t)
      /\ segments' = RegionSub(segments, t)
  BY RegionsAreTheSame DEF ABlock!Receive
<1>2. /\ b \in Nat /\ e \in Nat /\ BlockBegin <= b /\ e <= BlockEnd
      /\ BlockBegin \in Nat /\ BlockEnd \in Nat
  BY ABlock!BlockAssumption DEF ABlock!BlockAssumption, ABlock!Position
<1>3. t \in Ranges /\ t.begin <= t.end /\ Bytes(t) = b .. (e - 1)
  BY <1>2, MakeParts
<1>4. Bytes(t) \subseteq ABlock!BlockBytes
  BY <1>2, <1>3, BlockBytesAre
<1>5. /\ segments \in SUBSET Ranges /\ arrived \subseteq ABlock!BlockBytes /\ broken \in BOOLEAN
      /\ \A s \in segments : BlockBegin <= s.begin /\ s.begin < s.end /\ s.end <= BlockEnd
      /\ BytesOf(segments) = ABlock!BlockBytes \ arrived
  BY <1>1, RegionsAreTheSame DEF OneBlockInv, ABlock!TypeOK, ABlock!NoEmptySegment, ABlock!RegionIsTheRest
<1> HIDE DEF t
<1>6. /\ BytesOf(RegionSub(segments, t)) = BytesOf(segments) \ Bytes(t)
      /\ \A r \in RegionSub(segments, t) :
           r \in Ranges /\ BlockBegin <= r.begin /\ r.begin < r.end /\ r.end <= BlockEnd
  BY <1>2, <1>3, <1>5, RegionSubIsDifference
<1>7. ABlock!TypeOK'
  BY <1>1, <1>4, <1>5, <1>6, RegionsAreTheSame DEF ABlock!TypeOK, ABlock!BlockBytes
<1>8. ABlock!NoEmptySegment'
  BY <1>1, <1>6 DEF ABlock!NoEmptySegment
<1>9. BytesOf(segments') = ABlock!BlockBytes \ arrived'
  BY <1>1, <1>5, <1>6
<1>10. ABlock!RegionIsTheRest' /\ ABlock!NothingMissing'
  <2>1. BytesOf(segments)' = BytesOf(segments') /\ ABlock!BlockBytes' = ABlock!BlockBytes
    BY DEF BytesOf, ABlock!BlockBytes
  <2> QED
    BY <1>9, <2>1, RegionsAreTheSame DEF ABlock!RegionIsTheRest, ABlock!NothingMissing
<1> QED
  BY <1>7, <1>8, <1>10 DEF OneBlockInv

LEMMA OneBlockFails ==
  ASSUME ABlock!BlockAssumption, OneBlockInv, NEW b \in ABlock!Position, NEW e \in ABlock!Position, NEW n \in 0..(e - b),
         ABlock!ReceiveFails(b, e, n)
  PROVE  OneBlockInv'
<1>1. /\ arrived' = arrived \cup Bytes(Make(b, b + n))
      /\ broken' = TRUE /\ segments' = segments /\ b + n < e
  BY RegionsAreTheSame DEF ABlock!ReceiveFails
<1>2. /\ b \in Nat /\ e \in Nat /\ n \in Nat /\ BlockBegin <= b /\ e <= BlockEnd
      /\ BlockBegin \in Nat /\ BlockEnd \in Nat
  BY ABlock!BlockAssumption DEF ABlock!BlockAssumption, ABlock!Position
<1>3. Bytes(Make(b, b + n)) = b .. (b + n - 1)
  BY <1>2, MakeParts
<1>4. Bytes(Make(b, b + n)) \subseteq ABlock!BlockBytes
  BY <1>1, <1>2, <1>3, BlockBytesAre
<1>5. BytesOf(segments)' = BytesOf(segments) /\ ABlock!BlockBytes' = ABlock!BlockBytes
  BY <1>1 DEF BytesOf, ABlock!BlockBytes
<1> QED
  BY <1>1, <1>4, <1>5
     DEF OneBlockInv, ABlock!TypeOK, ABlock!NothingMissing, ABlock!NoEmptySegment, ABlock!RegionIsTheRest

LEMMA OneBlockStep ==
  ASSUME ABlock!BlockAssumption
  PROVE  OneBlockInv /\ [ABlock!Next]_ABlock!vars => OneBlockInv'
<1> SUFFICES ASSUME OneBlockInv, [ABlock!Next]_ABlock!vars PROVE OneBlockInv'
  OBVIOUS
<1>1. ASSUME NEW b \in ABlock!Position, NEW e \in ABlock!Position, b <= e, ABlock!Receive(b, e)
      PROVE  OneBlockInv'
  BY <1>1, OneBlockReceives
<1>2. ASSUME NEW b \in ABlock!Position, NEW e \in ABlock!Position, NEW n \in 0..(e - b),
             ABlock!ReceiveFails(b, e, n)
      PROVE  OneBlockInv'
  BY <1>2, OneBlockFails
<1>3. ASSUME NEW b \in ABlock!Position, ABlock!ReceiveToEof(b) PROVE OneBlockInv'
  <2>1. BlockEnd \in ABlock!Position /\ b <= BlockEnd /\ ABlock!Receive(b, BlockEnd)
    BY <1>3, ABlock!BlockAssumption DEF ABlock!BlockAssumption, ABlock!ReceiveToEof, ABlock!Position
  <2> QED
    BY <2>1, OneBlockReceives
<1>4. CASE UNCHANGED ABlock!vars
  BY <1>4 DEF OneBlockInv, ABlock!TypeOK, ABlock!NothingMissing, ABlock!NoEmptySegment, ABlock!RegionIsTheRest,
              BytesOf, ABlock!BlockBytes, ABlock!vars
<1> QED
  BY <1>1, <1>2, <1>3, <1>4 DEF ABlock!Next

LEMMA OneBlockInductive ==
  ASSUME ABlock!BlockAssumption
  PROVE  ABlock!Spec => []OneBlockInv
BY OneBlockInit, OneBlockStep, PTL DEF ABlock!Spec

\* The variables keep their types; nothing is written outside the block
\* (PendingBlock.ABlock!Receive, ABlock!ReceiveToEof).
THEOREM BlockTypeCorrect ==
  ASSUME ABlock!BlockAssumption
  PROVE  ABlock!Spec => []ABlock!TypeOK
<1>1. OneBlockInv => ABlock!TypeOK
  BY DEF OneBlockInv
<1> QED
  BY OneBlockInductive, <1>1, PTL

\* A block that is complete has all its bytes (peer_connection.go:257).
THEOREM CompleteHasNoHole ==
  ASSUME ABlock!BlockAssumption
  PROVE  ABlock!Spec => []ABlock!NothingMissing
<1>1. OneBlockInv => ABlock!NothingMissing
  BY DEF OneBlockInv
<1> QED
  BY OneBlockInductive, <1>1, PTL

\* Region.Sub leaves no empty segment, so the segments becomes empty with the last byte.
THEOREM SegmentsAreNotEmpty ==
  ASSUME ABlock!BlockAssumption
  PROVE  ABlock!Spec => []ABlock!NoEmptySegment
<1>1. OneBlockInv => ABlock!NoEmptySegment
  BY DEF OneBlockInv
<1> QED
  BY OneBlockInductive, <1>1, PTL

\* While the connection lives the segments is what did not arrive, whatever was sent.
THEOREM RegionIsExact ==
  ASSUME ABlock!BlockAssumption
  PROVE  ABlock!Spec => []ABlock!RegionIsTheRest
<1>1. OneBlockInv => ABlock!RegionIsTheRest
  BY DEF OneBlockInv
<1> QED
  BY OneBlockInductive, <1>1, PTL

----------------------------------------------------------------------------
(* Where blocks and parts lie.                                              *)
LEMMA DivMod ==
  ASSUME NEW a \in Int, NEW b \in Nat \ {0}
  PROVE  /\ a \div b \in Int /\ a % b \in Int
         /\ a = b * (a \div b) + (a % b) /\ 0 <= a % b /\ a % b < b
OBVIOUS

LEMMA ModUnique ==
  ASSUME NEW q \in Int, NEW b \in Nat \ {0}, NEW r \in Int, 0 <= r, r < b
  PROVE  (b * q + r) \div b = q /\ (b * q + r) % b = r
OBVIOUS

LEMMA SizeFacts ==
  /\ BlockSize \in Nat \ {0} /\ BlocksPerPiece \in Nat \ {0} /\ FileSize \in Nat \ {0}
  /\ PieceSize \in Nat \ {0} /\ PieceSize = BlockSize * BlocksPerPiece
  /\ PieceIndex \in Nat
<1>1. /\ BlockSize \in Nat \ {0} /\ BlocksPerPiece \in Nat \ {0} /\ FileSize \in Nat \ {0}
      /\ PieceIndex \in Nat
  BY ReceiptAssumption
<1>2. BlockSize * BlocksPerPiece \in Nat \ {0}
  <2>1. \A x, y \in Nat \ {0} : x * y \in Nat \ {0}
    OBVIOUS
  <2> QED
    BY <1>1, <2>1
<1> QED
  BY <1>1, <1>2 DEF PieceSize

\* A round-up division is the number of steps of b that are needed to reach a.
LEMMA DivCeilFacts ==
  ASSUME NEW a \in Nat, NEW b \in Nat \ {0}
  PROVE  /\ DivCeil(a, b) \in Nat
         /\ (DivCeil(a, b) - 1) * b < a /\ a <= DivCeil(a, b) * b
<1> DEFINE q == (a + b - 1) \div b
           r == (a + b - 1) % b
<1>1. q \in Int /\ r \in Int /\ a + b - 1 = b * q + r /\ 0 <= r /\ r < b
  BY DivMod
<1>2. DivCeil(a, b) = q
  BY DEF DivCeil
<1> HIDE DEF q, r
<1>3. q * b = b * q /\ (q - 1) * b = b * q - b
  BY <1>1
<1>4. q >= 0
  <2>1. SUFFICES ASSUME q <= -1 PROVE FALSE
    BY <1>1
  <2>2. b * q <= b * (-1)
    BY <1>1, <2>1
  <2>3. b * (-1) = -b
    OBVIOUS
  <2>4. b * q \in Int
    BY <1>1
  <2> QED
    BY <1>1, <2>2, <2>3, <2>4
<1>5. b * q \in Int
  BY <1>1
<1> QED
  BY <1>1, <1>2, <1>3, <1>4, <1>5

LEMMA MulMonotone ==
  ASSUME NEW a \in Int, NEW b \in Int, NEW c \in Nat, a <= b
  PROVE  a * c \in Int /\ b * c \in Int /\ a * c <= b * c
OBVIOUS

LEMMA MulCancel ==
  ASSUME NEW a \in Int, NEW b \in Int, NEW c \in Nat \ {0}, a * c < b * c
  PROVE  a < b
<1>1. SUFFICES ASSUME b <= a PROVE FALSE
  OBVIOUS
<1>2. b * c <= a * c /\ b * c \in Int /\ a * c \in Int
  BY <1>1, MulMonotone
<1> QED
  BY <1>2

\* Every block of the piece begins in the file, the last block of a short last
\* piece included (NumPiecesAndBlocks, BlocksInPiece).
LEMMA StartInFile == \A i \in Index : Start(i) \in Nat /\ Start(i) < FileSize
<1> TAKE i \in Index
<1> DEFINE P == PieceSize
           N == NumPieces
           last == PieceIndex * P
           at == i * BlockSize
<1>1. /\ P \in Nat \ {0} /\ P = BlockSize * BlocksPerPiece /\ BlockSize \in Nat \ {0}
      /\ BlocksPerPiece \in Nat \ {0} /\ FileSize \in Nat \ {0} /\ PieceIndex \in Nat
  BY SizeFacts
<1>2. N \in Nat /\ (N - 1) * P < FileSize /\ FileSize <= N * P
  BY <1>1, DivCeilFacts DEF NumPieces
<1>3. /\ PieceIndex \in 0..(N - 1)
      /\ NumBlocks = IF PieceIndex + 1 = N THEN BlocksInLastPiece ELSE BlocksPerPiece
  BY ReceiptAssumption
<1>4. i \in Nat /\ i < NumBlocks /\ NumBlocks \in Nat \ {0}
  BY IndexFacts
<1> HIDE DEF P, N
<1>5. last \in Nat /\ at \in Nat /\ Start(i) = last + at
  <2>1. \A x, y \in Nat : x * y \in Nat
    OBVIOUS
  <2> QED
    BY <1>1, <1>4, <2>1 DEF Start, P
<1>6. (N - 1) * P \in Int /\ N * P \in Int /\ N * P = (N - 1) * P + P
  BY <1>1, <1>2
\* A block of a whole piece begins before the piece ends.
<1>7. ASSUME NumBlocks = BlocksPerPiece PROVE Start(i) < (PieceIndex + 1) * P
  <2>1. i + 1 <= BlocksPerPiece
    BY <1>4, <1>7
  <2>2. (i + 1) * BlockSize <= BlocksPerPiece * BlockSize
    BY <1>1, <1>4, <2>1, MulMonotone
  <2>3. (i + 1) * BlockSize = at + BlockSize /\ BlocksPerPiece * BlockSize = P
    BY <1>1, <1>4
  <2>4. (PieceIndex + 1) * P = last + P
    BY <1>1
  <2> HIDE DEF last, at
  <2> QED
    BY <1>1, <1>5, <2>2, <2>3, <2>4
<1>8. CASE PieceIndex + 1 # N
  <2>1. PieceIndex + 1 <= N - 1
    BY <1>2, <1>3, <1>8
  <2>2. (PieceIndex + 1) * P <= (N - 1) * P /\ (PieceIndex + 1) * P \in Int
    BY <1>1, <1>2, <2>1, MulMonotone
  <2>3. Start(i) < (PieceIndex + 1) * P
    BY <1>3, <1>7, <1>8
  <2> QED
    BY <1>1, <1>2, <1>5, <1>6, <2>2, <2>3
<1>9. CASE PieceIndex + 1 = N
  <2> DEFINE q == FileSize \div P
             m == FileSize % P
             n == DivCeil(m, BlockSize)
  <2>7. /\ q \in Int /\ m \in Int
        /\ FileSize = P * q + m /\ 0 <= m /\ m < P
    <3>1. FileSize \in Int /\ P \in Nat \ {0}
      BY <1>1
    <3> QED
      BY <3>1, DivMod
  <2>8. m = FileSize % P
    OBVIOUS
  <2> HIDE DEF q, m
  <2>1. q \in Int /\ m \in Nat /\ FileSize = P * q + m /\ m < P
    BY <2>7
  <2>2. n \in Nat /\ (n - 1) * BlockSize < m /\ m <= n * BlockSize
    BY <1>1, <2>1, DivCeilFacts
  <2>3. NumBlocks = IF n = 0 THEN BlocksPerPiece ELSE n
    BY <1>3, <1>9, <2>8 DEF BlocksInLastPiece, P
  <2> HIDE DEF n
  <2>4. P * q \in Int /\ P * q = q * P /\ (q + 1) * P = q * P + P /\ q * P \in Int
    BY <1>1, <2>1
  <2>5. CASE n = 0
    <3>1. m = 0
      <4>1. n * BlockSize = 0
        BY <1>1, <2>5
      <4> QED
        BY <2>1, <2>2, <4>1
    <3>2. FileSize = q * P
      BY <2>1, <2>4, <3>1
    <3>3. N - 1 < q
      BY <1>1, <1>2, <2>1, <3>2, MulCancel
    <3>4. N * P <= q * P
      BY <1>1, <1>2, <2>1, <3>3, MulMonotone
    <3>5. Start(i) < N * P
      BY <1>7, <1>9, <2>3, <2>5
    <3> QED
      BY <1>1, <1>5, <1>6, <2>4, <3>2, <3>4, <3>5
  <2>6. CASE n # 0
    <3>1. i <= n - 1
      BY <1>4, <2>2, <2>3, <2>6
    <3>2. at <= (n - 1) * BlockSize /\ (n - 1) * BlockSize \in Int
      BY <1>1, <1>4, <2>2, <3>1, MulMonotone
    <3>3. (N - 1) * P < (q + 1) * P
      BY <1>1, <1>2, <1>6, <2>1, <2>4
    <3>4. N - 1 < q + 1
      BY <1>1, <1>2, <2>1, <3>3, MulCancel
    <3>5. (N - 1) * P <= q * P
      BY <1>1, <1>2, <2>1, <3>4, MulMonotone
    <3>6. last = (N - 1) * P
      BY <1>1, <1>2, <1>9
    <3> HIDE DEF last, at
    <3> QED
      BY <1>1, <1>5, <1>6, <2>1, <2>2, <2>4, <3>2, <3>5, <3>6
  <2> QED
    BY <2>5, <2>6
<1> QED
  BY <1>5, <1>8, <1>9

LEMMA BlockFacts ==
  \A i \in Index : /\ Start(i) \in Nat /\ End(i) \in Nat /\ Start(i) < End(i)
                   /\ End(i) <= Start(i) + BlockSize /\ End(i) <= FileSize
                   /\ End(i) = FileSize \/ End(i) = Start(i) + BlockSize
<1>1. BlockSize \in Nat \ {0} /\ FileSize \in Nat
  BY SizeFacts
<1> QED
  BY <1>1, StartInFile DEF End

\* A part is for the block its offset lies in, and its place in the buffer is its
\* distance from the start of the block (FromOffset, InBlockOffset).
LEMMA OffsetFacts ==
  ASSUME NEW i \in Index, NEW b \in Nat, FromOffset(b) = <<PieceIndex, i>>
  PROVE  InBlockOffset(b) = b - Start(i) /\ Start(i) <= b /\ b < Start(i) + BlockSize
<1> DEFINE P == PieceSize
           rest == b % P
           r == rest % BlockSize
           whole == PieceIndex * BlocksPerPiece + i
<1>1. /\ P \in Nat \ {0} /\ P = BlockSize * BlocksPerPiece /\ BlockSize \in Nat \ {0}
      /\ BlocksPerPiece \in Nat \ {0} /\ PieceIndex \in Nat /\ i \in Nat
  BY SizeFacts, IndexFacts
<1>2. b \div P = PieceIndex /\ rest \div BlockSize = i
  BY DEF FromOffset, P
<1>3. rest \in Int /\ b = P * PieceIndex + rest
  <2>1. b \in Int
    OBVIOUS
  <2>2. rest \in Int /\ b = P * (b \div P) + rest
    BY <1>1, <2>1, DivMod
  <2> QED
    BY <1>2, <2>2
<1>4. r \in Int /\ 0 <= r /\ r < BlockSize /\ rest = BlockSize * i + r
  BY <1>1, <1>2, <1>3, DivMod
<1> HIDE DEF P, rest, r
<1>5. whole \in Int /\ BlockSize * whole = P * PieceIndex + BlockSize * i
  <2>1. PieceIndex * BlocksPerPiece \in Int
    BY <1>1
  <2>2. BlockSize * whole = BlockSize * (PieceIndex * BlocksPerPiece) + BlockSize * i
    BY <1>1, <2>1
  <2>3. BlockSize * (PieceIndex * BlocksPerPiece) = (BlockSize * BlocksPerPiece) * PieceIndex
    BY <1>1
  <2> QED
    BY <1>1, <2>1, <2>2, <2>3
<1>6. Start(i) = BlockSize * whole
  BY <1>1, <1>5 DEF Start, P
<1> HIDE DEF whole
<1>7. b = BlockSize * whole + r
  <2>1. P * PieceIndex \in Int /\ BlockSize * i \in Int
    BY <1>1
  <2> QED
    BY <1>3, <1>4, <1>5, <2>1
<1>8. b % BlockSize = r
  BY <1>1, <1>4, <1>5, <1>7, ModUnique
<1>9. BlockSize * whole \in Int
  BY <1>1, <1>5
<1> QED
  BY <1>1, <1>4, <1>6, <1>7, <1>8, <1>9 DEF InBlockOffset

----------------------------------------------------------------------------
(* What a buffer holds of its block.                                        *)
Whole(i) == Make(Start(i), End(i))
Holds(buffer, i) == {x \in Start(i)..(End(i) - 1) : buffer[x - Start(i) + 1] = x}

LEMMA WholeFacts ==
  \A i \in Index : /\ Whole(i) \in Ranges /\ Whole(i).begin = Start(i) /\ Whole(i).end = End(i)
                   /\ Bytes(Whole(i)) = Start(i)..(End(i) - 1)
                   /\ BytesOf({Whole(i)}) = Bytes(Whole(i))
BY BlockFacts, MakeParts, BytesOfFew DEF Whole

LEMMA EmptyBufferHoldsNothing ==
  \A i \in Index : /\ EmptyBuffer(i) \in [1..(End(i) - Start(i)) -> Int]
                   /\ Holds(EmptyBuffer(i), i) = {}
<1> TAKE i \in Index
<1>1. Start(i) \in Nat /\ End(i) \in Nat /\ Start(i) < End(i)
  BY BlockFacts
<1>2. EmptyBuffer(i) \in [1..(End(i) - Start(i)) -> Int]
  BY DEF EmptyBuffer, Zero
<1>3. \A x \in Start(i)..(End(i) - 1) :
        /\ x \in Nat /\ x - Start(i) + 1 \in 1..(End(i) - Start(i))
        /\ EmptyBuffer(i)[x - Start(i) + 1] = Zero
  BY <1>1 DEF EmptyBuffer
<1>4. \A x \in Nat : Zero # x
  BY DEF Zero
<1> QED
  BY <1>2, <1>3, <1>4 DEF Holds

\* Reading a part puts its bytes, and no other, at their places.
LEMMA ReadIntoFills ==
  ASSUME NEW i \in Index, NEW buffer \in [1..(End(i) - Start(i)) -> Int],
         NEW b \in Nat, NEW e \in Nat, b <= e, e <= End(i),
         FromOffset(b) = <<PieceIndex, i>>
  PROVE  /\ ReadInto(buffer, b, e) \in [1..(End(i) - Start(i)) -> Int]
         /\ Holds(ReadInto(buffer, b, e), i) = Holds(buffer, i) \cup Bytes(Make(b, e))
<1> DEFINE read == ReadInto(buffer, b, e)
           size == End(i) - Start(i)
<1>1. /\ Start(i) \in Nat /\ End(i) \in Nat /\ Start(i) < End(i) /\ size \in Nat
      /\ InBlockOffset(b) = b - Start(i) /\ Start(i) <= b
  BY BlockFacts, OffsetFacts
<1>2. DOMAIN buffer = 1..size /\ \A n \in 1..size : buffer[n] \in Int
  OBVIOUS
<1>3. ASSUME NEW n \in 1..size
      PROVE  read[n] = IF b <= n - 1 + Start(i) /\ n - 1 + Start(i) < e
                       THEN n - 1 + Start(i) ELSE buffer[n]
  <2> DEFINE k == n - 1 - InBlockOffset(b)
  <2>1. read[n] = IF 0 <= k /\ k < e - b THEN b + k ELSE buffer[n]
    BY <1>2 DEF ReadInto
  <2>2. /\ k \in Int /\ b + k = n - 1 + Start(i)
        /\ 0 <= k <=> b <= n - 1 + Start(i)
        /\ k < e - b <=> n - 1 + Start(i) < e
    BY <1>1
  <2> HIDE DEF k, read
  <2> QED
    BY <2>1, <2>2
<1>4. DOMAIN read = 1..size /\ read = [n \in 1..size |-> read[n]]
  BY <1>2 DEF ReadInto
<1> HIDE DEF read, size
<1>5. read \in [1..size -> Int]
  <2>1. ASSUME NEW n \in 1..size PROVE read[n] \in Int
    <3>1. n - 1 + Start(i) \in Int /\ buffer[n] \in Int
      BY <1>1, <1>2
    <3> QED
      BY <3>1, <1>3
  <2> QED
    BY <1>4, <2>1
<1>6. Bytes(Make(b, e)) = b..(e - 1)
  BY MakeParts
<1>7. ASSUME NEW x \in Start(i)..(End(i) - 1)
      PROVE  read[x - Start(i) + 1] = x
               <=> buffer[x - Start(i) + 1] = x \/ x \in b..(e - 1)
  <2>1. x - Start(i) + 1 \in 1..size /\ (x - Start(i) + 1) - 1 + Start(i) = x /\ x \in Nat
    BY <1>1 DEF size
  <2>2. read[x - Start(i) + 1] = IF b <= x /\ x < e THEN x ELSE buffer[x - Start(i) + 1]
    BY <1>3, <2>1
  <2> QED
    BY <2>1, <2>2
<1>8. b..(e - 1) \subseteq Start(i)..(End(i) - 1)
  BY <1>1
<1>9. Holds(read, i) = Holds(buffer, i) \cup (b..(e - 1))
  BY <1>7, <1>8 DEF Holds
<1> QED
  BY <1>5, <1>6, <1>9 DEF read, size

----------------------------------------------------------------------------
(* The invariant of a pending block, and of the blocks handed over.         *)
BlockInv(c, i) ==
  /\ region[c][i] # {}
  /\ \A r \in region[c][i] : Start(i) <= r.begin /\ r.begin < r.end /\ r.end <= End(i)
  /\ Bytes(Whole(i)) \ BytesOf(region[c][i]) \subseteq Holds(data[c][i], i)
  /\ c \notin failed => BytesOf(region[c][i]) = Bytes(Whole(i)) \ Holds(data[c][i], i)

ReceiptTypes ==
  /\ pending \in [Connection -> SUBSET Index]
  /\ failed \subseteq Connection
  /\ region \in [Connection -> [Index -> SUBSET Ranges]]
  /\ data \in [Connection -> [Index -> Seq(Int)]]
  /\ \A c \in Connection, i \in Index : data[c][i] \in [1..(End(i) - Start(i)) -> Int]

\* The bytes of a block as they are in the file.
FileBlock(i) == [n \in 1..(End(i) - Start(i)) |-> Start(i) + n - 1]
HandedOverIsTheFile == \A i \in DOMAIN first : first[i] = FileBlock(i)

ReceiptInv ==
  /\ ReceiptTypes
  /\ \A c \in Connection : \A i \in pending[c] : BlockInv(c, i)
  /\ HandedOverIsTheFile

LEMMA InitReceiptInv == InitReceipt => ReceiptInv
<1> SUFFICES ASSUME InitReceipt PROVE ReceiptInv
  OBVIOUS
<1>1. ReceiptTypes
  BY EmptyBufferIsBytes, EmptyBufferHoldsNothing DEF InitReceipt, ReceiptTypes
<1>2. \A c \in Connection : pending[c] = {}
  BY DEF InitReceipt
<1>3. DOMAIN first = {}
  BY DEF InitReceipt, Init
<1> QED
  BY <1>1, <1>2, <1>3 DEF ReceiptInv, HandedOverIsTheFile

\* Requested blocks miss everything.
LEMMA RequestInv ==
  ASSUME ReceiptInv, NEW c \in Connection, Request(c)
  PROVE  ReceiptInv'
<1>1. PICK S \in SUBSET (Index \ DOMAIN first) :
        /\ pending' = [pending EXCEPT ![c] = S]
        /\ region' = [region EXCEPT ![c] = [i \in Index |-> IF i \in S THEN {Whole(i)} ELSE {}]]
        /\ data' = [data EXCEPT ![c] = [i \in Index |-> EmptyBuffer(i)]]
  BY DEF Request, Whole
<1>2. UNCHANGED <<first, failed>>
  BY DEF Request, vars
<1>3. ReceiptTypes
  BY DEF ReceiptInv
<1>4. ReceiptTypes'
  <2>1. pending' \in [Connection -> SUBSET Index] /\ failed' \subseteq Connection
    BY <1>1, <1>2, <1>3 DEF ReceiptTypes
  <2>2. [i \in Index |-> IF i \in S THEN {Whole(i)} ELSE {}] \in [Index -> SUBSET Ranges]
    BY WholeFacts
  <2>3. region' \in [Connection -> [Index -> SUBSET Ranges]]
    BY <1>1, <1>3, <2>2 DEF ReceiptTypes
  <2>4. [i \in Index |-> EmptyBuffer(i)] \in [Index -> Seq(Int)]
    BY EmptyBufferIsBytes
  <2>5. data' \in [Connection -> [Index -> Seq(Int)]]
    BY <1>1, <1>3, <2>4 DEF ReceiptTypes
  <2>6. ASSUME NEW d \in Connection, NEW i \in Index
        PROVE  data'[d][i] \in [1..(End(i) - Start(i)) -> Int]
    <3>1. CASE d = c
      <4>1. data'[d][i] = EmptyBuffer(i)
        BY <1>1, <1>3, <3>1 DEF ReceiptTypes
      <4> QED
        BY <4>1, EmptyBufferHoldsNothing
    <3>2. CASE d # c
      <4>1. data'[d][i] = data[d][i]
        BY <1>1, <1>3, <3>2 DEF ReceiptTypes
      <4> QED
        BY <4>1, <1>3 DEF ReceiptTypes
    <3> QED
      BY <3>1, <3>2
  <2> QED
    BY <2>1, <2>3, <2>5, <2>6 DEF ReceiptTypes
<1>5. ASSUME NEW d \in Connection, NEW i \in pending'[d] PROVE BlockInv(d, i)'
  <2>1. CASE d = c
    <3>1. i \in Index /\ region'[d][i] = {Whole(i)} /\ data'[d][i] = EmptyBuffer(i)
      BY <1>1, <1>3, <2>1 DEF ReceiptTypes
    <3>2. /\ Holds(data'[d][i], i) = {}
          /\ BytesOf(region'[d][i]) = Bytes(Whole(i))
          /\ Whole(i).begin = Start(i) /\ Whole(i).end = End(i)
          /\ Start(i) \in Nat /\ End(i) \in Nat /\ Start(i) < End(i)
      BY <3>1, EmptyBufferHoldsNothing, WholeFacts, BlockFacts
    <3> QED
      BY <3>1, <3>2 DEF BlockInv, BytesOf, Holds
  <2>2. CASE d # c
    <3>1. i \in pending[d] /\ region'[d] = region[d] /\ data'[d] = data[d]
      BY <1>1, <1>3, <2>2 DEF ReceiptTypes
    <3>2. BlockInv(d, i)
      BY <3>1 DEF ReceiptInv
    <3> QED
      BY <1>2, <3>1, <3>2 DEF BlockInv, BytesOf, Holds
  <2> QED
    BY <2>1, <2>2
<1>6. HandedOverIsTheFile'
  BY <1>2 DEF ReceiptInv, HandedOverIsTheFile
<1> QED
  BY <1>4, <1>5, <1>6 DEF ReceiptInv

\* A block nothing is done to.
LEMMA BlockInvKept ==
  ASSUME NEW c, NEW i, BlockInv(c, i), c \in failed => c \in failed',
         region'[c][i] = region[c][i], data'[c][i] = data[c][i]
  PROVE  BlockInv(c, i)'
BY DEF BlockInv, BytesOf, Holds

\* What reading a part of an expected block comes to.
LEMMA PartFacts ==
  ASSUME ReceiptInv, NEW c \in Connection, NEW i \in Index, NEW b \in Nat, NEW e \in Nat,
         b <= e, e <= End(i), Expected(c, b, i)
  PROVE  LET rest == RegionSub(region[c][i], Make(b, e))
             read == ReadInto(data[c][i], b, e)
         IN  /\ rest \in SUBSET Ranges
             /\ \A r \in rest : Start(i) <= r.begin /\ r.begin < r.end /\ r.end <= End(i)
             /\ read \in [1..(End(i) - Start(i)) -> Int] /\ read \in Seq(Int)
             /\ Holds(read, i) = Holds(data[c][i], i) \cup Bytes(Make(b, e))
             /\ BytesOf(rest) = Bytes(Whole(i)) \ Holds(read, i)
             /\ rest = {} => read = FileBlock(i)
<1> DEFINE rest == RegionSub(region[c][i], Make(b, e))
           read == ReadInto(data[c][i], b, e)
<1>1. /\ FromOffset(b) = <<PieceIndex, i>> /\ i \in pending[c] /\ c \notin failed
  BY DEF Expected
<1>2. /\ region[c][i] \in SUBSET Ranges /\ data[c][i] \in [1..(End(i) - Start(i)) -> Int]
      /\ data[c][i] \in Seq(Int)
  BY DEF ReceiptInv, ReceiptTypes
<1>3. /\ \A r \in region[c][i] : Start(i) <= r.begin /\ r.begin < r.end /\ r.end <= End(i)
      /\ BytesOf(region[c][i]) = Bytes(Whole(i)) \ Holds(data[c][i], i)
  BY <1>1 DEF ReceiptInv, BlockInv
<1>4. /\ read \in [1..(End(i) - Start(i)) -> Int]
      /\ Holds(read, i) = Holds(data[c][i], i) \cup Bytes(Make(b, e))
  BY <1>1, <1>2, ReadIntoFills
<1>5. read \in Seq(Int)
  BY <1>2, ReadIntoIsBytes
<1>6. Start(i) \in Nat /\ End(i) \in Nat /\ Start(i) < End(i)
  BY BlockFacts
<1>7. Make(b, e) \in Ranges /\ Make(b, e).begin <= Make(b, e).end
  BY MakeParts
<1>8. /\ BytesOf(rest) = BytesOf(region[c][i]) \ Bytes(Make(b, e))
      /\ \A r \in rest :
           r \in Ranges /\ Start(i) <= r.begin /\ r.begin < r.end /\ r.end <= End(i)
  <2>1. Start(i) \in Int /\ End(i) \in Int
    BY <1>6
  <2> QED
    BY <2>1, <1>2, <1>3, <1>7, RegionSubIsDifference
<1> HIDE DEF rest, read
<1>9. BytesOf(rest) = Bytes(Whole(i)) \ Holds(read, i)
  BY <1>3, <1>4, <1>8
<1>10. ASSUME rest = {} PROVE read = FileBlock(i)
  <2>1. BytesOf(rest) = {}
    BY <1>10, BytesOfFew
  <2>2. Bytes(Whole(i)) = Start(i)..(End(i) - 1)
    BY WholeFacts
  <2>3. \A x \in Start(i)..(End(i) - 1) : read[x - Start(i) + 1] = x
    BY <1>9, <2>1, <2>2 DEF Holds
  <2>4. ASSUME NEW n \in 1..(End(i) - Start(i)) PROVE read[n] = Start(i) + n - 1
    <3>1. /\ Start(i) + n - 1 \in Start(i)..(End(i) - 1)
          /\ (Start(i) + n - 1) - Start(i) + 1 = n
      BY <1>6
    <3> QED
      BY <2>3, <3>1
  <2> QED
    BY <1>4, <2>4 DEF FileBlock
<1> QED
  BY <1>4, <1>5, <1>8, <1>9, <1>10 DEF rest, read

\* A part is read, and the block handed over with the last of them.
LEMMA PartInv ==
  ASSUME ReceiptInv, NEW c \in Connection, NEW i \in Index, NEW b \in Nat, NEW e \in Nat,
         b <= e, e <= End(i), Expected(c, b, i), ReadPart(c, i, b, e)
  PROVE  ReceiptInv'
<1> DEFINE rest == RegionSub(region[c][i], Make(b, e))
           read == ReadInto(data[c][i], b, e)
<1>1. /\ rest \in SUBSET Ranges
      /\ \A r \in rest : Start(i) <= r.begin /\ r.begin < r.end /\ r.end <= End(i)
      /\ read \in [1..(End(i) - Start(i)) -> Int] /\ read \in Seq(Int)
      /\ BytesOf(rest) = Bytes(Whole(i)) \ Holds(read, i)
      /\ rest = {} => read = FileBlock(i)
  BY PartFacts
<1>2. IF rest = {} THEN HandOver(c, i, read)
      ELSE /\ region' = [region EXCEPT ![c][i] = rest]
           /\ data' = [data EXCEPT ![c][i] = read]
           /\ UNCHANGED <<pending, vars>>
  BY DEF ReadPart
<1>3. failed' = failed
  BY DEF ReadPart
<1>4. ReceiptTypes /\ HandedOverIsTheFile /\ \A d \in Connection : \A j \in pending[d] : BlockInv(d, j)
  BY DEF ReceiptInv
<1> HIDE DEF rest, read
<1>5. CASE rest = {}
  <2>1. /\ pending' = [pending EXCEPT ![c] = @ \ {i}]
        /\ region' = [region EXCEPT ![c][i] = {}]
        /\ data' = [data EXCEPT ![c][i] = EmptyBuffer(i)]
        /\ first' = [j \in DOMAIN first \cup {i} |-> IF j \in DOMAIN first THEN first[j] ELSE read]
    BY <1>2, <1>5 DEF HandOver
  <2>2. ReceiptTypes'
    BY <1>3, <1>4, <2>1, EmptyBufferIsBytes, EmptyBufferHoldsNothing DEF ReceiptTypes
  <2>3. ASSUME NEW d \in Connection, NEW j \in pending'[d] PROVE BlockInv(d, j)'
    <3>1. j \in pending[d] /\ (d # c \/ j # i)
      BY <1>4, <2>1 DEF ReceiptTypes
    <3>2. region'[d][j] = region[d][j] /\ data'[d][j] = data[d][j]
      BY <1>4, <2>1, <3>1 DEF ReceiptTypes
    <3> QED
      BY <1>3, <1>4, <3>1, <3>2, BlockInvKept
  <2>4. HandedOverIsTheFile'
    BY <1>1, <1>4, <1>5, <2>1 DEF HandedOverIsTheFile, FileBlock
  <2> QED
    BY <2>2, <2>3, <2>4 DEF ReceiptInv
<1>6. CASE rest # {}
  <2>1. /\ region' = [region EXCEPT ![c][i] = rest]
        /\ data' = [data EXCEPT ![c][i] = read]
        /\ pending' = pending /\ first' = first
    BY <1>2, <1>6 DEF vars
  <2>2. ReceiptTypes'
    BY <1>1, <1>3, <1>4, <2>1 DEF ReceiptTypes
  <2>3. region'[c][i] = rest /\ data'[c][i] = read
    BY <1>4, <2>1 DEF ReceiptTypes
  <2>4. BlockInv(c, i)'
    <3>1. Bytes(Whole(i)) \ BytesOf(rest) \subseteq Holds(read, i)
      BY <1>1
    <3> QED
      BY <1>1, <1>6, <2>3, <3>1 DEF BlockInv, Holds, BytesOf
  <2>5. ASSUME NEW d \in Connection, NEW j \in pending'[d] PROVE BlockInv(d, j)'
    <3>1. CASE d = c /\ j = i
      BY <2>4, <3>1
    <3>2. CASE d # c \/ j # i
      <4>1. j \in pending[d] /\ region'[d][j] = region[d][j] /\ data'[d][j] = data[d][j]
        BY <1>4, <2>1, <3>2 DEF ReceiptTypes
      <4> QED
        BY <1>3, <1>4, <4>1, BlockInvKept
    <3> QED
      BY <3>1, <3>2
  <2>6. HandedOverIsTheFile'
    BY <1>4, <2>1 DEF HandedOverIsTheFile
  <2> QED
    BY <2>2, <2>5, <2>6 DEF ReceiptInv
<1> QED
  BY <1>5, <1>6

\* A failed read puts bytes into the buffer and leaves the region.
LEMMA PartFailsInv ==
  ASSUME ReceiptInv, NEW c \in Connection, NEW i \in Index, NEW b \in Nat, NEW e \in Nat,
         b <= e, e <= End(i), Expected(c, b, i),
         data' = [data EXCEPT ![c][i] = ReadInto(@, b, e)],
         failed' = failed \cup {c}, UNCHANGED <<vars, pending, region>>
  PROVE  ReceiptInv'
<1> DEFINE read == ReadInto(data[c][i], b, e)
<1>1. ReceiptTypes /\ HandedOverIsTheFile /\ \A d \in Connection : \A j \in pending[d] : BlockInv(d, j)
  BY DEF ReceiptInv
<1>2. /\ read \in [1..(End(i) - Start(i)) -> Int] /\ read \in Seq(Int)
      /\ Holds(read, i) = Holds(data[c][i], i) \cup Bytes(Make(b, e))
  BY PartFacts
<1>3. data' = [data EXCEPT ![c][i] = read]
  OBVIOUS
<1> HIDE DEF read
<1>4. ReceiptTypes'
  BY <1>1, <1>2, <1>3 DEF ReceiptTypes, vars
<1>5. BlockInv(c, i)'
  <2>1. BlockInv(c, i) /\ data'[c][i] = read /\ c \in failed'
    BY <1>1, <1>3 DEF Expected, ReceiptTypes
  <2> QED
    BY <2>1, <1>2 DEF BlockInv, Holds, BytesOf
<1>6. ASSUME NEW d \in Connection, NEW j \in pending'[d] PROVE BlockInv(d, j)'
  <2>1. CASE d = c /\ j = i
    BY <1>5, <2>1
  <2>2. CASE d # c \/ j # i
    <3>1. j \in pending[d] /\ data'[d][j] = data[d][j]
      BY <1>1, <1>3, <2>2 DEF ReceiptTypes
    <3>2. BlockInv(d, j) /\ region'[d][j] = region[d][j] /\ (d \in failed => d \in failed')
      BY <1>1, <3>1
    <3> QED
      BY <3>1, <3>2, BlockInvKept
  <2> QED
    BY <2>1, <2>2
<1>7. HandedOverIsTheFile'
  BY <1>1 DEF HandedOverIsTheFile, vars
<1> QED
  BY <1>4, <1>6, <1>7 DEF ReceiptInv

LEMMA UnexpectedPartInv ==
  ASSUME ReceiptInv, NEW c \in Connection, UnexpectedPart(c)
  PROVE  ReceiptInv'
<1>1. UNCHANGED <<vars, pending, region, data>> /\ failed' = failed \cup {c}
  BY DEF UnexpectedPart
<1>2. ReceiptTypes'
  BY <1>1 DEF ReceiptInv, ReceiptTypes
<1>3. ASSUME NEW d \in Connection, NEW j \in pending'[d] PROVE BlockInv(d, j)'
  <2>1. /\ BlockInv(d, j) /\ (d \in failed => d \in failed')
        /\ region'[d][j] = region[d][j] /\ data'[d][j] = data[d][j]
    BY <1>1 DEF ReceiptInv
  <2> QED
    BY <2>1, BlockInvKept
<1>4. HandedOverIsTheFile'
  BY <1>1 DEF ReceiptInv, HandedOverIsTheFile, vars
<1> QED
  BY <1>2, <1>3, <1>4 DEF ReceiptInv

LEMMA UnregisterInv ==
  ASSUME ReceiptInv, NEW c \in Connection, Unregister(c)
  PROVE  ReceiptInv'
<1>1. /\ pending' = [pending EXCEPT ![c] = {}]
      /\ region' = [region EXCEPT ![c] = [i \in Index |-> {}]]
      /\ data' = [data EXCEPT ![c] = [i \in Index |-> EmptyBuffer(i)]]
      /\ failed' = failed \ {c} /\ UNCHANGED vars
  BY DEF Unregister
<1>2. ReceiptTypes
  BY DEF ReceiptInv
<1>3. ReceiptTypes'
  <2>1. pending' \in [Connection -> SUBSET Index] /\ failed' \subseteq Connection
    BY <1>1, <1>2 DEF ReceiptTypes
  <2>2. region' \in [Connection -> [Index -> SUBSET Ranges]]
    BY <1>1, <1>2 DEF ReceiptTypes
  <2>3. [i \in Index |-> EmptyBuffer(i)] \in [Index -> Seq(Int)]
    BY EmptyBufferIsBytes
  <2>4. data' \in [Connection -> [Index -> Seq(Int)]]
    BY <1>1, <1>2, <2>3 DEF ReceiptTypes
  <2>5. ASSUME NEW d \in Connection, NEW i \in Index
        PROVE  data'[d][i] \in [1..(End(i) - Start(i)) -> Int]
    <3>1. CASE d = c
      <4>1. data'[d][i] = EmptyBuffer(i)
        BY <1>1, <1>2, <3>1 DEF ReceiptTypes
      <4> QED
        BY <4>1, EmptyBufferHoldsNothing
    <3>2. CASE d # c
      <4>1. data'[d][i] = data[d][i]
        BY <1>1, <1>2, <3>2 DEF ReceiptTypes
      <4> QED
        BY <4>1, <1>2 DEF ReceiptTypes
    <3> QED
      BY <3>1, <3>2
  <2> QED
    BY <2>1, <2>2, <2>4, <2>5 DEF ReceiptTypes
<1>4. ASSUME NEW d \in Connection, NEW j \in pending'[d] PROVE BlockInv(d, j)'
  <2>1. d # c /\ j \in pending[d]
    BY <1>1, <1>2 DEF ReceiptTypes
  <2>2. region'[d][j] = region[d][j] /\ data'[d][j] = data[d][j]
    BY <1>1, <1>2, <2>1 DEF ReceiptTypes
  <2>3. BlockInv(d, j) /\ (d \in failed => d \in failed')
    BY <1>1, <2>1 DEF ReceiptInv
  <2> QED
    BY <2>2, <2>3, BlockInvKept
<1>5. HandedOverIsTheFile'
  BY <1>1 DEF ReceiptInv, HandedOverIsTheFile, vars
<1> QED
  BY <1>3, <1>4, <1>5 DEF ReceiptInv

----------------------------------------------------------------------------
\* The positions of parts that are expected.
LEMMA PositionIsNat == Positions \subseteq Nat /\ \A b \in Positions : b < FileSize
<1>1. NumBlocks - 1 \in Index /\ 0 \in Index
  BY IndexFacts
<1>2. Start(0) \in Nat /\ End(NumBlocks - 1) \in Nat /\ End(NumBlocks - 1) <= FileSize
  BY <1>1, BlockFacts
<1>3. FileSize \in Nat
  BY SizeFacts
<1> QED
  BY <1>2, <1>3 DEF Positions

\* Each part that is read is one of these.
LEMMA SendingPartIs ==
  ASSUME NEW c \in Connection, SendingPart(c)
  PROVE  \E i \in Index, b, e \in Nat :
           b <= e /\ e <= End(i) /\ Expected(c, b, i) /\ ReadPart(c, i, b, e)
<1>1. PICK b \in Positions, i \in Index :
        Expected(c, b, i) /\ \E e \in b..End(i) : ReadPart(c, i, b, e)
  BY DEF SendingPart
<1>2. PICK e \in b..End(i) : ReadPart(c, i, b, e)
  BY <1>1
<1>3. b \in Nat /\ End(i) \in Nat
  BY PositionIsNat, BlockFacts
<1>4. e \in Nat /\ b <= e /\ e <= End(i)
  BY <1>3
<1> QED
  BY <1>1, <1>2, <1>3, <1>4

LEMMA CompressedPartIs ==
  ASSUME NEW c \in Connection, CompressedPart(c)
  PROVE  \E i \in Index, b, e \in Nat :
           b <= e /\ e <= End(i) /\ Expected(c, b, i) /\ ReadPart(c, i, b, e)
<1>1. PICK b \in Positions, i \in Index : Expected(c, b, i) /\ ReadPart(c, i, b, End(i))
  BY DEF CompressedPart
<1>2. /\ b \in Nat /\ b < FileSize /\ End(i) \in Nat /\ Start(i) \in Nat
      /\ End(i) = FileSize \/ End(i) = Start(i) + BlockSize
  BY PositionIsNat, BlockFacts
<1>3. b < Start(i) + BlockSize
  BY <1>1, <1>2, OffsetFacts DEF Expected
<1>4. b <= End(i)
  <2>1. FileSize \in Nat /\ BlockSize \in Nat
    BY SizeFacts
  <2> QED
    BY <2>1, <1>2, <1>3
<1> QED
  BY <1>1, <1>2, <1>4

LEMMA SendingPartFailsIs ==
  ASSUME NEW c \in Connection, SendingPartFails(c)
  PROVE  \E i \in Index, b, e \in Nat :
           /\ b <= e /\ e < End(i) /\ Expected(c, b, i)
           /\ data' = [data EXCEPT ![c][i] = ReadInto(@, b, e)]
<1>1. PICK b \in Positions, i \in Index :
        Expected(c, b, i) /\ \E e \in b..(End(i) - 1) : data' = [data EXCEPT ![c][i] = ReadInto(@, b, e)]
  BY DEF SendingPartFails
<1>2. PICK e \in b..(End(i) - 1) : data' = [data EXCEPT ![c][i] = ReadInto(@, b, e)]
  BY <1>1
<1>3. b \in Nat /\ End(i) \in Nat
  BY PositionIsNat, BlockFacts
<1>4. e \in Nat /\ b <= e /\ e < End(i)
  BY <1>3
<1> QED
  BY <1>1, <1>2, <1>3, <1>4

LEMMA ReceiptStepInv == ReceiptInv /\ [NextReceipt]_receiptVars => ReceiptInv'
<1> SUFFICES ASSUME ReceiptInv, [NextReceipt]_receiptVars PROVE ReceiptInv'
  OBVIOUS
<1>1. CASE UNCHANGED receiptVars
  BY <1>1 DEF ReceiptInv, ReceiptTypes, BlockInv, HandedOverIsTheFile, Holds, BytesOf,
              receiptVars, vars
<1>2. ASSUME NEW c \in Connection, Request(c) PROVE ReceiptInv'
  BY <1>2, RequestInv
<1>3. ASSUME NEW c \in Connection, SendingPart(c) \/ CompressedPart(c) PROVE ReceiptInv'
  <2>1. PICK i \in Index, b \in Nat, e \in Nat :
          b <= e /\ e <= End(i) /\ Expected(c, b, i) /\ ReadPart(c, i, b, e)
    BY <1>3, SendingPartIs, CompressedPartIs
  <2> QED
    BY <2>1, PartInv
<1>4. ASSUME NEW c \in Connection, SendingPartFails(c) PROVE ReceiptInv'
  <2>1. PICK i \in Index, b \in Nat, e \in Nat :
          /\ b <= e /\ e < End(i) /\ Expected(c, b, i)
          /\ data' = [data EXCEPT ![c][i] = ReadInto(@, b, e)]
    BY <1>4, SendingPartFailsIs
  <2>2. failed' = failed \cup {c} /\ UNCHANGED <<vars, pending, region>>
    BY <1>4 DEF SendingPartFails
  <2>3. e <= End(i)
    BY <2>1, BlockFacts
  <2> QED
    BY <2>1, <2>2, <2>3, PartFailsInv
<1>5. ASSUME NEW c \in Connection, UnexpectedPart(c) PROVE ReceiptInv'
  BY <1>5, UnexpectedPartInv
<1>6. ASSUME NEW c \in Connection, Unregister(c) PROVE ReceiptInv'
  BY <1>6, UnregisterInv
<1> QED
  BY <1>1, <1>2, <1>3, <1>4, <1>5, <1>6 DEF NextReceipt

LEMMA ReceiptInductive == ReceiptSpec => []ReceiptInv
  BY InitReceiptInv, ReceiptStepInv, PTL DEF ReceiptSpec

----------------------------------------------------------------------------
(* The same in the words of PendingBlock.                                   *)
LEMMA PendingIs ==
  ASSUME NEW c, NEW i
  PROVE  /\ Pending(c, i)!NothingMissing
              <=> Bytes(Whole(i)) \ BytesOf(region[c][i]) \subseteq Holds(data[c][i], i)
         /\ Pending(c, i)!NoEmptySegment
              <=> \A r \in region[c][i] :
                    Start(i) <= r.begin /\ r.begin < r.end /\ r.end <= End(i)
         /\ Pending(c, i)!RegionIsTheRest
              <=> (c \notin failed =>
                     BytesOf(region[c][i]) = Bytes(Whole(i)) \ Holds(data[c][i], i))
         /\ Pending(c, i)!TypeOK
              <=> /\ region[c][i] \subseteq Ranges
                  /\ Holds(data[c][i], i) \subseteq Bytes(Whole(i))
BY DEF Pending!NothingMissing, Pending!NoEmptySegment, Pending!RegionIsTheRest, Pending!TypeOK,
       Pending!BlockBytes, Pending!BytesOf, Pending!Bytes, Pending!Make, Pending!Ranges,
       BytesOf, Bytes, Make, Ranges, Holds, Whole

LEMMA ReceiveIs ==
  ASSUME NEW c, NEW i, NEW b, NEW e,
         c \notin failed, region[c][i] # {}, failed' = failed,
         Holds(data'[c][i], i) = Holds(data[c][i], i) \cup Bytes(Make(b, e)),
         region'[c][i] = RegionSub(region[c][i], Make(b, e))
  PROVE  Pending(c, i)!Receive(b, e)
BY DEF Pending!Receive, Pending!BytesOf, Pending!Bytes, Pending!Make, Pending!RegionSub,
       Pending!Sub, Pending!SubInside, Pending!SubApart, Pending!SubTail, Pending!SubHead,
       RegionSub, Sub, SubInside, SubApart, SubTail, SubHead, Bytes, Make, Holds

LEMMA ReceiveFailsIs ==
  ASSUME NEW c, NEW i, NEW b, NEW e, NEW n,
         c \notin failed, region[c][i] # {}, c \in failed', b + n < e,
         Holds(data'[c][i], i) = Holds(data[c][i], i) \cup Bytes(Make(b, b + n)),
         region'[c][i] = region[c][i]
  PROVE  Pending(c, i)!ReceiveFails(b, e, n)
BY DEF Pending!ReceiveFails, Pending!Bytes, Pending!Make, Bytes, Make, Holds

LEMMA UnchangedIs ==
  ASSUME NEW c, NEW i, data'[c][i] = data[c][i], region'[c][i] = region[c][i],
         c \in failed <=> c \in failed'
  PROVE  UNCHANGED Pending(c, i)!vars
BY DEF Pending!vars

\* The connection fails while another of its blocks is read, or none.
LEMMA FailsElsewhere ==
  ASSUME ReceiptInv, NEW c \in Connection, NEW i \in pending[c],
         c \notin failed, c \in failed', data'[c][i] = data[c][i], region'[c][i] = region[c][i]
  PROVE  Pending(c, i)!Next
<1>1. i \in Index /\ region[c][i] # {}
  BY DEF ReceiptInv, ReceiptTypes, BlockInv
<1>2. Start(i) \in Nat /\ End(i) \in Nat /\ Start(i) < End(i)
  BY <1>1, BlockFacts
<1>3. Bytes(Make(Start(i), Start(i) + 0)) = {}
  BY <1>2, MakeParts
<1>4. Pending(c, i)!ReceiveFails(Start(i), End(i), 0)
  BY <1>1, <1>2, <1>3, ReceiveFailsIs
<1>5. /\ Start(i) \in Start(i)..End(i) /\ End(i) \in Start(i)..End(i)
      /\ 0 \in 0..(End(i) - Start(i)) /\ Start(i) <= End(i)
  BY <1>2
<1> QED
  BY <1>4, <1>5 DEF Pending!Next, Pending!Position

\* A step of the composition is a step of each block that stays pending, or none.
LEMMA PendingStep ==
  ASSUME ReceiptInv, [NextReceipt]_receiptVars, NEW c \in Connection,
         NEW i \in pending[c] \cap pending'[c]
  PROVE  UNCHANGED Pending(c, i)!vars \/ Pending(c, i)!Next
<1>1. ReceiptTypes /\ BlockInv(c, i) /\ i \in Index
  BY DEF ReceiptInv, ReceiptTypes
<1>2. Start(i) \in Nat /\ End(i) \in Nat
  BY <1>1, BlockFacts
<1>3. CASE UNCHANGED receiptVars
  BY <1>3, UnchangedIs DEF receiptVars
<1>4. ASSUME NEW d \in Connection, Request(d) PROVE UNCHANGED Pending(c, i)!vars
  <2>1. d # c
    BY <1>4 DEF Request
  <2>2. region'[c] = region[c] /\ data'[c] = data[c] /\ failed' = failed
    BY <1>1, <1>4, <2>1 DEF Request, ReceiptTypes
  <2> QED
    BY <2>2, UnchangedIs
<1>5. ASSUME NEW d \in Connection, SendingPart(d) \/ CompressedPart(d)
      PROVE  UNCHANGED Pending(c, i)!vars \/ Pending(c, i)!Next
  <2>1. PICK j \in Index, b \in Nat, e \in Nat :
          b <= e /\ e <= End(j) /\ Expected(d, b, j) /\ ReadPart(d, j, b, e)
    BY <1>5, SendingPartIs, CompressedPartIs
  <2> DEFINE rest == RegionSub(region[d][j], Make(b, e))
             read == ReadInto(data[d][j], b, e)
  <2>2. Holds(read, j) = Holds(data[d][j], j) \cup Bytes(Make(b, e))
    BY <2>1, PartFacts
  <2>3. /\ failed' = failed
        /\ \/ /\ pending' = [pending EXCEPT ![d] = @ \ {j}]
              /\ region' = [region EXCEPT ![d][j] = {}]
              /\ data' = [data EXCEPT ![d][j] = EmptyBuffer(j)]
           \/ region' = [region EXCEPT ![d][j] = rest] /\ data' = [data EXCEPT ![d][j] = read]
    BY <2>1 DEF ReadPart, HandOver
  <2>4. d \notin failed /\ FromOffset(b) = <<PieceIndex, j>>
    BY <2>1 DEF Expected
  <2> HIDE DEF read
  <2>5. CASE d # c \/ j # i
    <3>1. region'[c][i] = region[c][i] /\ data'[c][i] = data[c][i]
      BY <1>1, <2>3, <2>5 DEF ReceiptTypes
    <3> QED
      BY <2>3, <3>1, UnchangedIs
  <2>6. CASE d = c /\ j = i
    <3>1. region'[c][i] = RegionSub(region[c][i], Make(b, e)) /\ data'[c][i] = read
      BY <1>1, <2>3, <2>6 DEF ReceiptTypes
    <3>2. Pending(c, i)!Receive(b, e)
      BY <1>1, <2>2, <2>3, <2>4, <2>6, <3>1, ReceiveIs DEF BlockInv
    <3>3. b \in Start(i)..End(i) /\ e \in Start(i)..End(i)
      <4>1. Start(i) <= b
        BY <2>4, <2>6, OffsetFacts
      <4> QED
        BY <4>1, <1>2, <2>1, <2>6
    <3> QED
      BY <2>1, <3>2, <3>3 DEF Pending!Next, Pending!Position
  <2> QED
    BY <2>5, <2>6
<1>6. ASSUME NEW d \in Connection, SendingPartFails(d)
      PROVE  UNCHANGED Pending(c, i)!vars \/ Pending(c, i)!Next
  <2>1. PICK j \in Index, b \in Nat, e \in Nat :
          /\ b <= e /\ e < End(j) /\ Expected(d, b, j)
          /\ data' = [data EXCEPT ![d][j] = ReadInto(@, b, e)]
    BY <1>6, SendingPartFailsIs
  <2> DEFINE read == ReadInto(data[d][j], b, e)
  <2>2. e <= End(j)
    BY <2>1, BlockFacts
  <2>3. Holds(read, j) = Holds(data[d][j], j) \cup Bytes(Make(b, e))
    BY <2>1, <2>2, PartFacts
  <2>4. /\ failed' = failed \cup {d} /\ region' = region
        /\ data' = [data EXCEPT ![d][j] = read]
    BY <1>6, <2>1 DEF SendingPartFails
  <2>5. d \notin failed /\ FromOffset(b) = <<PieceIndex, j>>
    BY <2>1 DEF Expected
  <2> HIDE DEF read
  <2>6. CASE d # c
    <3>1. data'[c][i] = data[c][i] /\ (c \in failed <=> c \in failed')
      BY <1>1, <2>4, <2>6 DEF ReceiptTypes
    <3> QED
      BY <2>4, <3>1, UnchangedIs
  <2>7. CASE d = c /\ j # i
    <3>1. data'[c][i] = data[c][i]
      BY <1>1, <2>4, <2>7 DEF ReceiptTypes
    <3> QED
      BY <2>4, <2>5, <2>7, <3>1, FailsElsewhere
  <2>8. CASE d = c /\ j = i
    <3>1. /\ b \in Start(i)..End(i) /\ e - b \in 0..(End(i) - b)
          /\ b + (e - b) = e /\ e < End(i) /\ End(i) \in Start(i)..End(i) /\ b <= End(i)
      <4>1. Start(i) <= b
        BY <2>5, <2>8, OffsetFacts
      <4> QED
        BY <4>1, <1>2, <2>1, <2>8
    <3>2. data'[c][i] = read
      BY <1>1, <2>4, <2>8 DEF ReceiptTypes
    <3>3. Pending(c, i)!ReceiveFails(b, End(i), e - b)
      BY <1>1, <2>3, <2>4, <2>5, <2>8, <3>1, <3>2, ReceiveFailsIs DEF BlockInv
    <3> QED
      BY <3>1, <3>3 DEF Pending!Next, Pending!Position
  <2> QED
    BY <2>6, <2>7, <2>8
<1>7. ASSUME NEW d \in Connection, UnexpectedPart(d)
      PROVE  UNCHANGED Pending(c, i)!vars \/ Pending(c, i)!Next
  <2>1. /\ d \notin failed /\ failed' = failed \cup {d}
        /\ region' = region /\ data' = data
    BY <1>7 DEF UnexpectedPart
  <2>2. CASE d = c
    BY <2>1, <2>2, FailsElsewhere
  <2>3. CASE d # c
    BY <2>1, <2>3, UnchangedIs
  <2> QED
    BY <2>2, <2>3
<1>8. ASSUME NEW d \in Connection, Unregister(d) PROVE UNCHANGED Pending(c, i)!vars
  <2>1. d # c
    BY <1>1, <1>8 DEF Unregister, ReceiptTypes
  <2>2. region'[c] = region[c] /\ data'[c] = data[c] /\ (c \in failed <=> c \in failed')
    BY <1>1, <1>8, <2>1 DEF Unregister, ReceiptTypes
  <2> QED
    BY <2>2, UnchangedIs
<1> QED
  BY <1>3, <1>4, <1>5, <1>6, <1>7, <1>8 DEF NextReceipt

----------------------------------------------------------------------------
\* Every block that is handed over is, byte by byte, the block of the file: no
\* matter in which parts it came and how often (peer_connection.go:257).
THEOREM BlocksAreTheFile == ReceiptSpec => []HandedOverIsTheFile
<1>1. ReceiptInv => HandedOverIsTheFile
  BY DEF ReceiptInv
<1> QED
  BY <1>1, ReceiptInductive, PTL

\* The region of a pending block is what was not read, none of its segments is
\* empty, and all other bytes are at their places (Region.Sub, Receive).
THEOREM PendingBlocksRight == ReceiptSpec => []PendingBlocksAreRight
<1>1. ReceiptInv => PendingBlocksAreRight
  BY PendingIs DEF ReceiptInv, BlockInv, PendingBlocksAreRight, NothingMissing, NoEmptySegment,
                   RegionIsTheRest
<1> QED
  BY <1>1, ReceiptInductive, PTL

\* Each pending block of each connection behaves as a PendingBlock, through failures
\* of its connection as well.
THEOREM EachPendingBlock == ReceiptSpec => EachIsAPendingBlock
<1>1. ReceiptInv /\ [NextReceipt]_receiptVars =>
        [\A c \in Connection : \A i \in pending[c] \cap pending'[c] :
           UNCHANGED Pending(c, i)!vars \/ Pending(c, i)!Next]_receiptVars
  BY PendingStep
<1> QED
  BY <1>1, ReceiptInductive, PTL DEF ReceiptSpec, EachIsAPendingBlock

\* Every variable has its type in the composition.
THEOREM ReceiptTypeCorrect ==
  ASSUME Seq(Int) \subseteq Data
  PROVE  ReceiptSpec => []TypeOK_Receipt
<1>1. ReceiptInv /\ TypeOK => TypeOK_Receipt
  <2> SUFFICES ASSUME ReceiptInv, TypeOK PROVE TypeOK_Receipt
    OBVIOUS
  <2>1. ReceiptTypes
    BY DEF ReceiptInv
  <2>2. ASSUME NEW c \in Connection, NEW i \in Index PROVE Pending(c, i)!TypeOK
    <3>1. region[c][i] \subseteq Ranges
      BY <2>1 DEF ReceiptTypes
    <3>2. Holds(data[c][i], i) \subseteq Bytes(Whole(i))
      BY WholeFacts DEF Holds
    <3> QED
      BY <3>1, <3>2, PendingIs
  <2>3. pending \in [Connection -> SUBSET Index] /\ failed \subseteq Connection
    BY <2>1 DEF ReceiptTypes
  <2> QED
    BY <2>2, <2>3 DEF TypeOK_Receipt
<1> QED
  BY <1>1, ReceiptInductive, ReceiptImplementsReceivingPiece, TypeCorrect, PTL

----------------------------------------------------------------------------
(* What the hash was fed with, byte by byte.                                *)
\* FlattenSeq is a recursive function of the number of sequences, and one that
\* satisfies its equation is all there is.
Joins(w, s, h) == w = [i \in 1..h |-> IF i = 1 THEN s[i] ELSE w[i - 1] \o s[i]]

LEMMA FlattenIs ==
  ASSUME NEW s, NEW h \in Nat \ {0}, Len(s) = h, NEW w, Joins(w, s, h)
  PROVE  FlattenSeq(s) = w[h]
<1> DEFINE f == CHOOSE v : Joins(v, s, Len(s))
<1>1. FlattenSeq(s) = IF Len(s) = 0 THEN s ELSE f[Len(s)]
  BY Zenon DEF FlattenSeq, Joins
<1>2. Joins(w, s, Len(s))
  OBVIOUS
<1>3. Joins(f, s, h)
  BY <1>2, Zenon
<1> HIDE DEF f
<1>4. \A i \in 1..h : f[i] = IF i = 1 THEN s[i] ELSE f[i - 1] \o s[i]
  <2>1. f = [i \in 1..h |-> IF i = 1 THEN s[i] ELSE f[i - 1] \o s[i]]
    BY <1>3, Zenon DEF Joins
  <2> QED
    BY <2>1, Zenon
<1>5. \A i \in 1..h : w[i] = IF i = 1 THEN s[i] ELSE w[i - 1] \o s[i]
  <2>1. w = [i \in 1..h |-> IF i = 1 THEN s[i] ELSE w[i - 1] \o s[i]]
    BY Zenon DEF Joins
  <2> QED
    BY <2>1, Zenon
<1> DEFINE G == {i \in 0..h : i = 0 \/ f[i] = w[i]}
<1>6. 0 \in G
  OBVIOUS
<1>7. ASSUME NEW i \in 1..h, i - 1 \in G PROVE i \in G
  <2>1. CASE i = 1
    BY <1>4, <1>5, <2>1
  <2>2. CASE i # 1
    <3>1. f[i - 1] = w[i - 1]
      BY <1>7, <2>2
    <3>2. f[i] = w[i]
      BY <1>4, <1>5, <2>2, <3>1
    <3> QED
      BY <3>2
  <2> QED
    BY <2>1, <2>2
<1> HIDE DEF G
<1>8. 0..h \subseteq G
  BY <1>6, <1>7, UpTo
<1>9. h \in G
  BY <1>8
<1> QED
  BY <1>1, <1>9 DEF G

\* The bytes [b, e) of the file.
FileRun(b, e) == [n \in 1..(e - b) |-> b + n - 1]

LEMMA RunsJoin ==
  ASSUME NEW b \in Nat, NEW m \in Nat, NEW e \in Nat, b <= m, m <= e
  PROVE  FileRun(b, m) \o FileRun(m, e) = FileRun(b, e)
<1> DEFINE x == FileRun(b, m)
           y == FileRun(m, e)
           z == FileRun(b, e)
<1>1. x \in Seq(Nat) /\ Len(x) = m - b /\ \A n \in 1..(m - b) : x[n] = b + n - 1
  <2>1. m - b \in Nat /\ x \in [1..(m - b) -> Nat]
    BY DEF FileRun
  <2> QED
    BY <2>1, FunctionIsSeq DEF FileRun
<1>2. y \in Seq(Nat) /\ Len(y) = e - m /\ \A n \in 1..(e - m) : y[n] = m + n - 1
  <2>1. e - m \in Nat /\ y \in [1..(e - m) -> Nat]
    BY DEF FileRun
  <2> QED
    BY <2>1, FunctionIsSeq DEF FileRun
<1>3. z \in Seq(Nat) /\ Len(z) = e - b /\ \A n \in 1..(e - b) : z[n] = b + n - 1
  <2>1. e - b \in Nat /\ z \in [1..(e - b) -> Nat]
    BY DEF FileRun
  <2> QED
    BY <2>1, FunctionIsSeq DEF FileRun
<1> HIDE DEF x, y, z
<1>4. x \o y \in Seq(Nat) /\ Len(x \o y) = e - b
  <2>1. x \o y \in Seq(Nat) /\ Len(x \o y) = Len(x) + Len(y)
    BY <1>1, <1>2, ConcatProperties
  <2>2. (m - b) + (e - m) = e - b
    OBVIOUS
  <2> QED
    BY <1>1, <1>2, <2>1, <2>2
<1>5. ASSUME NEW n \in 1..(e - b) PROVE (x \o y)[n] = z[n]
  <2>1. \A k \in 1..(Len(x) + Len(y)) :
          (x \o y)[k] = IF k <= Len(x) THEN x[k] ELSE y[k - Len(x)]
    BY <1>1, <1>2, ConcatProperties
  <2>2. n \in Int /\ n \in 1..(Len(x) + Len(y)) /\ z[n] = b + n - 1
    BY <1>1, <1>2, <1>3
  <2>3. CASE n <= m - b
    <3>1. (x \o y)[n] = x[n] /\ n \in 1..(m - b)
      BY <1>1, <2>1, <2>2, <2>3
    <3> QED
      BY <1>1, <2>2, <3>1
  <2>4. CASE n > m - b
    <3>1. (x \o y)[n] = y[n - (m - b)] /\ n - (m - b) \in 1..(e - m)
      BY <1>1, <2>1, <2>2, <2>4
    <3>2. y[n - (m - b)] = m + (n - (m - b)) - 1
      BY <1>2, <3>1
    <3> QED
      BY <2>2, <3>1, <3>2
  <2> QED
    BY <2>2, <2>3, <2>4
<1>6. x \o y = z
  BY <1>3, <1>4, <1>5, SeqEqual
<1> QED
  BY <1>6 DEF x, y, z

\* The blocks of a piece follow each other without a gap.
LEMMA BlocksMeet ==
  \A i \in Index : i + 1 \in Index => End(i) = Start(i + 1)
<1> TAKE i \in Index
<1> HAVE i + 1 \in Index
<1>1. BlockSize \in Nat \ {0} /\ FileSize \in Nat /\ i \in Nat
  BY SizeFacts, IndexFacts
<1>2. Start(i) \in Nat /\ Start(i + 1) \in Nat /\ Start(i + 1) < FileSize
  BY StartInFile
<1>3. Start(i + 1) = Start(i) + BlockSize
  <2>1. (i + 1) * BlockSize = i * BlockSize + BlockSize
    BY <1>1
  <2>2. PieceIndex * PieceSize \in Nat /\ i * BlockSize \in Nat
    <3>1. \A x, y \in Nat : x * y \in Nat
      OBVIOUS
    <3> QED
      BY <1>1, <3>1, SizeFacts
  <2> QED
    BY <1>1, <2>1, <2>2 DEF Start
<1> QED
  BY <1>1, <1>2, <1>3 DEF End

\* The first h blocks of the piece, one after the other.
LEMMA FlattenedBlocks ==
  ASSUME NEW h \in 1..NumBlocks, NEW s, s = [i \in 1..h |-> FileBlock(i - 1)]
  PROVE  FlattenSeq(s) = FileRun(Start(0), End(h - 1))
<1> DEFINE w == [i \in 1..h |-> FileRun(Start(0), End(i - 1))]
<1>1. NumBlocks \in Nat \ {0} /\ \A i : i \in Index <=> i \in Nat /\ i < NumBlocks
  BY IndexFacts
<1>2. 0 \in Index /\ \A i \in 1..h : i - 1 \in Index /\ (i # 1 => i - 2 \in Index)
  BY SMTT(20), <1>1
<1>3. \A i \in 1..h : s[i] = FileRun(Start(i - 1), End(i - 1))
  BY DEF FileBlock, FileRun
<1>4. ASSUME NEW i \in 1..h, i # 1
      PROVE  w[i] = w[i - 1] \o s[i]
  <2>1. i - 1 \in 1..h /\ i - 1 \in Index /\ i - 2 \in Index
        /\ (i - 2) + 1 = i - 1 /\ (i - 1) - 1 = i - 2
    BY <1>2, <1>4
  <2>2. Start(i - 1) = End(i - 2)
    BY <2>1, BlocksMeet
  <2>3. w[i - 1] = FileRun(Start(0), Start(i - 1))
    BY <2>1, <2>2
  <2>4. /\ Start(0) \in Nat /\ Start(i - 1) \in Nat /\ End(i - 1) \in Nat
        /\ Start(i - 1) <= End(i - 1)
    BY <1>2, <2>1, BlockFacts
  <2>5. Start(0) <= Start(i - 1)
    <3>1. (i - 1) * BlockSize \in Nat /\ 0 * BlockSize = 0
      <4>1. \A x, y \in Nat : x * y \in Nat /\ 0 * y = 0
        OBVIOUS
      <4>2. i - 1 \in Nat /\ BlockSize \in Nat
        BY <1>1, <2>1, SizeFacts
      <4> QED
        BY <4>1, <4>2
    <3>2. PieceIndex * PieceSize \in Int
      BY SizeFacts
    <3> QED
      BY <3>1, <3>2 DEF Start
  <2>6. FileRun(Start(0), Start(i - 1)) \o FileRun(Start(i - 1), End(i - 1))
          = FileRun(Start(0), End(i - 1))
    BY <2>4, <2>5, RunsJoin
  <2> QED
    BY <1>3, <2>3, <2>6
<1>5. w[1] = s[1]
  <2>1. 1 \in 1..h /\ 1 - 1 = 0
    OBVIOUS
  <2> QED
    BY <1>3, <2>1
<1>6. Joins(w, s, h)
  <2>1. \A i \in 1..h : w[i] = IF i = 1 THEN s[i] ELSE w[i - 1] \o s[i]
    BY <1>4, <1>5
  <2>2. w = [i \in 1..h |-> w[i]]
    BY Zenon
  <2> HIDE DEF w
  <2>3. w = [i \in 1..h |-> IF i = 1 THEN s[i] ELSE w[i - 1] \o s[i]]
    BY <2>1, <2>2
  <2> QED
    BY <2>3, Zenon DEF Joins
<1>7. h \in Nat \ {0} /\ Len(s) = h
  BY <1>1
<1>8. w[h] = FileRun(Start(0), End(h - 1))
  BY <1>7
<1> HIDE DEF w
<1>9. FlattenSeq(s) = w[h]
  BY <1>6, <1>7, FlattenIs, Zenon
<1> QED
  BY <1>8, <1>9, Zenon

PieceBegin == PieceIndex * PieceSize
PieceEnd == IF PieceBegin + PieceSize < FileSize THEN PieceBegin + PieceSize ELSE FileSize

\* The last block of the piece ends where the piece does.
LEMMA LastBlockEnds == NumBlocks - 1 \in Index /\ End(NumBlocks - 1) = PieceEnd
<1> DEFINE P == PieceSize
           N == NumPieces
           last == NumBlocks - 1
           m == FileSize % P
           q == FileSize \div P
           n == DivCeil(m, BlockSize)
<1>1. /\ P \in Nat \ {0} /\ P = BlockSize * BlocksPerPiece /\ BlockSize \in Nat \ {0}
      /\ BlocksPerPiece \in Nat \ {0} /\ FileSize \in Nat \ {0} /\ PieceIndex \in Nat
  BY SizeFacts
<1>2. N \in Nat /\ (N - 1) * P < FileSize /\ FileSize <= N * P
  BY <1>1, DivCeilFacts DEF NumPieces
<1>3. NumBlocks \in Nat \ {0} /\ last \in Index /\ last \in Nat
  BY IndexFacts
<1>4. PieceBegin \in Nat /\ PieceBegin = PieceIndex * P
  <2>1. \A x, y \in Nat : x * y \in Nat
    OBVIOUS
  <2> QED
    BY <1>1, <2>1 DEF PieceBegin
<1>5. Start(last) + BlockSize = PieceBegin + NumBlocks * BlockSize
      /\ NumBlocks * BlockSize \in Nat
  <2>1. last * BlockSize = NumBlocks * BlockSize - BlockSize /\ NumBlocks * BlockSize \in Nat
    BY <1>1, <1>3
  <2> HIDE DEF last
  <2>2. Start(last) = PieceBegin + last * BlockSize
    BY DEF Start, PieceBegin
  <2> QED
    BY <1>1, <1>4, <2>1, <2>2
<1>6. CASE NumBlocks = BlocksPerPiece
  <2>1. NumBlocks * BlockSize = P
    BY <1>1, <1>6
  <2> QED
    BY <1>3, <1>5, <2>1 DEF End, PieceEnd
<1>7. CASE NumBlocks # BlocksPerPiece
  <2>1. PieceIndex + 1 = N /\ NumBlocks = n /\ n # 0
    BY <1>7, ReceiptAssumption DEF BlocksInLastPiece
  <2>2. q \in Int /\ m \in Int /\ FileSize = P * q + m /\ 0 <= m /\ m < P
    <3>1. FileSize \in Int /\ P \in Nat \ {0}
      BY <1>1
    <3> QED
      BY <3>1, DivMod
  <2> HIDE DEF P, N, q, m
  <2>3. n \in Nat /\ (n - 1) * BlockSize < m /\ m <= n * BlockSize
    BY <1>1, <2>2, DivCeilFacts
  <2> HIDE DEF n
  <2>4. 0 < m
    <3>1. 0 * BlockSize <= (n - 1) * BlockSize /\ 0 * BlockSize = 0
          /\ (n - 1) * BlockSize \in Int
      BY <1>1, <2>1, <2>3, MulMonotone
    <3> QED
      BY <2>2, <2>3, <3>1
  <2>5. P * q = q * P /\ q * P \in Int /\ N * P \in Int
    BY <1>1, <1>2, <2>2
  <2>6. q < N
    <3>1. q * P < N * P
      BY <1>1, <1>2, <2>2, <2>4, <2>5
    <3> QED
      BY <1>1, <1>2, <2>2, <3>1, MulCancel
  <2>7. q * P <= PieceBegin
    <3>1. q <= PieceIndex
      BY <1>1, <1>2, <2>1, <2>2, <2>6
    <3> QED
      BY <1>1, <1>4, <2>2, <3>1, MulMonotone
  <2>8. FileSize <= PieceBegin + NumBlocks * BlockSize
    BY <1>1, <1>4, <1>5, <2>1, <2>2, <2>3, <2>5, <2>7
  <2>9. FileSize <= PieceBegin + P
    BY <1>1, <1>4, <2>2, <2>5, <2>7
  <2>10. End(last) = FileSize
    <3>1. ~ Start(last) + BlockSize < FileSize
      BY <1>1, <1>4, <1>5, <2>8
    <3> QED
      BY <3>1 DEF End
  <2>11. PieceEnd = FileSize
    BY <1>1, <1>4, <2>9 DEF PieceEnd, P
  <2> QED
    BY <1>3, <2>10, <2>11
<1> QED
  BY <1>6, <1>7

\* What the hash was fed with, the hash of a prefix of blocks that are the file's,
\* is what the file holds there.
LEMMA HashedFacts ==
  ASSUME IndInv, HandedOverIsTheFile
  PROVE  HashedIsTheFile
<1> DEFINE h == hashBlockIndex
<1>1. h \in 0..NumBlocks /\ NumBlocks \in Nat \ {0} /\ 0..(h - 1) \subseteq DOMAIN first
  BY IndexFacts DEF IndInv, TypeOK, FirstIsTheList
<1>2. hashed = [i \in 1..h |-> first[i - 1]] /\ h \notin DOMAIN first
  BY DEF IndInv, HashIsOfPrefix
<1>3. PieceBegin = Start(0) /\ PieceBegin \in Nat
  <2>1. 0 \in Index /\ 0 * BlockSize = 0
    BY IndexFacts, SizeFacts
  <2>2. PieceIndex * PieceSize \in Int
    BY SizeFacts
  <2>3. Start(0) = PieceIndex * PieceSize
    BY <2>1, <2>2 DEF Start
  <2> QED
    BY <2>1, <2>3, StartInFile DEF PieceBegin
<1>4. DOMAIN first = Index => h = NumBlocks
  <2>1. \A i : i \in Index <=> i \in Nat /\ i < NumBlocks
    BY IndexFacts
  <2> QED
    BY <1>1, <1>2, <2>1
<1>5. NumBlocks - 1 \in Index /\ End(NumBlocks - 1) = PieceEnd
  BY LastBlockEnds
<1> HIDE DEF h
<1>6. CASE h = 0
  <2>1. hashed = <<>>
    BY <1>2, <1>6
  <2>2. FlattenSeq(hashed) = <<>>
    <3>1. Len(hashed) = 0
      BY <2>1
    <3> QED
      BY <2>1, <3>1, Zenon DEF FlattenSeq
  <2>3. DOMAIN first # Index
    BY <1>1, <1>4, <1>6
  <2>4. <<>> = [n \in 1..Len(<<>>) |-> PieceIndex * PieceSize + n - 1]
    OBVIOUS
  <2> QED
    BY <2>2, <2>3, <2>4, Zenon DEF HashedIsTheFile
<1>7. CASE h # 0
  <2>1. h \in 1..NumBlocks /\ h - 1 \in Index
    BY <1>1, <1>7, IndexFacts
  <2>2. hashed = [i \in 1..h |-> FileBlock(i - 1)]
    <3>1. \A i \in 1..h : first[i - 1] = FileBlock(i - 1)
      <4>1. \A i \in 1..h : i - 1 \in 0..(h - 1)
        BY <1>1
      <4> QED
        BY <1>1, <4>1 DEF HandedOverIsTheFile
    <3> QED
      BY <1>2, <3>1, Zenon
  <2>3. FlattenSeq(hashed) = FileRun(PieceBegin, End(h - 1))
    BY <1>3, <2>1, <2>2, FlattenedBlocks
  <2>4. /\ End(h - 1) \in Nat /\ PieceBegin <= End(h - 1)
    <3>1. Start(h - 1) = PieceBegin + (h - 1) * BlockSize /\ (h - 1) * BlockSize \in Nat
      <4>1. \A x, y \in Nat : x * y \in Nat
        OBVIOUS
      <4> QED
        BY <2>1, <4>1, SizeFacts DEF Start, PieceBegin
    <3>2. Start(h - 1) \in Nat /\ End(h - 1) \in Nat /\ Start(h - 1) < End(h - 1)
      BY <2>1, BlockFacts
    <3> QED
      BY <1>3, <3>1, <3>2
  <2>5. Len(FlattenSeq(hashed)) = End(h - 1) - PieceBegin
    <3>1. End(h - 1) - PieceBegin \in Nat
      BY <1>3, <2>4
    <3> QED
      BY <2>3, <3>1 DEF FileRun
  <2>6. FlattenSeq(hashed)
          = [n \in 1..Len(FlattenSeq(hashed)) |-> PieceIndex * PieceSize + n - 1]
    BY <2>3, <2>5, Zenon DEF FileRun, PieceBegin
  <2>7. DOMAIN first = Index => Len(FlattenSeq(hashed)) = PieceEnd - PieceBegin
    BY <1>4, <1>5, <2>5
  <2> QED
    BY <2>6, <2>7, Zenon DEF HashedIsTheFile, PieceEnd, PieceBegin
<1> QED
  BY <1>6, <1>7

\* In whatever parts, from whatever connections and in whatever order a piece comes,
\* and wherever one of them breaks off: what is written to the hash is the piece as it
\* is in the file from its start on, and with the last block all of it.
THEOREM PieceIsHashed ==
  ASSUME Seq(Int) \subseteq Data
  PROVE  ReceiptSpec => []HashedIsTheFile
<1>1. ReceiptInv /\ IndInv => HashedIsTheFile
  BY HashedFacts DEF ReceiptInv
<1> QED
  BY <1>1, ReceiptInductive, ReceiptImplementsReceivingPiece, Inductive, PTL
=============================================================================
