---------------------------- MODULE SearchProofs ----------------------------
(***************************************************************************)
(* Proofs about search expressions, for queries of every length: what is   *)
(* sent has the words that were read in their order, every parenthesis     *)
(* that is opened is closed, an expression is accepted and sent in its     *)
(* prefix form, and what is accepted is an expression but for four cases.  *)
(* The lemmas are about the tokens as they are read; the properties follow *)
(* for the queries that are read as they are written.                      *)
(***************************************************************************)
EXTENDS Search, FiniteSetTheorems, SequenceTheorems, WellFoundedInduction, TLAPS

LEMMA LeastElement ==
  ASSUME NEW T, T \subseteq Nat, T # {}
  PROVE  \E x \in T : \A y \in T : x <= y
<1>1. PICK x \in T : \A y \in T : ~ (<<y, x>> \in OpToRel(<, Nat))
  BY NatLessThanWellFounded, WFMin
<1>2. \A y \in T : ~(y < x)
  BY <1>1 DEF OpToRel
<1> QED
  BY <1>2

\* A set of the numbers to n that has 0, and with each the next one, has them all.
LEMMA UpTo ==
  ASSUME NEW n \in Nat, NEW G, 0 \in G, \A i \in 1..n : i - 1 \in G => i \in G
  PROVE  0..n \subseteq G
<1> DEFINE T == (0..n) \ G
<1>1. SUFFICES ASSUME T # {} PROVE FALSE
  OBVIOUS
<1>2. PICK k \in T : \A y \in T : k <= y
  <2>1. T \subseteq Nat
    OBVIOUS
  <2> HIDE DEF T
  <2> QED
    BY <1>1, <2>1, LeastElement
<1>3. k \in 1..n /\ k - 1 \notin T
  BY <1>2
<1> QED
  BY <1>2, <1>3

LEMMA WalkExists ==
  ASSUME NEW S, NEW base \in S, NEW n \in Nat, NEW step \in [1..n -> [S -> S]]
  PROVE  \E w \in [0..n -> S] : w[0] = base /\ \A i \in 1..n : w[i] = step[i][w[i - 1]]
<1> DEFINE IsWalk(w, k) == /\ w \in [0..k -> S] /\ w[0] = base
                           /\ \A i \in 1..k : w[i] = step[i][w[i - 1]]
           G == {k \in 0..n : \E w : IsWalk(w, k)}
<1>1. 0 \in G
  <2>1. IsWalk([i \in 0..0 |-> base], 0) /\ 0 \in 0..n
    OBVIOUS
  <2> HIDE DEF IsWalk
  <2> QED
    BY <2>1
<1>2. ASSUME NEW k \in 1..n, k - 1 \in G PROVE k \in G
  <2>1. PICK w : IsWalk(w, k - 1)
    BY <1>2
  <2> DEFINE v == [i \in 0..k |-> IF i = k THEN step[k][w[k - 1]] ELSE w[i]]
  <2>2. k - 1 \in 0..(k - 1) /\ k \in Nat /\ \A i \in 0..k : i = k \/ i \in 0..(k - 1)
    OBVIOUS
  <2>3. v \in [0..k -> S]
    BY <2>1, <2>2
  <2>4. \A i \in 1..k : v[i] = step[i][v[i - 1]]
    <3>1. TAKE i \in 1..k
    <3>2. i - 1 \in 0..(k - 1) /\ i - 1 # k /\ i \in 0..k
      OBVIOUS
    <3>3. v[i - 1] = w[i - 1]
      BY <3>2
    <3>4. CASE i = k
      BY <3>2, <3>3, <3>4
    <3>5. CASE i # k
      BY <2>1, <3>2, <3>3, <3>5
    <3> QED
      BY <3>4, <3>5
  <2>5. v[0] = base
    BY <2>1
  <2>6. IsWalk(v, k) /\ k \in 0..n
    <3> HIDE DEF v
    <3> QED
      BY <2>2, <2>3, <2>4, <2>5
  <2> HIDE DEF IsWalk, v
  <2> QED
    BY <2>6
<1>3. n \in G
  <2>1. n \in 0..n
    OBVIOUS
  <2> HIDE DEF G
  <2>2. 0..n \subseteq G
    BY <1>1, <1>2, UpTo
  <2> QED
    BY <2>1, <2>2
<1> QED
  BY <1>3

----------------------------------------------------------------------------
(* Entries and sequences of them.                                           *)
OperatorName == {"AND", "OR", "NOT"}
Entry == {Word(n) : n \in Nat} \cup {Operator(x) : x \in OperatorName} \cup {Open, Close}

LEMMA Kinds ==
  /\ Open \in Entry /\ ~IsWord(Open) /\ ~IsOperator(Open) /\ Open # Close
  /\ Close \in Entry /\ ~IsWord(Close) /\ ~IsOperator(Close)
  /\ And \in Entry /\ IsOperator(And) /\ ~IsWord(And)
  /\ \A x \in OperatorName :
       Operator(x) \in Entry /\ IsOperator(Operator(x)) /\ ~IsWord(Operator(x))
  /\ \A n \in Nat : Word(n) \in Entry /\ IsWord(Word(n)) /\ Word(n).n = n
  /\ \A x : IsWord(x) => ~IsOperator(x) /\ x # Open /\ x # Close
  /\ \A x : IsOperator(x) => x # Open /\ x # Close
  /\ \A x \in Entry : IsWord(x) \/ IsOperator(x) \/ x = Open \/ x = Close
  /\ \A x \in Entry : x.n \in Nat
BY DEF Entry, OperatorName, Open, Close, And, Paren, Operator, Word, IsWord, IsOperator

LEMMA EmptyIsSeq == \A S : <<>> \in Seq(S) /\ Len(<<>>) = 0 /\ DOMAIN <<>> = {}
BY EmptySeq

LEMMA AppendFacts ==
  ASSUME NEW S, NEW s \in Seq(S), NEW x \in S
  PROVE  /\ Append(s, x) \in Seq(S) /\ Len(Append(s, x)) = Len(s) + 1 /\ Len(s) \in Nat
         /\ \A i \in 1..Len(s) : Append(s, x)[i] = s[i]
         /\ Append(s, x)[Len(s) + 1] = x
         /\ Append(s, x) # <<>>
         /\ DOMAIN Append(s, x) = 1..(Len(s) + 1) /\ DOMAIN s = 1..Len(s)
BY LenProperties

LEMMA SingleFacts ==
  ASSUME NEW S, NEW x \in S
  PROVE  <<x>> \in Seq(S) /\ Len(<<x>>) = 1 /\ <<x>>[1] = x
OBVIOUS

LEMMA PrependFacts ==
  ASSUME NEW S, NEW s \in Seq(S), NEW x \in S
  PROVE  /\ <<x>> \o s \in Seq(S) /\ Len(<<x>> \o s) = Len(s) + 1 /\ Len(s) \in Nat
         /\ (<<x>> \o s)[1] = x
         /\ \A i \in 2..(Len(s) + 1) : (<<x>> \o s)[i] = s[i - 1]
<1>1. Len(s) \in Nat
  BY LenProperties
<1>2. <<x>> \in Seq(S) /\ Len(<<x>>) = 1 /\ <<x>>[1] = x
  OBVIOUS
<1> DEFINE t == <<x>>
<1> HIDE DEF t
<1>3. /\ t \o s \in Seq(S) /\ Len(t \o s) = Len(t) + Len(s)
      /\ \A i \in 1 .. Len(t) + Len(s) : (t \o s)[i] = IF i <= Len(t) THEN t[i] ELSE s[i - Len(t)]
  BY <1>2, ConcatProperties DEF t
<1>4. Len(t) = 1 /\ t[1] = x
  BY <1>2 DEF t
<1>5. (t \o s)[1] = x
  BY <1>1, <1>3, <1>4
<1>6. \A i \in 2..(Len(s) + 1) : (t \o s)[i] = s[i - 1]
  BY <1>1, <1>3, <1>4
<1> QED
  BY <1>1, <1>3, <1>4, <1>5, <1>6 DEF t

LEMMA LastFacts ==
  ASSUME NEW s \in Seq(Entry)
  PROVE  /\ Len(s) \in Nat /\ DOMAIN s = 1..Len(s)
         /\ \A i \in 1..Len(s) : s[i] \in Entry
         /\ s # <<>> <=> Len(s) > 0
         /\ \A x \in Entry : Last(Append(s, x)) = x /\ s \o <<x>> = Append(s, x)
<1>1. Len(s) \in Nat /\ DOMAIN s = 1..Len(s) /\ \A i \in 1..Len(s) : s[i] \in Entry
  BY LenProperties
<1>2. s # <<>> <=> Len(s) > 0
  BY <1>1, EmptySeq
<1>3. ASSUME NEW x \in Entry PROVE Last(Append(s, x)) = x /\ s \o <<x>> = Append(s, x)
  <2>1. Last(Append(s, x)) = x
    BY <1>1, AppendFacts DEF Last
  <2>2. s \o <<x>> = Append(s, x)
    BY <1>1
  <2> QED
    BY <2>1, <2>2
<1> QED
  BY <1>1, <1>2, <1>3

LEMMA AddOperandFacts ==
  ASSUME NEW e \in Seq(Entry), NEW x \in Entry
  PROVE  LET a == addOperand(e, x)
             n == Len(e)
         IN  /\ a \in Seq(Entry) /\ Last(a) = x
             /\ \A i \in 1..n : a[i] = e[i]
             /\ IF e # <<>> /\ NeedsAnd(Last(e), x)
                THEN Len(a) = n + 2 /\ a[n + 1] = And /\ a[n + 2] = x
                ELSE Len(a) = n + 1 /\ a[n + 1] = x
<1> DEFINE n == Len(e)
<1>1. n \in Nat
  BY LenProperties
<1>2. CASE e # <<>> /\ NeedsAnd(Last(e), x)
  <2> DEFINE b == Append(e, And)
             a == Append(b, x)
  <2>1. b \in Seq(Entry) /\ Len(b) = n + 1 /\ b[n + 1] = And /\ \A i \in 1..n : b[i] = e[i]
    BY Kinds, AppendFacts
  <2>2. addOperand(e, x) = a
    <3>1. addOperand(e, x) = e \o <<And, x>>
      BY <1>2 DEF addOperand
    <3>2. e \o <<And, x>> = Append(Append(e, And), x)
      BY Kinds
    <3> QED
      BY <3>1, <3>2
  <2> HIDE DEF b
  <2>3. /\ a \in Seq(Entry) /\ Len(a) = n + 2 /\ a[n + 2] = x
        /\ \A i \in 1..(n + 1) : a[i] = b[i]
    BY <1>1, <2>1, AppendFacts
  <2>4. Last(a) = x
    BY <2>3 DEF Last
  <2> HIDE DEF a
  <2> QED
    BY <1>1, <1>2, <2>1, <2>2, <2>3, <2>4
<1>3. CASE ~(e # <<>> /\ NeedsAnd(Last(e), x))
  <2>1. addOperand(e, x) = Append(e, x)
    BY <1>3 DEF addOperand
  <2>2. Last(Append(e, x)) = x
    BY LastFacts
  <2> QED
    BY <1>1, <1>3, <2>1, <2>2, AppendFacts
<1> QED
  BY <1>2, <1>3

----------------------------------------------------------------------------
(* What is read: the entries are the tokens and the ANDs between             *)
(* them, words are numbered in their order, and no operator is misplaced.   *)
IsPlacing(place, e, q) ==
  /\ place \in [0..Len(q) -> 0..Len(e)] /\ place[0] = 0 /\ place[Len(q)] = Len(e)
  /\ \A i \in 1..Len(q) :
       /\ e[place[i]] = q[i]
       /\ IF i > 1 /\ NeedsAnd(q[i - 1], q[i])
          THEN place[i] = place[i - 1] + 2 /\ e[place[i] - 1] = And
          ELSE place[i] = place[i - 1] + 1

Numbered(q) ==
  /\ \A i, j \in Words(q) : i < j => q[i].n < q[j].n
  /\ \A i \in Words(q) : q[i].n <= Cardinality(Words(q))

NoneMisplaced(q) ==
  /\ q # <<>> => ~IsOperator(q[1])
  /\ \A i \in 1..(Len(q) - 1) : ~(IsOperator(q[i]) /\ IsOperator(q[i + 1]))

IsRead(e, q) ==
  /\ e \in Seq(Entry) /\ q \in Seq(Entry)
  /\ \E place : IsPlacing(place, e, q)
  /\ Numbered(q)
  /\ NoneMisplaced(q)

LEMMA SameLast ==
  ASSUME NEW e \in Seq(Entry), NEW q \in Seq(Entry), \E place : IsPlacing(place, e, q)
  PROVE  /\ e = <<>> <=> q = <<>>
         /\ q # <<>> => Last(e) = Last(q)
<1>1. PICK place : IsPlacing(place, e, q)
  OBVIOUS
<1> DEFINE m == Len(q)
           n == Len(e)
<1>2. m \in Nat /\ n \in Nat /\ (e # <<>> <=> n > 0) /\ (q # <<>> <=> m > 0)
  BY LastFacts
<1>3. place \in [0..m -> 0..n] /\ place[0] = 0 /\ place[m] = n
  BY <1>1 DEF IsPlacing
<1>4. ASSUME m > 0 PROVE n > 0 /\ e[n] = q[m]
  <2>1. m \in 1..m /\ m - 1 \in 0..m
    BY <1>2, <1>4
  <2>2. e[place[m]] = q[m] /\ (place[m] = place[m - 1] + 2 \/ place[m] = place[m - 1] + 1)
    BY <1>1, <2>1 DEF IsPlacing
  <2>3. place[m - 1] \in Nat
    BY <1>2, <1>3, <2>1
  <2> QED
    BY <1>3, <2>2, <2>3
<1>5. m = 0 => n = 0
  BY <1>3
<1> QED
  BY <1>2, <1>4, <1>5 DEF Last

LEMMA PlacingGrows ==
  ASSUME NEW e \in Seq(Entry), NEW q \in Seq(Entry), \E place : IsPlacing(place, e, q),
         NEW x \in Entry
  PROVE  \E place : IsPlacing(place, addOperand(e, x), Append(q, x))
<1>1. PICK place : IsPlacing(place, e, q)
  OBVIOUS
<1> DEFINE m == Len(q)
           n == Len(e)
           a == addOperand(e, x)
           b == Append(q, x)
           w == [i \in 0..(m + 1) |-> IF i = m + 1 THEN Len(a) ELSE place[i]]
<1>2. m \in Nat /\ n \in Nat /\ (q # <<>> <=> m > 0)
  BY LastFacts
<1>3. place \in [0..m -> 0..n] /\ place[0] = 0 /\ place[m] = n
  BY <1>1 DEF IsPlacing
<1>4. /\ b \in Seq(Entry) /\ Len(b) = m + 1 /\ b[m + 1] = x /\ \A i \in 1..m : b[i] = q[i]
  BY AppendFacts
<1>5. /\ a \in Seq(Entry) /\ \A i \in 1..n : a[i] = e[i]
      /\ IF q # <<>> /\ NeedsAnd(q[m], x)
         THEN Len(a) = n + 2 /\ a[n + 1] = And /\ a[n + 2] = x
         ELSE Len(a) = n + 1 /\ a[n + 1] = x
  BY ZenonT(30), AddOperandFacts, SameLast DEF Last
<1> HIDE DEF a, b
<1>6. w \in [0..Len(b) -> 0..Len(a)] /\ w[0] = 0 /\ w[Len(b)] = Len(a)
  BY <1>2, <1>3, <1>4, <1>5
<1>7. ASSUME NEW i \in 1..Len(b)
      PROVE  /\ a[w[i]] = b[i]
             /\ IF i > 1 /\ NeedsAnd(b[i - 1], b[i])
                THEN w[i] = w[i - 1] + 2 /\ a[w[i] - 1] = And
                ELSE w[i] = w[i - 1] + 1
  <2>1. CASE i = m + 1
    <3>1. w[i] = Len(a) /\ w[i - 1] = n /\ b[i] = x /\ (i > 1 => b[i - 1] = q[m])
      BY <1>2, <1>3, <1>4, <2>1
    <3>2. i > 1 <=> q # <<>>
      BY <1>2, <2>1
    <3> HIDE DEF w
    <3> QED
      BY <1>2, <1>5, <3>1, <3>2
  <2>2. CASE i \in 1..m
    <3>1. /\ w[i] = place[i] /\ w[i - 1] = place[i - 1] /\ b[i] = q[i]
          /\ i > 1 => b[i - 1] = q[i - 1]
      <4>1. /\ i \in 0..(m + 1) /\ i - 1 \in 0..(m + 1) /\ i # m + 1 /\ i - 1 # m + 1
            /\ i > 1 => i - 1 \in 1..m
        BY <1>2, <2>2
      <4>2. w[i] = place[i] /\ w[i - 1] = place[i - 1]
        BY <4>1
      <4> HIDE DEF w
      <4> QED
        BY <1>4, <2>2, <4>1, <4>2
    <3>2. /\ e[place[i]] = q[i]
          /\ IF i > 1 /\ NeedsAnd(q[i - 1], q[i])
             THEN place[i] = place[i - 1] + 2 /\ e[place[i] - 1] = And
             ELSE place[i] = place[i - 1] + 1
      BY <1>1, <2>2 DEF IsPlacing
    <3>3. place[i] \in 0..n /\ place[i - 1] \in 0..n /\ i - 1 \in 0..m
      BY <1>2, <1>3, <2>2
    <3>4. place[i] \in 1..n
      BY <1>2, <3>2, <3>3
    <3>5. (i > 1 /\ NeedsAnd(q[i - 1], q[i])) => place[i] - 1 \in 1..n
      BY <1>2, <3>2, <3>3
    <3> HIDE DEF w
    <3> QED
      BY <1>5, <3>1, <3>2, <3>4, <3>5
  <2> QED
    BY <1>2, <1>4, <2>1, <2>2
<1> HIDE DEF w
<1>8. IsPlacing(w, a, b)
  BY <1>6, <1>7 DEF IsPlacing
<1> QED
  BY <1>8 DEF a, b

LEMMA WordsFinite ==
  ASSUME NEW s \in Seq(Entry)
  PROVE  /\ IsFiniteSet(Words(s)) /\ Cardinality(Words(s)) \in Nat
         /\ Words(s) \subseteq 1..Len(s)
<1>1. Words(s) \subseteq 1..Len(s) /\ Len(s) \in Nat
  BY LastFacts DEF Words
<1>2. IsFiniteSet(1..Len(s))
  BY <1>1, FS_Interval
<1>3. IsFiniteSet(Words(s))
  BY <1>1, <1>2, FS_Subset
<1> QED
  BY <1>1, <1>3, FS_CardinalityType

LEMMA NumberingGrows ==
  ASSUME NEW q \in Seq(Entry), Numbered(q), NEW x \in Entry,
         IsWord(x) => x.n = Cardinality(Words(q)) + 1
  PROVE  Numbered(Append(q, x))
<1> DEFINE m == Len(q)
           b == Append(q, x)
           c == Cardinality(Words(q))
<1>1. /\ m \in Nat /\ DOMAIN b = 1..(m + 1) /\ b[m + 1] = x /\ DOMAIN q = 1..m
      /\ \A i \in 1..m : b[i] = q[i]
  BY AppendFacts
<1>2. c \in Nat /\ IsFiniteSet(Words(q)) /\ Words(q) \subseteq 1..m
  BY WordsFinite
<1>3. /\ \A i, j \in Words(q) : i < j => q[i].n < q[j].n
      /\ \A i \in Words(q) : q[i].n <= c /\ q[i].n \in Nat
  BY <1>2, Kinds, LastFacts DEF Numbered
<1> HIDE DEF b
<1>4. CASE IsWord(x)
  <2>1. Words(b) = Words(q) \cup {m + 1}
    BY <1>1, <1>4 DEF Words
  <2>2. Cardinality(Words(b)) = c + 1
    <3>1. m + 1 \notin Words(q)
      BY <1>1, <1>2
    <3> QED
      BY <1>2, <2>1, <3>1, FS_AddElement
  <2> HIDE DEF c
  <2> QED
    BY <1>1, <1>2, <1>3, <1>4, <2>1, <2>2 DEF Numbered, b, c
<1>5. CASE ~IsWord(x)
  <2>1. Words(b) = Words(q)
    BY <1>1, <1>5 DEF Words
  <2> QED
    BY <1>1, <1>2, <1>3, <2>1 DEF Numbered, b
<1> QED
  BY <1>4, <1>5

LEMMA NoneMisplacedGrows ==
  ASSUME NEW q \in Seq(Entry), NoneMisplaced(q), NEW x \in Entry,
         IsOperator(x) => q # <<>> /\ ~IsOperator(Last(q))
  PROVE  NoneMisplaced(Append(q, x))
<1> DEFINE m == Len(q)
           b == Append(q, x)
<1>1. /\ m \in Nat /\ Len(b) = m + 1 /\ b[m + 1] = x /\ \A i \in 1..m : b[i] = q[i]
      /\ q # <<>> <=> m > 0
  BY AppendFacts, LastFacts
<1> HIDE DEF b
<1>2. ~IsOperator(b[1])
  BY <1>1 DEF NoneMisplaced
<1>3. ASSUME NEW i \in 1..m PROVE ~(IsOperator(b[i]) /\ IsOperator(b[i + 1]))
  BY <1>1 DEF NoneMisplaced, Last
<1> QED
  BY <1>1, <1>2, <1>3 DEF NoneMisplaced, b

LEMMA ReadGrows ==
  ASSUME NEW e, NEW q, IsRead(e, q), NEW x \in Entry,
         IsWord(x) => x.n = Cardinality(Words(q)) + 1,
         IsOperator(x) => q # <<>> /\ ~IsOperator(Last(q))
  PROVE  IsRead(addOperand(e, x), Append(q, x))
<1>1. e \in Seq(Entry) /\ q \in Seq(Entry) /\ Numbered(q) /\ NoneMisplaced(q)
      /\ \E place : IsPlacing(place, e, q)
  BY DEF IsRead
<1>2. addOperand(e, x) \in Seq(Entry) /\ Append(q, x) \in Seq(Entry)
  BY <1>1, AddOperandFacts, AppendFacts
<1> QED
  BY <1>1, <1>2, PlacingGrows, NumberingGrows, NoneMisplacedGrows DEF IsRead

\* The check of an operator looks at the entries; it is that of the tokens.
LEMMA MisplacedIs ==
  ASSUME NEW e, NEW q, IsRead(e, q), NEW x \in Entry
  PROVE  Misplaced(addOperand(e, x)) <=> IsOperator(x) /\ (q = <<>> \/ IsOperator(Last(q)))
<1> DEFINE a == addOperand(e, x)
           n == Len(e)
<1>1. e \in Seq(Entry) /\ q \in Seq(Entry) /\ (e = <<>> <=> q = <<>>)
      /\ (q # <<>> => Last(e) = Last(q))
  BY SameLast DEF IsRead
<1>2. n \in Nat /\ (e # <<>> <=> n > 0)
  BY <1>1, LastFacts
<1>3. /\ a \in Seq(Entry) /\ Last(a) = x
      /\ \A i \in 1..n : a[i] = e[i]
      /\ IF e # <<>> /\ NeedsAnd(Last(e), x)
         THEN Len(a) = n + 2 /\ a[n + 1] = And /\ a[n + 2] = x
         ELSE Len(a) = n + 1 /\ a[n + 1] = x
  BY <1>1, AddOperandFacts
<1>4. IsOperator(x) => ~NeedsAnd(Last(e), x)
  BY Kinds DEF NeedsAnd
<1> HIDE DEF a
<1>5. IsOperator(x) => Len(a) = n + 1 /\ (n > 0 => a[n] = e[n])
  BY <1>2, <1>3, <1>4
<1>6. Misplaced(a) <=> IsOperator(x) /\ (n = 0 \/ IsOperator(e[n]))
  <2>1. CASE IsOperator(x)
    <3>1. Len(a) - 1 = n /\ (Len(a) = 1 <=> n = 0)
      BY <1>2, <1>5, <2>1
    <3> QED
      BY <1>2, <1>3, <1>5, <2>1, <3>1 DEF Misplaced
  <2>2. CASE ~IsOperator(x)
    BY <1>3, <2>2 DEF Misplaced
  <2> QED
    BY <2>1, <2>2
<1> QED
  BY <1>1, <1>2, <1>6 DEF a, Last

----------------------------------------------------------------------------
(* Reading.                                                                 *)
TypeOK ==
  /\ phase \in {"reading", "packing", "done", "failed"}
  /\ tokens \in Seq(Entry)
  /\ item \in {"none", "word"} \cup OperatorName
  /\ verbatim \in BOOLEAN
  /\ entries \in Seq(Entry)
  /\ next \in 0..Len(entries)
  /\ stack \in Seq(Entry)
  /\ request \in Seq(Entry)

EntriesAreRead ==
  /\ phase # "failed" => IsRead(entries, tokens)
  /\ phase = "reading" => next = 0 /\ stack = <<>> /\ request = <<>>

LEMMA FilterIsRead ==
  ASSUME NEW filter \in Filters
  PROVE  IsRead(FilterEntries(filter), FilterEntries(filter))
<1> DEFINE e == FilterEntries(filter)
           n == Len(e)
           place == [i \in 0..n |-> i]
<1>1. \/ e = <<>>
      \/ e = <<Word(1)>>
      \/ e = <<Open, Word(1), Operator("NOT"), Word(2), Close>>
  BY SearchAssumption DEF SearchAssumption, FilterEntries
<1>2. /\ Open \in Entry /\ Close \in Entry /\ Word(1) \in Entry /\ Word(2) \in Entry
      /\ Operator("NOT") \in Entry
  BY Kinds DEF OperatorName
<1>3. e \in Seq(Entry)
  <2> DEFINE w == Word(1)
             x == Operator("NOT")
             y == Word(2)
             o == Open
             z == Close
  <2>1. w \in Entry /\ x \in Entry /\ y \in Entry /\ o \in Entry /\ z \in Entry
    BY <1>2
  <2>2. e = <<>> \/ e = <<w>> \/ e = <<o, w, x, y, z>>
    BY <1>1
  <2> HIDE DEF w, x, y, o, z, e
  <2>3. <<w>> \in Seq(Entry) /\ <<o, w, x, y, z>> \in Seq(Entry) /\ <<>> \in Seq(Entry)
    BY <2>1
  <2> QED
    BY <2>2, <2>3, Zenon
<1>4. /\ IsWord(Word(1)) /\ IsWord(Word(2)) /\ Word(1).n = 1 /\ Word(2).n = 2
      /\ ~IsWord(Open) /\ ~IsWord(Close) /\ ~IsWord(Operator("NOT"))
      /\ ~IsOperator(Open) /\ ~IsOperator(Close) /\ ~IsOperator(Word(1)) /\ ~IsOperator(Word(2))
      /\ IsOperator(Operator("NOT"))
  BY Kinds DEF OperatorName
<1>5. n \in Nat /\ DOMAIN e = 1..n /\ (e # <<>> <=> n > 0)
  BY <1>3, LastFacts
<1>6. \A i \in 1..n : i > 1 => ~NeedsAnd(e[i - 1], e[i])
  <2>1. CASE e = <<>>
    BY <1>5, <2>1
  <2>2. CASE e = <<Word(1)>>
    BY <2>2
  <2>3. CASE e = <<Open, Word(1), Operator("NOT"), Word(2), Close>>
    <3>1. /\ n = 5 /\ e[1] = Open /\ e[2] = Word(1) /\ e[3] = Operator("NOT")
          /\ e[4] = Word(2) /\ e[5] = Close
      BY <2>3
    <3>2. /\ ~NeedsAnd(Open, Word(1)) /\ ~NeedsAnd(Word(1), Operator("NOT"))
          /\ ~NeedsAnd(Operator("NOT"), Word(2)) /\ ~NeedsAnd(Word(2), Close)
      BY <1>4, Kinds DEF NeedsAnd, OperatorName
    <3>3. \A i \in 1..5 : i = 1 \/ i = 2 \/ i = 3 \/ i = 4 \/ i = 5
      OBVIOUS
    <3> HIDE DEF e
    <3> QED
      BY <3>1, <3>2, <3>3
  <2> QED
    BY <1>1, <2>1, <2>2, <2>3
<1>7. IsPlacing(place, e, e)
  <2> HIDE DEF e
  <2>1. place \in [0..n -> 0..n] /\ place[0] = 0 /\ place[n] = n
    BY <1>5
  <2>2. \A i \in 1..n : place[i] = i /\ place[i - 1] = i - 1
    BY <1>5
  <2> HIDE DEF place
  <2> QED
    BY <1>5, <1>6, <2>1, <2>2 DEF IsPlacing
<1>8. Numbered(e) /\ NoneMisplaced(e)
  <2>1. CASE e = <<>>
    BY <1>5, <2>1 DEF Numbered, NoneMisplaced, Words
  <2>2. CASE e = <<Word(1)>>
    <3>1. n = 1 /\ e[1] = Word(1)
      BY <2>2
    <3> HIDE DEF e
    <3>2. Words(e) = {1}
      BY <1>4, <1>5, <3>1 DEF Words
    <3>3. Cardinality(Words(e)) = 1
      BY <3>2, FS_Singleton
    <3> QED
      BY <1>4, <3>1, <3>2, <3>3 DEF Numbered, NoneMisplaced
  <2>3. CASE e = <<Open, Word(1), Operator("NOT"), Word(2), Close>>
    <3>1. /\ n = 5 /\ e[1] = Open /\ e[2] = Word(1) /\ e[3] = Operator("NOT")
          /\ e[4] = Word(2) /\ e[5] = Close
      BY <2>3
    <3> HIDE DEF e
    <3>2. Words(e) = {2} \cup {4}
      <4>1. \A i \in 1..5 : i = 1 \/ i = 2 \/ i = 3 \/ i = 4 \/ i = 5
        OBVIOUS
      <4>2. \A i \in 1..5 : IsWord(e[i]) <=> i = 2 \/ i = 4
        BY <1>4, <3>1, <4>1
      <4> QED
        BY <1>5, <3>1, <4>2 DEF Words
    <3>3. Cardinality(Words(e)) = 2
      <4>1. IsFiniteSet({2}) /\ Cardinality({2}) = 1
        BY FS_Singleton, Zenon
      <4>2. Cardinality({2} \cup {4}) = 2
        <5>1. 4 \notin {2}
          OBVIOUS
        <5> QED
          BY <4>1, <5>1, FS_AddElement
      <4> QED
        BY <3>2, <4>2
    <3>4. Numbered(e)
      BY <1>4, <3>1, <3>2, <3>3 DEF Numbered
    <3>5. \A i \in 1..4 : i = 1 \/ i = 2 \/ i = 3 \/ i = 4
      OBVIOUS
    <3>6. \A i \in 1..4 : ~(IsOperator(e[i]) /\ IsOperator(e[i + 1]))
      BY <1>4, <3>1, <3>5
    <3> QED
      BY <1>4, <3>1, <3>4, <3>6 DEF NoneMisplaced
  <2> QED
    BY <1>1, <2>1, <2>2, <2>3
<1> QED
  BY <1>3, <1>7, <1>8 DEF IsRead

LEMMA InitReads == Init => TypeOK /\ EntriesAreRead
<1> SUFFICES ASSUME Init PROVE TypeOK /\ EntriesAreRead
  OBVIOUS
<1>1. PICK filter \in Filters : entries = FilterEntries(filter) /\ tokens = entries
  BY DEF Init
<1>2. IsRead(entries, tokens)
  BY <1>1, FilterIsRead
<1>3. entries \in Seq(Entry) /\ tokens \in Seq(Entry) /\ Len(entries) \in Nat
  BY <1>2, LastFacts DEF IsRead
<1>4. phase = "reading" /\ item = "none" /\ verbatim \in BOOLEAN /\ next = 0
  BY Zenon DEF Init
<1>5. stack = <<>> /\ request = <<>>
  BY DEF Init
<1>6. stack \in Seq(Entry) /\ request \in Seq(Entry)
  BY <1>5, EmptyIsSeq, Zenon
<1>7. TypeOK
  BY <1>3, <1>4, <1>6 DEF TypeOK
<1> QED
  BY <1>2, <1>4, <1>5, <1>7, Zenon DEF EntriesAreRead

LEMMA ItemIs ==
  ASSUME TypeOK, item # "none"
  PROVE  LET x == Token(item, Cardinality(Words(tokens)))
         IN  /\ x \in Entry
             /\ IsWord(x) => x.n = Cardinality(Words(tokens)) + 1
             /\ IsOperator(x) <=> item \in OperatorName
<1> DEFINE c == Cardinality(Words(tokens))
<1>1. c \in Nat
  BY WordsFinite DEF TypeOK
<1> HIDE DEF c
<1>2. CASE item = "word"
  <2>1. Token(item, c) = Word(c + 1) /\ c + 1 \in Nat
    BY <1>1, <1>2 DEF Token
  <2>2. item \notin OperatorName
    BY <1>2 DEF OperatorName
  <2> QED
    BY <2>1, <2>2, Kinds DEF c
<1>3. CASE item \in OperatorName
  <2>1. Token(item, c) = Operator(item)
    BY <1>3 DEF Token, OperatorName
  <2> QED
    BY <1>3, <2>1, Kinds DEF c
<1> QED
  BY <1>2, <1>3 DEF TypeOK

\* What a separator leaves, when the item before it may stand there.
LEMMA ItemGrows ==
  ASSUME TypeOK, IsRead(entries, tokens)
  PROVE  LET read == Ended(item, tokens)
             s    == IF item = "none" THEN entries ELSE addOperand(entries, read[1])
             q    == tokens \o read
         IN  /\ s \in Seq(Entry) /\ q \in Seq(Entry)
             /\ item # "none" => \E x \in Entry : q = Append(tokens, x) /\ read[1] = x
                                              /\ (IsOperator(x) <=> item \in OperatorName)
             /\ item = "none" => q = tokens
             /\ item # "none" /\ Misplaced(s) <=>
                  item \in OperatorName /\ (tokens = <<>> \/ IsOperator(Last(tokens)))
             /\ ~(item # "none" /\ Misplaced(s)) => IsRead(s, q)
<1>1. CASE item = "none"
  <2>1. tokens \o <<>> = tokens /\ entries \in Seq(Entry) /\ tokens \in Seq(Entry)
    BY ConcatEmptySeq DEF TypeOK
  <2>2. "none" \notin OperatorName
    BY DEF OperatorName
  <2> QED
    BY <1>1, <2>1, <2>2 DEF Ended
<1>2. CASE item # "none"
  <2> DEFINE x == Token(item, Cardinality(Words(tokens)))
             s == addOperand(entries, x)
  <2>1. /\ x \in Entry /\ (IsWord(x) => x.n = Cardinality(Words(tokens)) + 1)
        /\ IsOperator(x) <=> item \in OperatorName
    BY <1>2, ItemIs
  <2> HIDE DEF x
  <2>2. entries \in Seq(Entry) /\ tokens \in Seq(Entry)
    BY DEF TypeOK
  <2>3. tokens \o <<x>> = Append(tokens, x) /\ <<x>>[1] = x
    BY <2>1, <2>2, LastFacts
  <2>4. s \in Seq(Entry) /\ Append(tokens, x) \in Seq(Entry)
    BY <2>1, <2>2, AddOperandFacts, AppendFacts
  <2>5. Misplaced(s) <=> IsOperator(x) /\ (tokens = <<>> \/ IsOperator(Last(tokens)))
    BY <2>1, MisplacedIs
  <2>6. ~Misplaced(s) => IsRead(s, Append(tokens, x))
    BY <2>1, <2>5, ReadGrows
  <2> QED
    BY <1>2, <2>1, <2>3, <2>4, <2>5, <2>6 DEF x, Ended
<1> QED
  BY <1>1, <1>2

LEMMA ParenGrows ==
  ASSUME NEW e, NEW q, IsRead(e, q), NEW c \in {"open", "close"}
  PROVE  /\ IsRead(addOperand(e, Paren(c)), q \o <<Paren(c)>>)
         /\ q \o <<Paren(c)>> = Append(q, Paren(c)) /\ Paren(c) \in Entry
<1>1. Paren(c) \in Entry /\ ~IsWord(Paren(c)) /\ ~IsOperator(Paren(c))
  BY Kinds DEF Open, Close
<1>2. q \o <<Paren(c)>> = Append(q, Paren(c))
  BY <1>1, LastFacts DEF IsRead
<1> QED
  BY <1>1, <1>2, ReadGrows

LEMMA SeparatorReads ==
  ASSUME TypeOK, EntriesAreRead, NEW c \in {"space", "open", "close"}, ReadSeparator(c)
  PROVE  TypeOK' /\ EntriesAreRead'
<1> DEFINE read == Ended(item, tokens)
           s    == IF item = "none" THEN entries ELSE addOperand(entries, read[1])
           q    == tokens \o read
           p    == IF c = "space" THEN <<>> ELSE <<Paren(c)>>
           bad  == item # "none" /\ Misplaced(s)
<1>1. /\ phase = "reading" /\ item' = "none" /\ UNCHANGED <<verbatim, next, stack, request>>
      /\ bad => phase' = "failed" /\ entries' = s /\ tokens' = tokens \o read
      /\ ~bad => /\ entries' = IF p = <<>> THEN s ELSE addOperand(s, p[1])
                 /\ tokens' = tokens \o read \o p
                 /\ phase' = phase
  BY DEF ReadSeparator
<1>2. IsRead(entries, tokens) /\ next = 0 /\ stack = <<>> /\ request = <<>>
  BY <1>1 DEF EntriesAreRead
<1>3. s \in Seq(Entry) /\ q \in Seq(Entry) /\ (~bad => IsRead(s, q))
  BY <1>2, ItemGrows
<1>4. ASSUME ~bad PROVE IsRead(entries', tokens')
  <2>1. CASE c = "space"
    <3>1. tokens \o read \o p = q
      BY <1>3, <2>1, ConcatEmptySeq
    <3> HIDE DEF read, s, q, bad
    <3> QED
      BY <1>1, <1>3, <1>4, <2>1, <3>1 DEF q
  <2>2. CASE c # "space"
    <3>1. p = <<Paren(c)>> /\ p[1] = Paren(c) /\ p # <<>> /\ c \in {"open", "close"}
      BY <2>2
    <3>2. IsRead(s, q)
      BY <1>3, <1>4
    <3> HIDE DEF read, s, bad, p
    <3>3. entries' = addOperand(s, Paren(c)) /\ tokens' = q \o <<Paren(c)>>
      BY <1>1, <1>4, <3>1
    <3> QED
      BY <3>1, <3>2, <3>3, ParenGrows
  <2> QED
    BY <2>1, <2>2
<1>5. entries' \in Seq(Entry) /\ tokens' \in Seq(Entry) /\ phase' \in {"reading", "failed"}
  <2> HIDE DEF read, s, p
  <2> QED
    BY <1>1, <1>3, <1>4 DEF IsRead, q
<1>6. Len(entries') \in Nat /\ 0 \in 0..Len(entries')
  BY <1>5, LastFacts
<1>7. phase' # "failed" => IsRead(entries', tokens')
  <2> HIDE DEF read, s, p
  <2> QED
    BY <1>1, <1>4
<1> HIDE DEF read, s, p, bad, q
<1>8. TypeOK'
  BY <1>1, <1>2, <1>5, <1>6 DEF TypeOK
<1> QED
  BY <1>1, <1>2, <1>7, <1>8 DEF EntriesAreRead

\* A parenthesis between quotation marks is added in front of the item it is in.
LEMMA QuotedSeparatorReads ==
  ASSUME TypeOK, EntriesAreRead, NEW c \in {"space", "open", "close"}, ReadQuotedSeparator(c)
  PROVE  TypeOK' /\ EntriesAreRead' /\ phase' = "reading"
<1>1. /\ phase = "reading" /\ item' = "word"
      /\ UNCHANGED <<phase, verbatim, next, stack, request>>
      /\ c = "space" => UNCHANGED <<entries, tokens>>
      /\ c # "space" => /\ entries' = addOperand(entries, Paren(c))
                       /\ tokens' = Append(tokens, Paren(c))
  BY DEF ReadQuotedSeparator
<1>2. IsRead(entries, tokens) /\ next = 0 /\ stack = <<>> /\ request = <<>>
  BY <1>1 DEF EntriesAreRead
<1>3. IsRead(entries', tokens')
  <2>1. CASE c = "space"
    BY <1>1, <1>2, <2>1
  <2>2. CASE c # "space"
    <3>1. c \in {"open", "close"}
      BY <2>2
    <3> QED
      BY <1>1, <1>2, <2>2, <3>1, ParenGrows
  <2> QED
    BY <2>1, <2>2
<1>4. entries' \in Seq(Entry) /\ tokens' \in Seq(Entry)
  BY <1>3 DEF IsRead
<1>5. 0 \in 0..Len(entries')
  BY <1>4, LastFacts
<1>6. TypeOK'
  BY <1>1, <1>2, <1>4, <1>5 DEF TypeOK
<1> QED
  BY <1>1, <1>2, <1>3, <1>6 DEF EntriesAreRead

LEMMA EndOfQueryReads ==
  ASSUME TypeOK, EntriesAreRead, EndOfQuery
  PROVE  TypeOK' /\ EntriesAreRead'
<1> DEFINE read == Ended(item, tokens)
           s    == IF item = "none" THEN entries ELSE addOperand(entries, read[1])
           q    == tokens \o read
           bad  == verbatim \/ item \in {"AND", "OR", "NOT"}
<1>1. /\ phase = "reading" /\ item' = "none" /\ UNCHANGED <<verbatim, stack, request>>
      /\ tokens' = q
      /\ bad => phase' = "failed" /\ entries' = entries /\ next' = next
      /\ ~bad => phase' = "packing" /\ entries' = s /\ next' = Len(entries')
  BY DEF EndOfQuery
<1>2. IsRead(entries, tokens) /\ next = 0 /\ stack = <<>> /\ request = <<>>
  BY <1>1 DEF EntriesAreRead
<1>3. /\ s \in Seq(Entry) /\ q \in Seq(Entry)
      /\ item # "none" /\ Misplaced(s) => item \in OperatorName
      /\ ~(item # "none" /\ Misplaced(s)) => IsRead(s, q)
  BY <1>2, ItemGrows
<1>4. ~bad => IsRead(s, q)
  BY <1>3 DEF OperatorName
<1>5. Len(entries) \in Nat /\ Len(s) \in Nat
  BY <1>3, LastFacts DEF TypeOK
<1> HIDE DEF read, s, q, bad
<1>6. TypeOK'
  BY <1>1, <1>2, <1>3, <1>5 DEF TypeOK
<1> QED
  BY <1>1, <1>4, <1>6 DEF EntriesAreRead

----------------------------------------------------------------------------
(* The entries have the words and the parentheses of the tokens.            *)
WordSet(s) == {s[i] : i \in Words(s)}
WordsFrom(s, k) == {s[i] : i \in {j \in Words(s) : k <= j}}
Ascending(s) == \A i, j \in Words(s) : i < j => s[i].n < s[j].n
Weight(x) == IF x = Close THEN 1 ELSE IF x = Open THEN -1 ELSE 0

LEMMA InFrontOfTwo ==
  ASSUME NEW a \in Nat, NEW b \in Nat, a = b + 2, NEW p \in 1..a, p # a - 1
  PROVE  p = a \/ p \in 1..b
OBVIOUS

LEMMA PlacingFacts ==
  ASSUME NEW e \in Seq(Entry), NEW q \in Seq(Entry), NEW place, IsPlacing(place, e, q)
  PROVE  /\ \A i, j \in 0..Len(q) : i < j => place[i] < place[j]
         /\ \A i \in 1..Len(q) : place[i] \in 1..Len(e) /\ place[i - 1] \in 0..(Len(e) - 1)
         /\ \A p \in 1..Len(e) : IsWord(e[p]) => \E i \in 1..Len(q) : p = place[i]
<1> DEFINE m == Len(q)
           n == Len(e)
           Below(j) == \A i \in 0..(j - 1) : place[i] < place[j]
           Known(j) == \A p \in 1..place[j] : IsWord(e[p]) => \E i \in 1..m : p = place[i]
           G == {j \in 0..m : Below(j) /\ Known(j)}
<1>1. m \in Nat /\ n \in Nat
  BY LastFacts
<1>2. place \in [0..m -> 0..n] /\ place[0] = 0 /\ place[m] = n
  BY DEF IsPlacing
<1>3. ASSUME NEW j \in 1..m
      PROVE  /\ place[j] \in 1..n /\ place[j - 1] \in 0..(n - 1) /\ j - 1 \in 0..m /\ j \in 0..m
             /\ \/ place[j] = place[j - 1] + 1
                \/ place[j] = place[j - 1] + 2 /\ ~IsWord(e[place[j] - 1])
  <2>1. /\ j \in 0..m /\ j - 1 \in 0..m
        /\ \/ place[j] = place[j - 1] + 1
           \/ place[j] = place[j - 1] + 2 /\ e[place[j] - 1] = And
    BY <1>1 DEF IsPlacing
  <2>2. place[j] \in 0..n /\ place[j - 1] \in 0..n
    BY <1>2, <2>1
  <2> QED
    BY <1>1, <2>1, <2>2, Kinds
<1>4. 0 \in G
  <2>1. Below(0) /\ Known(0)
    BY <1>2
  <2> QED
    BY <1>1, <2>1
<1>5. ASSUME NEW j \in 1..m, j - 1 \in G PROVE j \in G
  <2>1. Below(j - 1) /\ Known(j - 1)
    BY <1>5
  <2>2. Below(j)
    <3>1. TAKE i \in 0..(j - 1)
    <3>2. i = j - 1 \/ i \in 0..(j - 1 - 1)
      BY <1>1
    <3>3. place[i] \in 0..n /\ place[j] \in 0..n /\ place[j - 1] \in 0..n
      BY <1>1, <1>2, <1>3
    <3>4. place[j - 1] < place[j]
      <4>1. place[j] = place[j - 1] + 1 \/ place[j] = place[j - 1] + 2
        BY <1>3
      <4> QED
        BY <3>3, <4>1
    <3>5. CASE i = j - 1
      BY <3>4, <3>5
    <3>6. CASE i \in 0..(j - 1 - 1)
      <4>1. place[i] < place[j - 1]
        BY <2>1, <3>6
      <4> QED
        BY <3>3, <3>4, <4>1
    <3> QED
      BY <3>2, <3>5, <3>6
  <2>3. Known(j)
    <3>1. SUFFICES ASSUME NEW p \in 1..place[j], IsWord(e[p]) PROVE \E i \in 1..m : p = place[i]
      OBVIOUS
    <3>2. p = place[j] \/ p \in 1..place[j - 1]
      <4>1. place[j] \in Nat /\ place[j - 1] \in Nat
        BY <1>1, <1>3
      <4>2. CASE place[j] = place[j - 1] + 1
        BY <4>1, <4>2
      <4>3. CASE place[j] = place[j - 1] + 2 /\ ~IsWord(e[place[j] - 1])
        <5>1. p # place[j] - 1
          BY <3>1, <4>3
        <5> QED
          BY <4>1, <4>3, <5>1, InFrontOfTwo
      <4> QED
        BY <1>3, <4>2, <4>3
    <3> QED
      BY <2>1, <3>1, <3>2
  <2> HIDE DEF Below, Known
  <2> QED
    BY <1>3, <2>2, <2>3
<1>6. 0..m \subseteq G
  <2> HIDE DEF G
  <2> QED
    BY <1>1, <1>4, <1>5, UpTo
<1>7. \A i, j \in 0..m : i < j => place[i] < place[j]
  <2>1. TAKE i, j \in 0..m
  <2>2. HAVE i < j
  <2>3. j \in G /\ i \in 0..(j - 1)
    BY <1>1, <1>6, <2>2
  <2> QED
    BY <2>3
<1>8. Known(m)
  BY <1>1, <1>6
<1> QED
  BY <1>1, <1>2, <1>3, <1>7, <1>8

LEMMA EntriesWords ==
  ASSUME NEW e, NEW q, IsRead(e, q)
  PROVE  WordSet(e) = WordSet(q) /\ Ascending(e)
<1> DEFINE m == Len(q)
           n == Len(e)
<1>1. e \in Seq(Entry) /\ q \in Seq(Entry) /\ Numbered(q)
  BY DEF IsRead
<1>2. PICK place : IsPlacing(place, e, q)
  BY DEF IsRead
<1>3. m \in Nat /\ n \in Nat /\ DOMAIN q = 1..m /\ DOMAIN e = 1..n
  BY <1>1, LastFacts
<1>4. /\ \A i, j \in 0..m : i < j => place[i] < place[j]
      /\ \A i \in 1..m : place[i] \in 1..n
      /\ \A p \in 1..n : IsWord(e[p]) => \E i \in 1..m : p = place[i]
  BY <1>1, <1>2, PlacingFacts
<1>5. \A i \in 1..m : e[place[i]] = q[i]
  BY <1>2 DEF IsPlacing
<1>6. ASSUME NEW p \in Words(e) PROVE \E i \in Words(q) : p = place[i] /\ e[p] = q[i]
  BY <1>3, <1>4, <1>5 DEF Words
<1>7. ASSUME NEW i \in Words(q) PROVE place[i] \in Words(e) /\ e[place[i]] = q[i]
  BY <1>3, <1>4, <1>5 DEF Words
<1>8. WordSet(e) = WordSet(q)
  BY <1>6, <1>7 DEF WordSet
<1>9. ASSUME NEW p \in Words(e), NEW r \in Words(e), p < r PROVE e[p].n < e[r].n
  <2>1. PICK i \in Words(q), j \in Words(q) :
          p = place[i] /\ e[p] = q[i] /\ r = place[j] /\ e[r] = q[j]
    BY <1>6
  <2>2. i \in 0..m /\ j \in 0..m /\ place[i] \in Nat /\ place[j] \in Nat
    BY <1>3, <1>4 DEF Words
  <2>3. i < j
    <3>1. i # j
      BY <1>9, <2>1, <2>2
    <3>2. ~(j < i)
      BY <1>4, <1>9, <2>1, <2>2
    <3> QED
      BY <1>3, <2>2, <3>1, <3>2
  <2> QED
    BY <1>1, <2>1, <2>3 DEF Numbered
<1> QED
  BY <1>8, <1>9 DEF Ascending

LEMMA PlacesFinite ==
  ASSUME NEW s \in Seq(Entry), NEW x, NEW i \in Nat
  PROVE  IsFiniteSet(Places(s, x, i)) /\ Cardinality(Places(s, x, i)) \in Nat
<1>1. Len(s) \in Nat
  BY LastFacts
<1>2. IsFiniteSet(i..Len(s))
  BY <1>1, FS_Interval
<1>3. Places(s, x, i) \subseteq i..Len(s)
  BY DEF Places
<1>4. IsFiniteSet(Places(s, x, i))
  BY <1>2, <1>3, FS_Subset
<1> QED
  BY <1>4, FS_CardinalityType

LEMMA PlacesStep ==
  ASSUME NEW s \in Seq(Entry), NEW x, NEW i \in 1..Len(s)
  PROVE  Cardinality(Places(s, x, i))
           = Cardinality(Places(s, x, i + 1)) + (IF s[i] = x THEN 1 ELSE 0)
<1>1. Len(s) \in Nat /\ i + 1 \in Nat
  BY LastFacts
<1>2. CASE s[i] = x
  <2>1. Places(s, x, i) = Places(s, x, i + 1) \cup {i} /\ i \notin Places(s, x, i + 1)
    BY <1>1, <1>2 DEF Places
  <2> QED
    BY <1>1, <1>2, <2>1, PlacesFinite, FS_AddElement
<1>3. CASE s[i] # x
  <2>1. Places(s, x, i) = Places(s, x, i + 1)
    BY <1>1, <1>3 DEF Places
  <2> QED
    BY <1>1, <1>3, <2>1, PlacesFinite
<1> QED
  BY <1>2, <1>3

LEMMA DepthFacts ==
  ASSUME NEW s \in Seq(Entry)
  PROVE  /\ \A i \in 1..(Len(s) + 1) : Depth(s, i) \in Int
         /\ Depth(s, Len(s) + 1) = 0
         /\ \A i \in 1..Len(s) : Depth(s, i) = Depth(s, i + 1) + Weight(s[i])
<1>1. Len(s) \in Nat
  BY LastFacts
<1>2. \A i \in 1..(Len(s) + 1) : \A x :
        Cardinality(Places(s, x, i)) \in Nat
  BY <1>1, PlacesFinite
<1>3. \A i \in 1..(Len(s) + 1) : Depth(s, i) \in Int
  BY <1>2 DEF Depth
<1>4. Depth(s, Len(s) + 1) = 0
  <2>1. \A x : Places(s, x, Len(s) + 1) = {}
    BY <1>1 DEF Places
  <2>2. /\ Cardinality(Places(s, Close, Len(s) + 1)) = 0
        /\ Cardinality(Places(s, Open, Len(s) + 1)) = 0
    BY <2>1, FS_EmptySet, Zenon
  <2> QED
    BY <2>2 DEF Depth
<1>5. ASSUME NEW i \in 1..Len(s) PROVE Depth(s, i) = Depth(s, i + 1) + Weight(s[i])
  <2>1. i \in 1..(Len(s) + 1) /\ i + 1 \in 1..(Len(s) + 1)
    BY <1>1
  <2> DEFINE c(k) == Cardinality(Places(s, Close, k))
             o(k) == Cardinality(Places(s, Open, k))
  <2>2. c(i) = c(i + 1) + (IF s[i] = Close THEN 1 ELSE 0)
    BY PlacesStep
  <2>3. o(i) = o(i + 1) + (IF s[i] = Open THEN 1 ELSE 0)
    BY PlacesStep
  <2>4. c(i) \in Nat /\ c(i + 1) \in Nat /\ o(i) \in Nat /\ o(i + 1) \in Nat
    BY <1>2, <2>1
  <2>5. Open # Close
    BY Kinds
  <2>6. Depth(s, i) = c(i) - o(i) /\ Depth(s, i + 1) = c(i + 1) - o(i + 1)
    BY DEF Depth
  <2> HIDE DEF c, o
  <2> QED
    BY <2>2, <2>3, <2>4, <2>5, <2>6 DEF Weight
<1> QED
  BY <1>3, <1>4, <1>5

LEMMA EntriesDepth ==
  ASSUME NEW e \in Seq(Entry), NEW q \in Seq(Entry), NEW place, IsPlacing(place, e, q)
  PROVE  \A i \in 0..Len(q) : Depth(q, i + 1) = Depth(e, place[i] + 1)
<1> DEFINE m == Len(q)
           n == Len(e)
           G == {d \in 0..m : Depth(q, m - d + 1) = Depth(e, place[m - d] + 1)}
<1>1. m \in Nat /\ n \in Nat
  BY LastFacts
<1>2. place \in [0..m -> 0..n] /\ place[0] = 0 /\ place[m] = n
  BY DEF IsPlacing
<1>3. 0 \in G
  <2>1. m - 0 = m /\ m - 0 + 1 = m + 1
    BY <1>1
  <2> QED
    BY <1>1, <1>2, <2>1, DepthFacts
<1>4. ASSUME NEW d \in 1..m, d - 1 \in G PROVE d \in G
  <2> DEFINE i == m - d + 1
  <2>1. /\ i \in 1..m /\ i - 1 \in 0..m /\ i \in 0..m /\ m - (d - 1) = i /\ m - d = i - 1
        /\ i - 1 + 1 = i /\ m - d + 1 = i
    BY <1>1
  <2>2. Depth(q, i + 1) = Depth(e, place[i] + 1)
    BY <1>4, <2>1
  <2> HIDE DEF i
  <2>3. /\ e[place[i]] = q[i]
        /\ \/ place[i] = place[i - 1] + 1
           \/ place[i] = place[i - 1] + 2 /\ e[place[i] - 1] = And
    BY <2>1 DEF IsPlacing
  <2>4. place[i] \in 1..n /\ place[i - 1] \in 0..n
    <3>1. place[i] \in 0..n /\ place[i - 1] \in 0..n
      BY <1>2, <2>1
    <3> QED
      BY <1>1, <2>3, <3>1
  <2>5. Depth(q, i) = Depth(q, i + 1) + Weight(q[i])
    BY <2>1, DepthFacts
  <2>6. Depth(e, place[i]) = Depth(e, place[i] + 1) + Weight(q[i])
    BY <2>3, <2>4, DepthFacts
  <2>7. Depth(q, i) = Depth(e, place[i])
    BY <2>2, <2>5, <2>6
  <2>8. Depth(e, place[i]) = Depth(e, place[i - 1] + 1)
    <3>1. CASE place[i] = place[i - 1] + 1
      BY <3>1
    <3>2. CASE place[i] = place[i - 1] + 2 /\ e[place[i] - 1] = And
      <4>1. place[i] - 1 \in 1..n /\ place[i] - 1 + 1 = place[i] /\ place[i] - 1 = place[i - 1] + 1
        BY <1>1, <2>4, <3>2
      <4>2. Weight(And) = 0
        BY Kinds DEF Weight
      <4>3. place[i] \in 1..(n + 1)
        BY <1>1, <2>4
      <4>4. Depth(e, place[i] - 1) = Depth(e, place[i]) + Weight(e[place[i] - 1])
            /\ Depth(e, place[i]) \in Int
        BY <4>1, <4>3, DepthFacts
      <4> QED
        BY <3>2, <4>1, <4>2, <4>4
    <3> QED
      BY <2>3, <3>1, <3>2
  <2>9. Depth(q, m - d + 1) = Depth(e, place[m - d] + 1)
    BY <2>1, <2>7, <2>8
  <2> QED
    BY <1>1, <2>9
<1>5. 0..m \subseteq G
  <2> HIDE DEF G
  <2> QED
    BY <1>1, <1>3, <1>4, UpTo
<1>6. ASSUME NEW i \in 0..m PROVE Depth(q, i + 1) = Depth(e, place[i] + 1)
  <2>1. m - i \in 0..m /\ m - (m - i) = i
    BY <1>1
  <2>2. m - i \in G
    BY <1>5, <2>1
  <2>3. Depth(q, m - (m - i) + 1) = Depth(e, place[m - (m - i)] + 1)
    BY <2>2
  <2> QED
    BY <2>1, <2>3
<1> QED
  BY <1>6

----------------------------------------------------------------------------
(* Packing: words go from the entries to the request, operators by the      *)
(* stack, and the stack has a closing parenthesis for each that is open.    *)
LEMMA ConcatNoWords ==
  ASSUME NEW t \in Seq(Entry), NEW s \in Seq(Entry), Words(t) = {}
  PROVE  /\ t \o s \in Seq(Entry) /\ WordSet(t \o s) = WordSet(s)
         /\ Ascending(s) => Ascending(t \o s)
<1> DEFINE b == t \o s
           m == Len(t)
           n == Len(s)
<1>1. /\ m \in Nat /\ n \in Nat /\ DOMAIN t = 1..m /\ DOMAIN s = 1..n
      /\ b \in Seq(Entry) /\ Len(b) = m + n
      /\ \A i \in 1..(m + n) : b[i] = IF i <= m THEN t[i] ELSE s[i - m]
  BY ConcatProperties, LastFacts
<1>2. DOMAIN b = 1..(m + n)
  BY <1>1, LastFacts
<1> HIDE DEF b
<1>3. ASSUME NEW i \in Words(b) PROVE i - m \in Words(s) /\ b[i] = s[i - m]
  <2>1. i \in 1..(m + n) /\ IsWord(b[i])
    BY <1>2 DEF Words
  <2>2. ~(i <= m)
    <3>1. SUFFICES ASSUME i <= m PROVE FALSE
      OBVIOUS
    <3>2. i \in 1..m /\ IsWord(t[i])
      BY <1>1, <2>1, <3>1
    <3> QED
      BY <1>1, <3>2 DEF Words
  <2> QED
    BY <1>1, <2>1, <2>2 DEF Words
<1>4. ASSUME NEW i \in Words(s) PROVE i + m \in Words(b) /\ b[i + m] = s[i]
  <2>1. i \in 1..n /\ IsWord(s[i])
    BY <1>1 DEF Words
  <2>2. i + m \in 1..(m + n) /\ ~(i + m <= m) /\ i + m - m = i
    BY <1>1, <2>1
  <2> QED
    BY <1>1, <1>2, <2>1, <2>2 DEF Words
<1>5. WordSet(b) = WordSet(s)
  BY <1>3, <1>4 DEF WordSet
<1>6. ASSUME Ascending(s), NEW i \in Words(b), NEW j \in Words(b), i < j PROVE b[i].n < b[j].n
  <2>1. i - m < j - m
    BY <1>1, <1>2, <1>6 DEF Words
  <2> QED
    BY <1>3, <1>6, <2>1 DEF Ascending
<1> QED
  BY <1>1, <1>5, <1>6 DEF Ascending, b

LEMMA PrependWord ==
  ASSUME NEW s \in Seq(Entry), NEW x \in Entry, IsWord(x), Ascending(s),
         \A y \in WordSet(s) : x.n < y.n
  PROVE  /\ <<x>> \o s \in Seq(Entry) /\ WordSet(<<x>> \o s) = WordSet(s) \cup {x}
         /\ Ascending(<<x>> \o s)
<1> DEFINE b == <<x>> \o s
           n == Len(s)
<1>1. /\ n \in Nat /\ DOMAIN s = 1..n /\ b \in Seq(Entry) /\ Len(b) = n + 1
      /\ b[1] = x /\ \A i \in 2..(n + 1) : b[i] = s[i - 1]
  BY PrependFacts, LastFacts
<1>2. DOMAIN b = 1..(n + 1)
  BY <1>1, LastFacts
<1> HIDE DEF b
<1>3. 1 \in Words(b)
  BY <1>1, <1>2 DEF Words
<1>4. ASSUME NEW i \in Words(b), i # 1 PROVE i - 1 \in Words(s) /\ b[i] = s[i - 1]
  <2>1. i \in 2..(n + 1) /\ IsWord(b[i]) /\ i - 1 \in 1..n
    BY <1>1, <1>2, <1>4 DEF Words
  <2> QED
    BY <1>1, <2>1 DEF Words
<1>5. ASSUME NEW i \in Words(s) PROVE i + 1 \in Words(b) /\ b[i + 1] = s[i]
  <2>1. i \in 1..n /\ IsWord(s[i]) /\ i + 1 \in 2..(n + 1) /\ i + 1 - 1 = i
    BY <1>1 DEF Words
  <2> QED
    BY <1>1, <1>2, <2>1 DEF Words
<1>6. WordSet(b) = WordSet(s) \cup {x}
  <2>1. ASSUME NEW y \in WordSet(b) PROVE y \in WordSet(s) \cup {x}
    <3>1. PICK i \in Words(b) : y = b[i]
      BY DEF WordSet
    <3> QED
      BY <1>1, <1>4, <3>1 DEF WordSet
  <2>2. ASSUME NEW y \in WordSet(s) \cup {x} PROVE y \in WordSet(b)
    <3>1. CASE y = x
      BY <1>1, <1>3, <3>1 DEF WordSet
    <3>2. CASE y \in WordSet(s)
      BY <1>5, <3>2 DEF WordSet
    <3> QED
      BY <2>2, <3>1, <3>2
  <2> QED
    BY <2>1, <2>2
<1>7. ASSUME NEW i \in Words(b), NEW j \in Words(b), i < j PROVE b[i].n < b[j].n
  <2>1. i \in Nat /\ j \in Nat /\ i >= 1 /\ j # 1
    BY <1>1, <1>2, <1>7 DEF Words
  <2>2. j - 1 \in Words(s) /\ b[j] = s[j - 1]
    BY <1>4, <2>1
  <2>3. CASE i = 1
    <3>1. s[j - 1] \in WordSet(s)
      BY <2>2 DEF WordSet
    <3> QED
      BY <1>1, <2>2, <2>3, <3>1
  <2>4. CASE i # 1
    <3>1. i - 1 \in Words(s) /\ b[i] = s[i - 1] /\ i - 1 < j - 1
      BY <1>4, <1>7, <2>1, <2>4
    <3> QED
      BY <2>2, <3>1 DEF Ascending
  <2> QED
    BY <2>3, <2>4
<1> QED
  BY <1>1, <1>6, <1>7 DEF Ascending, b

Closes(s) == Cardinality(Places(s, Close, 1))

LEMMA StackAppend ==
  ASSUME NEW s \in Seq(Entry), NEW x \in Entry, ~IsWord(x), Words(s) = {}
  PROVE  /\ Append(s, x) \in Seq(Entry) /\ Words(Append(s, x)) = {}
         /\ Closes(Append(s, x)) = Closes(s) + (IF x = Close THEN 1 ELSE 0)
         /\ Closes(s) \in Nat
<1> DEFINE b == Append(s, x)
           n == Len(s)
<1>1. /\ n \in Nat /\ b \in Seq(Entry) /\ Len(b) = n + 1 /\ b[n + 1] = x
      /\ \A i \in 1..n : b[i] = s[i]
      /\ DOMAIN b = 1..(n + 1) /\ DOMAIN s = 1..n
  BY AppendFacts
<1> HIDE DEF b
<1>2. Words(b) = {}
  BY <1>1 DEF Words
<1>3. IsFiniteSet(Places(s, Close, 1)) /\ Closes(s) \in Nat
  BY PlacesFinite DEF Closes
<1>4. CASE x = Close
  <2>1. Places(b, Close, 1) = Places(s, Close, 1) \cup {n + 1} /\ n + 1 \notin Places(s, Close, 1)
    BY <1>1, <1>4 DEF Places
  <2>2. Closes(b) = Closes(s) + 1
    BY <1>3, <2>1, FS_AddElement DEF Closes
  <2> QED
    BY <1>1, <1>2, <1>3, <1>4, <2>2 DEF b
<1>5. CASE x # Close
  <2>1. Places(b, Close, 1) = Places(s, Close, 1)
    BY <1>1, <1>5 DEF Places
  <2> QED
    BY <1>1, <1>2, <1>3, <1>5, <2>1 DEF b, Closes
<1> QED
  BY <1>4, <1>5

LEMMA FrontFacts ==
  ASSUME NEW s \in Seq(Entry), s # <<>>
  PROVE  /\ Front(s) \in Seq(Entry) /\ Len(Front(s)) = Len(s) - 1
         /\ \A i \in 1..(Len(s) - 1) : Front(s)[i] = s[i]
         /\ Last(s) \in Entry /\ Last(s) = s[Len(s)] /\ Len(s) \in Nat \ {0}
<1>1. Len(s) \in Nat \ {0} /\ \A i \in 1..Len(s) : s[i] \in Entry
  BY LastFacts
<1> DEFINE m == Len(s) - 1
<1>2. m \in Nat /\ m \in Int /\ \A i \in 1..m : s[i] \in Entry
  BY <1>1
<1> HIDE DEF m
<1>3. /\ SubSeq(s, 1, m) \in Seq(Entry)
      /\ Len(SubSeq(s, 1, m)) = IF 1 <= m THEN m - 1 + 1 ELSE 0
      /\ \A i \in 1..(m - 1 + 1) : SubSeq(s, 1, m)[i] = s[1 + i - 1]
  BY <1>2, SubSeqProperties
<1>4. Front(s) = SubSeq(s, 1, m)
  BY DEF Front, m
<1>5. Len(Front(s)) = m /\ \A i \in 1..m : Front(s)[i] = s[i]
  <2> HIDE DEF Front
  <2>1. (IF 1 <= m THEN m - 1 + 1 ELSE 0) = m /\ m - 1 + 1 = m /\ \A i \in 1..m : 1 + i - 1 = i
    BY <1>2
  <2> QED
    BY <1>3, <1>4, <2>1
<1> QED
  BY <1>1, <1>3, <1>4, <1>5 DEF m, Last

LEMMA StackFront ==
  ASSUME NEW s \in Seq(Entry), s # <<>>, Last(s) # Close, Words(s) = {}
  PROVE  Words(Front(s)) = {} /\ Closes(Front(s)) = Closes(s)
<1> DEFINE f == Front(s)
           m == Len(s) - 1
<1>1. /\ f \in Seq(Entry) /\ Len(f) = m /\ m \in Nat /\ Len(s) = m + 1
      /\ \A i \in 1..m : f[i] = s[i]
      /\ s[m + 1] # Close
  BY FrontFacts
<1>2. DOMAIN f = 1..m /\ DOMAIN s = 1..(m + 1)
  BY <1>1, LastFacts
<1> HIDE DEF f, m
<1>3. Words(f) = {}
  BY <1>1, <1>2 DEF Words
<1>4. Places(f, Close, 1) = Places(s, Close, 1)
  BY <1>1 DEF Places
<1> QED
  BY <1>3, <1>4 DEF Closes, f

LEMMA UnrollFacts ==
  ASSUME NEW s \in Seq(Entry), NEW k \in 1..Len(s)
  PROVE  LET ops  == SubSeq(s, k + 1, Len(s))
             rest == SubSeq(s, 1, k - 1)
         IN  /\ ops \in Seq(Entry) /\ Len(ops) = Len(s) - k
             /\ \A i \in 1..(Len(s) - k) : ops[i] = s[k + i]
             /\ rest \in Seq(Entry) /\ Len(rest) = k - 1
             /\ \A i \in 1..(k - 1) : rest[i] = s[i]
<1> DEFINE n == Len(s)
           t == SubSeq(s, k + 1, n)
           rest == SubSeq(s, 1, k - 1)
<1>1. n \in Nat /\ k \in 1..n /\ \A i \in 1..n : s[i] \in Entry
  BY LastFacts
<1>2. /\ t \in Seq(Entry) /\ Len(t) = n - k
      /\ \A i \in 1..(n - k) : t[i] = s[k + i]
  <2>1. k + 1 \in Int /\ n \in Int /\ \A i \in (k + 1)..n : s[i] \in Entry
    BY <1>1
  <2> HIDE DEF n
  <2>2. /\ t \in Seq(Entry) /\ Len(t) = (IF k + 1 <= n THEN n - (k + 1) + 1 ELSE 0)
        /\ \A i \in 1..(n - (k + 1) + 1) : t[i] = s[k + 1 + i - 1]
    BY <2>1, SubSeqProperties
  <2>3. (IF k + 1 <= n THEN n - (k + 1) + 1 ELSE 0) = n - k /\ n - (k + 1) + 1 = n - k
        /\ \A i \in 1..(n - k) : k + 1 + i - 1 = k + i
    BY <1>1
  <2> HIDE DEF t
  <2> QED
    BY <2>2, <2>3
<1>3. /\ rest \in Seq(Entry) /\ Len(rest) = k - 1
      /\ \A i \in 1..(k - 1) : rest[i] = s[i]
  <2>1. k - 1 \in Int /\ \A i \in 1..(k - 1) : s[i] \in Entry
    BY <1>1
  <2>2. /\ rest \in Seq(Entry) /\ Len(rest) = (IF 1 <= k - 1 THEN k - 1 - 1 + 1 ELSE 0)
        /\ \A i \in 1..(k - 1 - 1 + 1) : rest[i] = s[1 + i - 1]
    BY <2>1, SubSeqProperties
  <2>3. (IF 1 <= k - 1 THEN k - 1 - 1 + 1 ELSE 0) = k - 1 /\ k - 1 - 1 + 1 = k - 1
        /\ \A i \in 1..(k - 1) : 1 + i - 1 = i
    BY <1>1
  <2> HIDE DEF rest
  <2> QED
    BY <2>2, <2>3
<1> HIDE DEF t, rest
<1> QED
  BY <1>2, <1>3 DEF n, t, rest

LEMMA UnrollKeeps ==
  ASSUME NEW s \in Seq(Entry), NEW k \in 1..Len(s), Words(s) = {},
         s[k] = Close, \A i \in (k + 1)..Len(s) : s[i] # Close
  PROVE  LET ops  == SubSeq(s, k + 1, Len(s))
             rest == SubSeq(s, 1, k - 1)
         IN  /\ Words(ops) = {} /\ Words(rest) = {}
             /\ Closes(rest) = Closes(s) - 1
<1> DEFINE ops  == SubSeq(s, k + 1, Len(s))
           rest == SubSeq(s, 1, k - 1)
           n == Len(s)
<1>1. /\ ops \in Seq(Entry) /\ Len(ops) = n - k
      /\ \A i \in 1..(n - k) : ops[i] = s[k + i]
      /\ rest \in Seq(Entry) /\ Len(rest) = k - 1
      /\ \A i \in 1..(k - 1) : rest[i] = s[i]
  BY UnrollFacts
<1>2. n \in Nat /\ DOMAIN s = 1..n /\ DOMAIN ops = 1..(n - k) /\ DOMAIN rest = 1..(k - 1)
  BY <1>1, LastFacts
<1> HIDE DEF ops, rest
<1>3. \A i \in 1..n : ~IsWord(s[i])
  BY <1>2 DEF Words
<1>4. Words(ops) = {}
  <2>1. \A i \in 1..(n - k) : n - i + 1 \in 1..n
    BY <1>2
  <2> QED
    BY <1>1, <1>2, <1>3, <2>1 DEF Words
<1>5. Words(rest) = {}
  BY <1>1, <1>2, <1>3 DEF Words
<1>6. Places(rest, Close, 1) = Places(s, Close, 1) \ {k} /\ k \in Places(s, Close, 1)
  BY <1>1, <1>2 DEF Places
<1>7. IsFiniteSet(Places(s, Close, 1))
  BY PlacesFinite
<1>8. Closes(rest) = Closes(s) - 1
  BY <1>6, <1>7, FS_RemoveElement DEF Closes
<1> QED
  BY <1>4, <1>5, <1>8 DEF ops, rest

Packs ==
  phase \in {"packing", "done"} =>
    /\ WordSet(request) = WordsFrom(entries, next + 1) /\ Ascending(request)
    /\ Words(stack) = {}
    /\ \A k \in (next + 1)..Len(entries) : Depth(entries, k) >= 0
    /\ phase = "packing" => Depth(entries, next + 1) = Closes(stack)
    /\ phase = "done" => next = 0

\* Packing begins with nothing.
LEMMA PackingBegins ==
  ASSUME NEW e \in Seq(Entry), NEW s, s = <<>>
  PROVE  /\ WordSet(s) = WordsFrom(e, Len(e) + 1) /\ Ascending(s) /\ Words(s) = {}
         /\ Depth(e, Len(e) + 1) = Closes(s)
<1>1. Words(s) = {}
  BY EmptyIsSeq DEF Words
<1>2. WordSet(s) = {} /\ Ascending(s)
  BY <1>1 DEF WordSet, Ascending
<1>3. WordsFrom(e, Len(e) + 1) = {}
  <2>1. DOMAIN e = 1..Len(e) /\ Len(e) \in Nat
    BY LastFacts
  <2> QED
    BY <2>1 DEF WordsFrom, Words
<1>4. Closes(s) = 0
  <2>1. Places(s, Close, 1) = {}
    BY EmptyIsSeq DEF Places
  <2> QED
    BY <2>1, FS_EmptySet, Zenon DEF Closes
<1> QED
  BY <1>1, <1>2, <1>3, <1>4, DepthFacts

\* The words from one entry on.
LEMMA WordsFromStep ==
  ASSUME NEW e \in Seq(Entry), NEW k \in 1..Len(e)
  PROVE  WordsFrom(e, k) = WordsFrom(e, k + 1) \cup (IF IsWord(e[k]) THEN {e[k]} ELSE {})
<1>1. DOMAIN e = 1..Len(e) /\ Len(e) \in Nat
  BY LastFacts
<1>2. \A j \in Words(e) : k <= j <=> j = k \/ k + 1 <= j
  BY <1>1 DEF Words
<1>3. k \in Words(e) <=> IsWord(e[k])
  BY <1>1 DEF Words
<1> QED
  BY <1>2, <1>3 DEF WordsFrom

\* One entry is packed: its words are in the request, its weight is on the stack.
LEMMA PackingGoesOn ==
  ASSUME TypeOK, EntriesAreRead, Packs, phase = "packing", next > 0, phase' = "packing",
         next' = next - 1, entries' = entries,
         WordSet(request') = WordSet(request)
                               \cup (IF IsWord(entries[next]) THEN {entries[next]} ELSE {}),
         Ascending(request'),
         Words(stack') = {}, Closes(stack) \in Nat, Closes(stack') \in Nat,
         Closes(stack') = Closes(stack) + Weight(entries[next])
  PROVE  Packs'
<1> DEFINE e == entries
           n == Len(e)
<1>1. e \in Seq(Entry) /\ n \in Nat /\ next \in 1..n /\ next - 1 + 1 = next
  BY LastFacts DEF TypeOK
<1>2. WordSet(request') = WordsFrom(e, next)
  BY <1>1, WordsFromStep DEF Packs
<1>3. Depth(e, next) = Closes(stack')
  BY <1>1, DepthFacts DEF Packs
<1>4. \A k \in next..n : Depth(e, k) >= 0
  <2>1. \A k \in next..n : k = next \/ k \in (next + 1)..n
    BY <1>1
  <2> QED
    BY <1>3, <2>1 DEF Packs
<1>5. next' + 1 = next /\ phase' = "packing"
  BY <1>1
<1> QED
  BY <1>2, <1>3, <1>4, <1>5 DEF Packs

LEMMA PackWordStep ==
  ASSUME TypeOK, EntriesAreRead, Packs, PackWord
  PROVE  TypeOK' /\ EntriesAreRead' /\ Packs'
<1>1. /\ phase = "packing" /\ next > 0 /\ IsWord(entries[next]) /\ next' = next - 1
      /\ request' = <<entries[next]>> \o request
      /\ UNCHANGED <<phase, query, tokens, item, said, verbatim, entries, stack>>
  BY DEF PackWord, Packing
<1> DEFINE x == entries[next]
<1>2. /\ entries \in Seq(Entry) /\ request \in Seq(Entry) /\ stack \in Seq(Entry)
      /\ Len(entries) \in Nat /\ next \in 1..Len(entries) /\ x \in Entry
      /\ DOMAIN entries = 1..Len(entries)
  BY <1>1, LastFacts DEF TypeOK
<1>3. /\ WordSet(request) = WordsFrom(entries, next + 1) /\ Ascending(request)
      /\ Words(stack) = {}
  BY <1>1 DEF Packs
<1>4. ASSUME NEW y \in WordSet(request) PROVE x.n < y.n
  <2>1. PICK j \in Words(entries) : y = entries[j] /\ next + 1 <= j
    BY <1>3 DEF WordsFrom
  <2>2. next \in Words(entries) /\ next < j
    BY <1>1, <1>2, <2>1 DEF Words
  <2>3. Ascending(entries)
    BY <1>1, EntriesWords DEF EntriesAreRead
  <2> QED
    BY <2>1, <2>2, <2>3 DEF Ascending
<1> HIDE DEF x
<1>5. /\ request' \in Seq(Entry) /\ WordSet(request') = WordSet(request) \cup {x}
      /\ Ascending(request')
  BY <1>1, <1>2, <1>3, <1>4, PrependWord DEF x
<1>6. Closes(stack) \in Nat /\ Weight(x) = 0
  BY <1>1, <1>2, PlacesFinite, Kinds DEF Closes, Weight, x
<1>7. Packs'
  BY <1>1, <1>3, <1>5, <1>6, PackingGoesOn DEF x
<1>8. TypeOK'
  BY <1>1, <1>2, <1>5 DEF TypeOK
<1> QED
  BY <1>1, <1>7, <1>8 DEF EntriesAreRead

LEMMA PackCloseStep ==
  ASSUME TypeOK, EntriesAreRead, Packs, PackClose
  PROVE  TypeOK' /\ EntriesAreRead' /\ Packs'
<1>1. /\ phase = "packing" /\ next > 0 /\ entries[next] = Close /\ next' = next - 1
      /\ stack' = Append(stack, Close)
      /\ UNCHANGED <<phase, query, tokens, item, said, verbatim, entries, request>>
  BY DEF PackClose, Packing
<1>2. Len(entries) \in Nat /\ next \in 1..Len(entries) /\ stack \in Seq(Entry)
  BY <1>1, LastFacts DEF TypeOK
<1>3. Ascending(request) /\ Words(stack) = {}
  BY <1>1 DEF Packs
<1>4. /\ stack' \in Seq(Entry) /\ Words(stack') = {}
      /\ Closes(stack') = Closes(stack) + 1 /\ Closes(stack) \in Nat
  BY <1>1, <1>2, <1>3, Kinds, StackAppend
<1>5. ~IsWord(Close) /\ Weight(Close) = 1
  BY Kinds DEF Weight
<1>6. WordSet(request') = WordSet(request)
                            \cup (IF IsWord(entries[next]) THEN {entries[next]} ELSE {})
  BY <1>1, <1>5
<1>7. Packs'
  BY <1>1, <1>3, <1>4, <1>5, <1>6, PackingGoesOn
<1>8. TypeOK'
  BY <1>1, <1>2, <1>4 DEF TypeOK
<1> QED
  BY <1>1, <1>7, <1>8 DEF EntriesAreRead

LEMMA PackOperatorStep ==
  ASSUME TypeOK, EntriesAreRead, Packs, PackOperator
  PROVE  TypeOK' /\ EntriesAreRead' /\ Packs'
<1> DEFINE x == entries[next]
<1>1. /\ phase = "packing" /\ next > 0 /\ IsOperator(x) /\ next' = next - 1
      /\ IF stack # <<>> /\ IsOperator(Last(stack))
         THEN /\ request' = <<Last(stack)>> \o request
              /\ stack' = Append(Front(stack), x)
         ELSE stack' = Append(stack, x) /\ request' = request
      /\ UNCHANGED <<phase, query, tokens, item, said, verbatim, entries>>
  BY DEF PackOperator, Packing
<1>2. /\ entries \in Seq(Entry) /\ request \in Seq(Entry) /\ stack \in Seq(Entry)
      /\ Len(entries) \in Nat /\ next \in 1..Len(entries) /\ x \in Entry
  BY <1>1, LastFacts DEF TypeOK
<1>3. Ascending(request) /\ Words(stack) = {}
  BY <1>1 DEF Packs
<1>4. ~IsWord(x) /\ x # Close /\ Weight(x) = 0
  BY <1>1, Kinds DEF Weight
<1> HIDE DEF x
<1>5. /\ stack' \in Seq(Entry) /\ Words(stack') = {} /\ Closes(stack) \in Nat
      /\ Closes(stack') = Closes(stack)
      /\ request' \in Seq(Entry) /\ WordSet(request') = WordSet(request) /\ Ascending(request')
  <2>1. CASE stack # <<>> /\ IsOperator(Last(stack))
    <3> DEFINE y == Last(stack)
    <3>1. /\ y \in Entry /\ ~IsWord(y) /\ y # Close /\ Front(stack) \in Seq(Entry)
      BY <1>2, <2>1, FrontFacts, Kinds
    <3>2. Words(Front(stack)) = {} /\ Closes(Front(stack)) = Closes(stack)
      BY <1>2, <1>3, <2>1, <3>1, StackFront
    <3> HIDE DEF y
    <3>3. /\ stack' \in Seq(Entry) /\ Words(stack') = {} /\ Closes(stack) \in Nat
          /\ Closes(stack') = Closes(stack)
      <4> DEFINE f == Front(stack)
      <4>1. stack' = Append(f, x)
        BY <1>1, <2>1
      <4>2. f \in Seq(Entry) /\ Words(f) = {} /\ Closes(f) = Closes(stack)
        BY <3>1, <3>2
      <4> HIDE DEF f
      <4>3. /\ Append(f, x) \in Seq(Entry) /\ Words(Append(f, x)) = {}
            /\ Closes(Append(f, x)) = Closes(f) + 0 /\ Closes(f) \in Nat
        BY <1>2, <1>4, <4>2, StackAppend
      <4> QED
        BY <4>1, <4>2, <4>3
    <3>4. <<y>> \in Seq(Entry) /\ Words(<<y>>) = {}
      <4>1. <<y>> \in Seq(Entry) /\ DOMAIN <<y>> = {1} /\ <<y>>[1] = y
        BY <3>1
      <4> QED
        BY <3>1, <4>1 DEF Words
    <3>5. /\ <<y>> \o request \in Seq(Entry) /\ WordSet(<<y>> \o request) = WordSet(request)
          /\ Ascending(<<y>> \o request)
      BY <1>2, <1>3, <3>4, ConcatNoWords
    <3> QED
      BY <1>1, <2>1, <3>3, <3>5 DEF y
  <2>2. CASE ~(stack # <<>> /\ IsOperator(Last(stack)))
    <3>1. stack' = Append(stack, x) /\ request' = request
      BY <1>1, <2>2
    <3>2. /\ stack' \in Seq(Entry) /\ Words(stack') = {} /\ Closes(stack) \in Nat
          /\ Closes(stack') = Closes(stack)
      BY <1>2, <1>3, <1>4, <3>1, StackAppend
    <3> QED
      BY <1>2, <1>3, <3>1, <3>2
  <2> QED
    BY <2>1, <2>2
<1>6. WordSet(request') = WordSet(request)
                            \cup (IF IsWord(entries[next]) THEN {entries[next]} ELSE {})
  BY <1>4, <1>5 DEF x
<1>7. Packs'
  BY <1>1, <1>4, <1>5, <1>6, PackingGoesOn DEF x
<1>8. TypeOK'
  BY <1>1, <1>2, <1>5 DEF TypeOK
<1> QED
  BY <1>1, <1>7, <1>8 DEF EntriesAreRead

LEMMA PackOpenStep ==
  ASSUME TypeOK, EntriesAreRead, Packs, PackOpen
  PROVE  TypeOK' /\ EntriesAreRead' /\ Packs'
<1>1. /\ phase = "packing" /\ next > 0 /\ entries[next] = Open
      /\ UNCHANGED <<query, tokens, item, said, verbatim, entries>>
  BY DEF PackOpen, Packing
<1>2. /\ entries \in Seq(Entry) /\ request \in Seq(Entry) /\ stack \in Seq(Entry)
      /\ Len(entries) \in Nat /\ next \in 1..Len(entries) /\ DOMAIN stack = 1..Len(stack)
  BY <1>1, LastFacts DEF TypeOK
<1>3. Ascending(request) /\ Words(stack) = {}
  BY <1>1 DEF Packs
<1>4. ASSUME NEW k \in DOMAIN stack, IsLastClose(k), Unroll(k)
      PROVE  TypeOK' /\ EntriesAreRead' /\ Packs'
  <2> DEFINE ops  == SubSeq(stack, k + 1, Len(stack))
             rest == SubSeq(stack, 1, k - 1)
  <2>1. /\ request' = ops \o request /\ stack' = rest /\ next' = next - 1 /\ phase' = phase
    BY <1>4 DEF Unroll
  <2>2. ops \in Seq(Entry) /\ rest \in Seq(Entry)
    BY <1>2, UnrollFacts
  <2>3. Words(ops) = {} /\ Words(rest) = {} /\ Closes(rest) = Closes(stack) - 1
    BY <1>2, <1>3, <1>4, UnrollKeeps DEF IsLastClose
  <2> HIDE DEF ops, rest
  <2>4. /\ ops \o request \in Seq(Entry) /\ WordSet(ops \o request) = WordSet(request)
        /\ Ascending(ops \o request)
    BY <1>2, <1>3, <2>2, <2>3, ConcatNoWords
  <2>5. Closes(stack) \in Nat /\ Closes(rest) \in Nat
    BY <1>2, <2>2, PlacesFinite DEF Closes
  <2>6. ~IsWord(Open) /\ Weight(Open) = -1
    BY Kinds DEF Weight
  <2>7. WordSet(request') = WordSet(request)
                              \cup (IF IsWord(entries[next]) THEN {entries[next]} ELSE {})
    BY <1>1, <2>1, <2>4, <2>6
  <2>8. Closes(stack') = Closes(stack) + Weight(entries[next])
    BY <1>1, <2>1, <2>3, <2>5, <2>6
  <2>9. Packs'
    BY <1>1, <2>1, <2>3, <2>4, <2>5, <2>7, <2>8, PackingGoesOn
  <2>10. TypeOK'
    BY <1>1, <1>2, <2>1, <2>2, <2>4 DEF TypeOK
  <2> QED
    BY <1>1, <2>1, <2>9, <2>10 DEF EntriesAreRead
<1>5. ASSUME phase' = "failed", UNCHANGED <<next, stack, request>>
      PROVE  TypeOK' /\ EntriesAreRead' /\ Packs'
  BY <1>1, <1>5 DEF TypeOK, EntriesAreRead, Packs
<1> QED
  BY <1>4, <1>5 DEF PackOpen

LEMMA PackEndStep ==
  ASSUME TypeOK, EntriesAreRead, Packs, PackEnd
  PROVE  TypeOK' /\ EntriesAreRead' /\ Packs'
<1>1. /\ phase = "packing" /\ next = 0
      /\ UNCHANGED <<query, tokens, item, said, verbatim, entries, next, stack>>
      /\ \/ phase' = "done" /\ request' = request
         \/ /\ phase' = "done" /\ stack # <<>> /\ IsOperator(stack[1])
            /\ request' = <<stack[1]>> \o request
         \/ phase' = "failed" /\ request' = request
  BY DEF PackEnd
<1>2. /\ request \in Seq(Entry) /\ stack \in Seq(Entry)
      /\ WordSet(request) = WordsFrom(entries, next + 1) /\ Ascending(request)
  BY <1>1 DEF TypeOK, Packs
<1>3. ASSUME stack # <<>>, IsOperator(stack[1])
      PROVE  /\ <<stack[1]>> \o request \in Seq(Entry)
             /\ WordSet(<<stack[1]>> \o request) = WordSet(request)
             /\ Ascending(<<stack[1]>> \o request)
  <2> DEFINE y == stack[1]
  <2>1. y \in Entry /\ ~IsWord(y)
    <3>1. 1 \in 1..Len(stack)
      BY <1>2, <1>3, LastFacts
    <3> QED
      BY <1>2, <1>3, <3>1, LastFacts, Kinds
  <2> HIDE DEF y
  <2>2. <<y>> \in Seq(Entry) /\ DOMAIN <<y>> = {1} /\ <<y>>[1] = y
    BY <2>1
  <2>3. Words(<<y>>) = {}
    BY <2>1, <2>2 DEF Words
  <2> QED
    BY <1>2, <2>2, <2>3, ConcatNoWords DEF y
<1>4. /\ request' \in Seq(Entry) /\ WordSet(request') = WordSet(request) /\ Ascending(request')
      /\ phase' \in {"done", "failed"}
  BY <1>1, <1>2, <1>3
<1>5. TypeOK'
  BY <1>1, <1>4 DEF TypeOK
<1>6. Packs'
  BY <1>1, <1>2, <1>4 DEF Packs
<1> QED
  BY <1>1, <1>4, <1>5, <1>6 DEF EntriesAreRead

PackInv == TypeOK /\ EntriesAreRead /\ Packs

LEMMA PackInvStep ==
  ASSUME PackInv, [Next]_vars
  PROVE  PackInv'
<1>1. TypeOK /\ EntriesAreRead /\ Packs
  BY DEF PackInv
<1>2. CASE UNCHANGED vars
  BY <1>1, <1>2 DEF vars, PackInv, TypeOK, EntriesAreRead, Packs
<1>3. ASSUME NEW x \in Names \cup {"word"}, ReadItem(x) PROVE PackInv'
  <2>1. x \in {"word"} \cup OperatorName
    BY SearchAssumption DEF SearchAssumption, OperatorName
  <2> QED
    BY <1>1, <1>3, <2>1 DEF ReadItem, PackInv, TypeOK, EntriesAreRead, Packs
<1>4. ASSUME NEW c \in {"space", "open", "close"}, ReadSeparator(c) PROVE PackInv'
  <2>1. TypeOK' /\ EntriesAreRead'
    BY <1>1, <1>4, SeparatorReads
  <2>2. phase' \in {"reading", "failed"}
    BY <1>4 DEF ReadSeparator
  <2> QED
    BY <2>1, <2>2 DEF PackInv, Packs
<1>5. ASSUME NEW c \in {"space", "open", "close"}, ReadQuotedSeparator(c) PROVE PackInv'
  <2>1. TypeOK' /\ EntriesAreRead' /\ phase' = "reading"
    BY <1>1, <1>5, QuotedSeparatorReads
  <2> QED
    BY <2>1 DEF PackInv, Packs
<1>6. CASE ReadQuote
  BY <1>1, <1>6 DEF ReadQuote, PackInv, TypeOK, EntriesAreRead, Packs
<1>7. CASE EndOfQuery
  <2>1. TypeOK' /\ EntriesAreRead'
    BY <1>1, <1>7, EndOfQueryReads
  <2>2. /\ phase = "reading" /\ phase' \in {"packing", "failed"} /\ stack' = stack
        /\ request' = request /\ (phase' = "packing" => next' = Len(entries'))
    BY <1>7 DEF EndOfQuery
  <2>3. stack' = <<>> /\ request' = <<>>
    BY <1>1, <2>2 DEF EntriesAreRead
  <2>4. /\ entries' \in Seq(Entry) /\ Len(entries') \in Nat
    BY <2>1, LastFacts DEF TypeOK
  <2>5. /\ WordSet(request') = WordsFrom(entries', Len(entries') + 1) /\ Ascending(request')
        /\ Words(stack') = {} /\ Depth(entries', Len(entries') + 1) = Closes(stack')
    BY <2>3, <2>4, PackingBegins
  <2>6. \A k \in (Len(entries') + 1)..Len(entries') : Depth(entries', k) >= 0
    BY <2>4
  <2> QED
    BY <2>1, <2>2, <2>5, <2>6 DEF PackInv, Packs
<1> QED
  BY <1>1, <1>2, <1>3, <1>4, <1>5, <1>6, <1>7,
     PackWordStep, PackOperatorStep, PackCloseStep, PackOpenStep, PackEndStep DEF Next, PackInv

LEMMA PackInvHolds == Spec => []PackInv
<1>1. Init => PackInv
  <2> SUFFICES ASSUME Init PROVE PackInv
    OBVIOUS
  <2>1. phase = "reading"
    BY DEF Init
  <2> QED
    BY <2>1, InitReads DEF PackInv, Packs
<1> QED
  BY <1>1, PackInvStep, PTL DEF Spec

\* The words that are read are sent, each once and in their order (search.go:391-465).
THEOREM EveryWordIsSent == Spec => []WordsAreKept
<1>1. PackInv => WordsAreKept
  <2> SUFFICES ASSUME PackInv, phase = "done"
               PROVE  /\ {request[i] : i \in Words(request)} = {tokens[i] : i \in Words(tokens)}
                      /\ \A i, j \in Words(request) : i < j => request[i].n < request[j].n
    BY DEF WordsAreKept
  <2>1. /\ WordSet(request) = WordsFrom(entries, next + 1) /\ Ascending(request) /\ next = 0
        /\ IsRead(entries, tokens)
    BY DEF PackInv, Packs, EntriesAreRead
  <2>2. WordSet(entries) = WordSet(tokens) /\ entries \in Seq(Entry)
    BY <2>1, EntriesWords DEF IsRead
  <2>3. WordsFrom(entries, next + 1) = WordSet(entries)
    <3>1. \A j \in Words(entries) : 0 + 1 <= j
      BY <2>2, WordsFinite
    <3> QED
      BY <2>1, <3>1 DEF WordsFrom, WordSet
  <2> QED
    BY <2>1, <2>2, <2>3 DEF WordSet, Ascending
<1> QED
  BY PackInvHolds, <1>1, PTL

ClosedAsRead == phase = "done" => \A i \in DOMAIN tokens : Depth(tokens, i) >= 0

LEMMA ClosedWhenDone == PackInv => ClosedAsRead
<1> SUFFICES ASSUME PackInv, phase = "done", NEW i \in DOMAIN tokens
             PROVE  Depth(tokens, i) >= 0
  BY DEF ClosedAsRead
<1>1. /\ \A k \in (next + 1)..Len(entries) : Depth(entries, k) >= 0
      /\ next = 0 /\ IsRead(entries, tokens)
  BY DEF PackInv, Packs, EntriesAreRead
<1>2. PICK place : IsPlacing(place, entries, tokens)
  BY <1>1 DEF IsRead
<1>3. entries \in Seq(Entry) /\ tokens \in Seq(Entry) /\ Len(tokens) \in Nat /\ Len(entries) \in Nat
      /\ i \in 1..Len(tokens) /\ i - 1 \in 0..Len(tokens)
  BY <1>1, LastFacts DEF IsRead
<1>4. place[i - 1] \in 0..(Len(entries) - 1)
  BY <1>2, <1>3, PlacingFacts
<1>5. Depth(tokens, i - 1 + 1) = Depth(entries, place[i - 1] + 1)
  BY <1>2, <1>3, EntriesDepth
<1>6. i - 1 + 1 = i /\ place[i - 1] + 1 \in (next + 1)..Len(entries)
  BY <1>1, <1>3, <1>4
<1> QED
  BY <1>1, <1>5, <1>6

\* Each opening parenthesis of an accepted query without quoted parentheses and
\* operators has its closing one (the error returns of search.go:416-436).
THEOREM OpenParenthesesAreClosed == Spec => []OpenIsClosed
<1>1. ClosedAsRead => OpenIsClosed
  BY DEF ClosedAsRead, OpenIsClosed, ReadAsWritten
<1> QED
  BY <1>1, PackInvHolds, ClosedWhenDone, PTL

----------------------------------------------------------------------------
(* The forms of a query: forms[d][i][j] has those of its tokens i to j that  *)
(* need no more than d steps of the grammar.                                *)
Tables(q) == [1..(Len(q) + 1) -> [0..Len(q) -> SUBSET Seq(Entry)]]

IsFormTable(f, q) ==
  /\ f \in [0..Len(q) -> Tables(q)]
  /\ \A i \in 1..(Len(q) + 1), j \in 0..Len(q) : f[0][i][j] = {}
  /\ \A d \in 1..Len(q), i \in 1..(Len(q) + 1), j \in 0..Len(q) :
       f[d][i][j] = ExprForms(q, f[d - 1], i, j)

\* What a form of an expression is made of.
IsTermForm(q, g, i, j, f) ==
  \/ i = j /\ IsWord(q[i]) /\ f = <<q[i]>>
  \/ i < j /\ q[i] = Open /\ q[j] = Close /\ f \in g[i + 1][j - 1]

Binary(op, l, r) == <<op>> \o l \o r
IsJoinedForm(q, g, i, j, f) ==
  \E k \in i..(j - 1) : \E l \in TermForms(q, g, i, k) :
    \/ /\ IsOperator(q[k + 1])
       /\ \E r \in g[k + 2][j] : f = Binary(q[k + 1], l, r)
    \/ /\ ~IsOperator(q[k + 1])
       /\ \E r \in g[k + 1][j] : f = Binary(And, l, r)

LEMMA TermFormsAre ==
  ASSUME NEW q, NEW g, NEW i \in Int, NEW j \in Int, NEW f
  PROVE  f \in TermForms(q, g, i, j) <=> IsTermForm(q, g, i, j, f)
BY DEF TermForms, IsTermForm

LEMMA JoinedAre ==
  ASSUME NEW op, NEW A, NEW B, NEW f
  PROVE  f \in Joined(op, A, B) <=> \E l \in A : \E r \in B : f = Binary(op, l, r)
<1>1. Joined(op, A, B) = {Binary(op, l, r) : l \in A, r \in B}
  BY DEF Joined, Binary
<1>2. f \in Joined(op, A, B) <=> \E l \in A : \E r \in B : f = Binary(op, l, r)
  BY <1>1
<1> QED
  BY <1>2

LEMMA ExprFormsAre ==
  ASSUME NEW q, NEW g, NEW i \in Int, NEW j \in Int, NEW f
  PROVE  f \in ExprForms(q, g, i, j) <=>
           f \in TermForms(q, g, i, j) \/ IsJoinedForm(q, g, i, j, f)
<1> DEFINE P(k) == LET terms == TermForms(q, g, i, k)
                   IN  IF IsOperator(q[k + 1]) THEN Joined(q[k + 1], terms, g[k + 2][j])
                       ELSE Joined(And, terms, g[k + 1][j])
<1>1. ExprForms(q, g, i, j) = TermForms(q, g, i, j) \cup UNION {P(k) : k \in i..(j - 1)}
  BY Zenon DEF ExprForms
<1>2. \A k : f \in P(k) <=>
        \E l \in TermForms(q, g, i, k) :
          \/ /\ IsOperator(q[k + 1])
             /\ \E r \in g[k + 2][j] : f = Binary(q[k + 1], l, r)
          \/ /\ ~IsOperator(q[k + 1])
             /\ \E r \in g[k + 1][j] : f = Binary(And, l, r)
  <2> TAKE k
  <2>1. CASE IsOperator(q[k + 1])
    <3>1. f \in P(k) <=> f \in Joined(q[k + 1], TermForms(q, g, i, k), g[k + 2][j])
      BY <2>1
    <3>2. f \in Joined(q[k + 1], TermForms(q, g, i, k), g[k + 2][j]) <=>
            \E l \in TermForms(q, g, i, k) : \E r \in g[k + 2][j] : f = Binary(q[k + 1], l, r)
      BY JoinedAre
    <3> HIDE DEF P
    <3> QED
      BY <2>1, <3>1, <3>2, Zenon
  <2>2. CASE ~IsOperator(q[k + 1])
    <3>1. f \in P(k) <=> f \in Joined(And, TermForms(q, g, i, k), g[k + 1][j])
      BY <2>2
    <3>2. f \in Joined(And, TermForms(q, g, i, k), g[k + 1][j]) <=>
            \E l \in TermForms(q, g, i, k) : \E r \in g[k + 1][j] : f = Binary(And, l, r)
      BY JoinedAre
    <3> HIDE DEF P
    <3> QED
      BY <2>2, <3>1, <3>2, Zenon
  <2> QED
    BY <2>1, <2>2
<1> HIDE DEF P
<1>3. f \in UNION {P(k) : k \in i..(j - 1)} <=> \E k \in i..(j - 1) : f \in P(k)
  OBVIOUS
<1> QED
  BY <1>1, <1>2, <1>3 DEF IsJoinedForm

LEMMA FormsTyped ==
  ASSUME NEW q \in Seq(Entry), NEW g \in Tables(q),
         NEW i \in 1..(Len(q) + 1), NEW j \in 0..Len(q)
  PROVE  /\ TermForms(q, g, i, j) \subseteq Seq(Entry)
         /\ ExprForms(q, g, i, j) \subseteq Seq(Entry)
<1>1. Len(q) \in Nat /\ \A m \in 1..Len(q) : q[m] \in Entry
  BY LastFacts
<1>2. \A a \in 1..(Len(q) + 1), b \in 0..Len(q) : g[a][b] \subseteq Seq(Entry)
  BY DEF Tables
<1>3. ASSUME NEW k \in 0..Len(q), NEW f \in TermForms(q, g, i, k) PROVE f \in Seq(Entry)
  <2>1. IsTermForm(q, g, i, k, f) /\ k \in Int /\ i \in Int
    BY <1>1, <1>3, TermFormsAre
  <2>2. CASE i = k /\ IsWord(q[i]) /\ f = <<q[i]>>
    <3>1. q[i] \in Entry
      BY <1>1, <2>2
    <3> QED
      BY <2>2, <3>1, SingleFacts
  <2>3. CASE i < k /\ f \in g[i + 1][k - 1]
    <3>1. i + 1 \in 1..(Len(q) + 1) /\ k - 1 \in 0..Len(q)
      BY <1>1, <2>3
    <3> QED
      BY <1>2, <2>3, <3>1
  <2> QED
    BY <2>1, <2>2, <2>3 DEF IsTermForm
<1>4. ASSUME NEW x \in Entry, NEW l \in Seq(Entry), NEW r \in Seq(Entry)
      PROVE  Binary(x, l, r) \in Seq(Entry)
  <2>1. <<x>> \o l \in Seq(Entry)
    BY PrependFacts
  <2> QED
    BY <2>1, ConcatProperties DEF Binary
<1>5. ASSUME NEW f, IsJoinedForm(q, g, i, j, f) PROVE f \in Seq(Entry)
  <2> DEFINE Both(k, l) == \/ /\ IsOperator(q[k + 1])
                              /\ \E r \in g[k + 2][j] : f = Binary(q[k + 1], l, r)
                           \/ /\ ~IsOperator(q[k + 1])
                              /\ \E r \in g[k + 1][j] : f = Binary(And, l, r)
  <2>0. PICK k \in i..(j - 1) : \E l \in TermForms(q, g, i, k) : Both(k, l)
    BY <1>5 DEF IsJoinedForm
  <2>1. PICK l \in TermForms(q, g, i, k) : Both(k, l)
    BY <2>0
  <2>2. /\ k \in 0..Len(q) /\ k + 1 \in 1..Len(q) /\ k + 1 \in 1..(Len(q) + 1)
        /\ k + 2 \in 1..(Len(q) + 1)
    BY <1>1
  <2>3. l \in Seq(Entry) /\ q[k + 1] \in Entry /\ And \in Entry
    BY <1>1, <1>3, <2>2, Kinds
  <2>4. g[k + 2][j] \subseteq Seq(Entry) /\ g[k + 1][j] \subseteq Seq(Entry)
    BY <1>2, <2>2
  <2> QED
    BY <1>4, <2>1, <2>3, <2>4
<1>6. ASSUME NEW f \in ExprForms(q, g, i, j) PROVE f \in Seq(Entry)
  <2>1. f \in TermForms(q, g, i, j) \/ IsJoinedForm(q, g, i, j, f)
    BY <1>1, <1>6, ExprFormsAre
  <2> QED
    BY <1>3, <1>5, <2>1
<1> QED
  BY <1>3, <1>6

LEMMA FormTable ==
  ASSUME NEW q \in Seq(Entry)
  PROVE  IsFormTable(FormsByDepth(q), q)
<1> DEFINE m == Len(q)
           I == 1..(m + 1)
           J == 0..m
           S == Tables(q)
           None == [i \in I |-> [j \in J |-> {}]]
           step == [d \in 1..m |-> [g \in S |-> [i \in I |-> [j \in J |-> ExprForms(q, g, i, j)]]]]
           IsIt(f) == f = [d \in 0..m |-> [i \in I |-> [j \in J |->
                              IF d = 0 THEN {} ELSE ExprForms(q, f[d - 1], i, j)]]]
<1>1. m \in Nat
  BY LastFacts
<1>2. None \in S
  BY DEF Tables
<1>3. step \in [1..m -> [S -> S]]
  <2>1. \A g \in S, i \in I, j \in J : ExprForms(q, g, i, j) \in SUBSET Seq(Entry)
    BY FormsTyped
  <2>2. \A g \in S : [i \in I |-> [j \in J |-> ExprForms(q, g, i, j)]] \in S
    BY <2>1 DEF Tables
  <2> HIDE DEF S
  <2> QED
    BY <2>2
<1>4. PICK w \in [0..m -> S] : w[0] = None /\ \A d \in 1..m : w[d] = step[d][w[d - 1]]
  <2> HIDE DEF m, S, None, step
  <2> QED
    BY <1>1, <1>2, <1>3, WalkExists
<1>5. \A d \in 1..m : d - 1 \in 0..m /\ w[d - 1] \in S /\ d # 0 /\ d \in 0..m
  <2> HIDE DEF m, S, step, None
  <2> QED
    BY <1>1, <1>4
<1>6. \A d \in 1..m : w[d] = [i \in I |-> [j \in J |-> ExprForms(q, w[d - 1], i, j)]]
  <2> HIDE DEF S
  <2> QED
    BY <1>4, <1>5
<1>7. IsIt(w)
  <2>1. \A d \in 0..m : w[d] = [i \in I |-> [j \in J |->
                              IF d = 0 THEN {} ELSE ExprForms(q, w[d - 1], i, j)]]
    <3>1. TAKE d \in 0..m
    <3>2. CASE d = 0
      BY <1>4, <3>2
    <3>3. CASE d \in 1..m
      BY <1>5, <1>6, <3>3
    <3> QED
      BY <1>1, <3>2, <3>3
  <2>2. w = [d \in 0..m |-> w[d]]
    BY <1>4
  <2> HIDE DEF m, I, J, S
  <2> QED
    BY <2>1, <2>2
<1>8. FormsByDepth(q) = CHOOSE f : IsIt(f)
  BY Zenon DEF FormsByDepth
<1>9. IsIt(FormsByDepth(q))
  <2>1. \E f : IsIt(f)
    BY <1>7
  <2> HIDE DEF IsIt
  <2>2. IsIt(CHOOSE f : IsIt(f))
    BY <2>1, Zenon
  <2> QED
    BY <1>8, <2>2, Zenon
<1> DEFINE F == FormsByDepth(q)
<1> HIDE DEF F
<1>10. IsIt(F)
  BY <1>9 DEF F
<1>11. F = w
  <2> DEFINE G == {d \in 0..m : F[d] = w[d]}
  <2>1. \A d \in 0..m : F[d] = [i \in I |-> [j \in J |->
                              IF d = 0 THEN {} ELSE ExprForms(q, F[d - 1], i, j)]]
    BY <1>10
  <2>2. \A d \in 0..m : w[d] = [i \in I |-> [j \in J |->
                              IF d = 0 THEN {} ELSE ExprForms(q, w[d - 1], i, j)]]
    BY <1>7
  <2>3. 0 \in G
    <3>1. 0 \in 0..m
      BY <1>1
    <3> QED
      BY <2>1, <2>2, <3>1
  <2>4. ASSUME NEW d \in 1..m, d - 1 \in G PROVE d \in G
    <3>1. F[d - 1] = w[d - 1] /\ d \in 0..m /\ d # 0
      BY <1>5, <2>4
    <3> QED
      BY <2>1, <2>2, <3>1
  <2>5. 0..m \subseteq G
    <3> HIDE DEF G
    <3> QED
      BY <1>1, <2>3, <2>4, UpTo
  <2>6. F = [d \in 0..m |-> F[d]]
    BY <1>10
  <2>7. w = [d \in 0..m |-> w[d]]
    BY <1>4
  <2> QED
    BY <2>5, <2>6, <2>7
<1>12. \A i \in I, j \in J : w[0][i][j] = {}
  BY <1>4
<1>13. \A d \in 1..m, i \in I, j \in J : w[d][i][j] = ExprForms(q, w[d - 1], i, j)
  <2> TAKE d \in 1..m, i \in I, j \in J
  <2>1. w[d] = [a \in I |-> [b \in J |-> ExprForms(q, w[d - 1], a, b)]]
    BY <1>6
  <2> HIDE DEF m, I, J
  <2>2. w[d][i] = [b \in J |-> ExprForms(q, w[d - 1], i, b)]
    BY <2>1
  <2> QED
    BY <2>2
<1> QED
  BY <1>4, <1>11, <1>12, <1>13 DEF IsFormTable, F

LEMMA FormIs ==
  ASSUME NEW q \in Seq(Entry), NEW F, IsFormTable(F, q), NEW d \in 1..Len(q),
         NEW i \in 1..(Len(q) + 1), NEW j \in 0..Len(q), NEW f
  PROVE  f \in F[d][i][j] <=>
           IsTermForm(q, F[d - 1], i, j, f) \/ IsJoinedForm(q, F[d - 1], i, j, f)
<1>1. F[d][i][j] = ExprForms(q, F[d - 1], i, j)
  BY DEF IsFormTable
<1>2. i \in Int /\ j \in Int
  BY LastFacts
<1>3. f \in ExprForms(q, F[d - 1], i, j) <=>
        f \in TermForms(q, F[d - 1], i, j) \/ IsJoinedForm(q, F[d - 1], i, j, f)
  BY <1>2, ExprFormsAre
<1>4. f \in TermForms(q, F[d - 1], i, j) <=> IsTermForm(q, F[d - 1], i, j, f)
  BY <1>2, TermFormsAre
<1> QED
  BY <1>1, <1>3, <1>4

\* What may begin and end an expression.
Begins(x) == IsWord(x) \/ x = Open
Ends(x)   == IsWord(x) \/ x = Close

LEMMA TermEnds ==
  ASSUME NEW q, NEW g, NEW i \in Int, NEW j \in Int, NEW f, IsTermForm(q, g, i, j, f)
  PROVE  i <= j /\ Begins(q[i]) /\ Ends(q[j])
BY DEF IsTermForm, Begins, Ends

LEMMA FormsEnd ==
  ASSUME NEW q \in Seq(Entry), NEW F, IsFormTable(F, q)
  PROVE  \A d \in 0..Len(q), i \in 1..(Len(q) + 1), j \in 0..Len(q) :
           F[d][i][j] # {} => i <= j /\ Begins(q[i]) /\ Ends(q[j])
<1> DEFINE m == Len(q)
           Good(d) == \A i \in 1..(m + 1), j \in 0..m :
                        F[d][i][j] # {} => i <= j /\ Begins(q[i]) /\ Ends(q[j])
           G == {d \in 0..m : Good(d)}
<1>1. m \in Nat
  BY LastFacts
<1>2. 0 \in G
  BY <1>1 DEF IsFormTable
<1>3. ASSUME NEW d \in 1..m, d - 1 \in G PROVE d \in G
  <2>1. Good(d - 1)
    BY <1>3
  <2>2. ASSUME NEW i \in 1..(m + 1), NEW j \in 0..m, NEW f \in F[d][i][j]
        PROVE  i <= j /\ Begins(q[i]) /\ Ends(q[j])
    <3>1. IsTermForm(q, F[d - 1], i, j, f) \/ IsJoinedForm(q, F[d - 1], i, j, f)
      BY <2>2, FormIs
    <3>2. i \in Int /\ j \in Int
      BY <1>1
    <3>3. CASE IsTermForm(q, F[d - 1], i, j, f)
      BY <3>2, <3>3, TermEnds
    <3>4. CASE IsJoinedForm(q, F[d - 1], i, j, f)
      <4>1. PICK k \in i..(j - 1) : /\ TermForms(q, F[d - 1], i, k) # {}
                                    /\ F[d - 1][k + 2][j] # {} \/ F[d - 1][k + 1][j] # {}
        BY <3>4 DEF IsJoinedForm
      <4>2. k + 2 \in 1..(m + 1) /\ k + 1 \in 1..(m + 1) /\ k \in Int /\ i <= j
        BY <1>1
      <4>3. Ends(q[j])
        BY <2>1, <4>1, <4>2
      <4>4. PICK l : IsTermForm(q, F[d - 1], i, k, l)
        BY <3>2, <4>1, <4>2, TermFormsAre
      <4> QED
        BY <3>2, <4>2, <4>3, <4>4, TermEnds
    <3> QED
      BY <3>1, <3>3, <3>4
  <2>3. Good(d)
    BY <2>2
  <2> QED
    BY <2>3
<1>4. 0..m \subseteq G
  <2> HIDE DEF G
  <2> QED
    BY <1>1, <1>2, <1>3, UpTo
<1> QED
  BY <1>4

\* A query that ends with an operator is no expression.
LEMMA NoFormEndsWithOperator ==
  ASSUME NEW q \in Seq(Entry), q # <<>>, IsOperator(Last(q))
  PROVE  Forms(q) = {}
<1>1. IsFormTable(FormsByDepth(q), q) /\ Forms(q) = FormsByDepth(q)[Len(q)][1][Len(q)]
  BY FormTable DEF Forms
<1>2. Len(q) \in 0..Len(q) /\ 1 \in 1..(Len(q) + 1)
  BY LastFacts
<1>3. ~Ends(q[Len(q)])
  BY Kinds DEF Ends, Last
<1> QED
  BY <1>1, <1>2, <1>3, FormsEnd

----------------------------------------------------------------------------
(* Packing as a function: what an entry makes of the stack and the request.  *)
Going(s, r) == [stack |-> s, request |-> r, phase |-> "packing"]
Stopped == [stack |-> <<>>, request |-> <<>>, phase |-> "failed"]
Config == [stack : Seq(Entry), request : Seq(Entry), phase : {"packing", "failed"}]

LastCloseAt(s, k) == k \in DOMAIN s /\ s[k] = Close /\ \A i \in (k + 1)..Len(s) : s[i] # Close
TopIsOperator(s) == s # <<>> /\ IsOperator(Last(s))
Unrolled(s, r, k) == Going(SubSeq(s, 1, k - 1), SubSeq(s, k + 1, Len(s)) \o r)

PackedOn(x, s, r) ==
  IF IsWord(x) THEN Going(s, <<x>> \o r)
  ELSE IF IsOperator(x)
  THEN IF TopIsOperator(s) THEN Going(Append(Front(s), x), <<Last(s)>> \o r)
       ELSE Going(Append(s, x), r)
  ELSE IF x = Close THEN Going(Append(s, Close), r)
  ELSE IF \E k : LastCloseAt(s, k) THEN Unrolled(s, r, CHOOSE k : LastCloseAt(s, k))
  ELSE Stopped

Packed(x, c) == IF c.phase = "failed" THEN Stopped ELSE PackedOn(x, c.stack, c.request)

LEMMA LastCloseIs ==
  ASSUME NEW s \in Seq(Entry), NEW k, LastCloseAt(s, k)
  PROVE  (CHOOSE i : LastCloseAt(s, i)) = k
<1>1. ASSUME NEW i, LastCloseAt(s, i) PROVE i = k
  <2>1. i \in 1..Len(s) /\ k \in 1..Len(s) /\ Len(s) \in Nat
    BY <1>1, LastFacts DEF LastCloseAt
  <2>2. ~(i < k) /\ ~(k < i)
    BY <1>1, <2>1 DEF LastCloseAt
  <2> QED
    BY <2>1, <2>2
<1> HIDE DEF LastCloseAt
<1> QED
  BY <1>1

LEMMA ConfigFacts ==
  /\ Stopped \in Config /\ Stopped.phase = "failed"
  /\ \A s, r \in Seq(Entry) : /\ Going(s, r) \in Config /\ Going(s, r).phase = "packing"
                              /\ Going(s, r).stack = s /\ Going(s, r).request = r
BY EmptyIsSeq DEF Going, Stopped, Config

LEMMA PackedIsConfig ==
  ASSUME NEW x \in Entry, NEW c \in Config
  PROVE  Packed(x, c) \in Config
<1> DEFINE s == c.stack
           r == c.request
<1>1. s \in Seq(Entry) /\ r \in Seq(Entry)
  BY DEF Config
<1> HIDE DEF s, r
<1>2. <<x>> \o r \in Seq(Entry) /\ Append(s, x) \in Seq(Entry)
  BY <1>1, PrependFacts, AppendFacts
<1>3. ASSUME TopIsOperator(s)
      PROVE  Append(Front(s), x) \in Seq(Entry) /\ <<Last(s)>> \o r \in Seq(Entry)
  <2>1. Front(s) \in Seq(Entry) /\ Last(s) \in Entry
    BY <1>1, <1>3, FrontFacts DEF TopIsOperator
  <2> QED
    BY <1>1, <2>1, PrependFacts, AppendFacts
<1>4. ASSUME NEW k, LastCloseAt(s, k)
      PROVE  Unrolled(s, r, k) \in Config
  <2>1. k \in 1..Len(s)
    BY <1>1, <1>4, LastFacts DEF LastCloseAt
  <2>2. /\ SubSeq(s, 1, k - 1) \in Seq(Entry)
        /\ SubSeq(s, k + 1, Len(s)) \in Seq(Entry)
    BY <1>1, <2>1, UnrollFacts
  <2>3. SubSeq(s, k + 1, Len(s)) \o r \in Seq(Entry)
    BY <1>1, <2>2, ConcatProperties
  <2> QED
    BY <2>2, <2>3, ConfigFacts DEF Unrolled
<1>5. ASSUME \E k : LastCloseAt(s, k)
      PROVE  Unrolled(s, r, CHOOSE k : LastCloseAt(s, k)) \in Config
  <2>1. PICK k : LastCloseAt(s, k)
    BY <1>5
  <2>2. (CHOOSE i : LastCloseAt(s, i)) = k
    BY <1>1, <2>1, LastCloseIs
  <2> QED
    BY <1>4, <2>1, <2>2
<1>6. Append(s, Close) \in Seq(Entry)
  BY <1>1, Kinds, AppendFacts
<1>7. PackedOn(x, s, r) \in Config
  BY <1>1, <1>2, <1>3, <1>5, <1>6, ConfigFacts DEF PackedOn
<1> QED
  BY <1>7, ConfigFacts DEF Packed, s, r

\* What the entries after p make of an empty stack and an empty request.
IsRun(w, e) ==
  /\ w \in [0..Len(e) -> Config] /\ w[Len(e)] = Going(<<>>, <<>>)
  /\ \A p \in 1..Len(e) : w[p - 1] = Packed(e[p], w[p])

LEMMA RunExists ==
  ASSUME NEW e \in Seq(Entry)
  PROVE  \E w : IsRun(w, e)
<1> DEFINE n == Len(e)
           base == Going(<<>>, <<>>)
           C == Config
           step == [t \in 1..n |-> [c \in C |-> Packed(e[n - t + 1], c)]]
<1>1. n \in Nat /\ \A p \in 1..n : e[p] \in Entry
  BY LastFacts
<1>2. base \in C
  BY EmptyIsSeq, ConfigFacts
<1>3. \A t \in 1..n : n - t + 1 \in 1..n
  BY <1>1
<1>4. step \in [1..n -> [C -> C]]
  <2>1. \A t \in 1..n, c \in Config : Packed(e[n - t + 1], c) \in Config
    BY <1>1, <1>3, PackedIsConfig
  <2> QED
    BY <2>1
<1>5. PICK v \in [0..n -> C] : v[0] = base /\ \A t \in 1..n : v[t] = step[t][v[t - 1]]
  <2> HIDE DEF n, base, step, C
  <2>1. n \in Nat
    BY <1>1
  <2>2. \E v \in [0..n -> C] : v[0] = base /\ \A t \in 1..n : v[t] = step[t][v[t - 1]]
    BY <1>2, <1>4, <2>1, WalkExists
  <2> QED
    BY <2>2
<1> DEFINE w == [p \in 0..n |-> v[n - p]]
<1>6. w \in [0..n -> Config] /\ w[n] = base
  <2>1. \A p \in 0..n : n - p \in 0..n
    BY <1>1
  <2>2. n \in 0..n /\ n - n = 0
    BY <1>1
  <2> HIDE DEF n, base, step
  <2> QED
    BY <1>5, <2>1, <2>2
<1>7. ASSUME NEW p \in 1..n PROVE w[p - 1] = Packed(e[p], w[p])
  <2> DEFINE t == n - p + 1
  <2>1. /\ t \in 1..n /\ n - t + 1 = p /\ n - (p - 1) = t /\ t - 1 = n - p /\ t - 1 \in 0..n
        /\ p \in 0..n /\ p - 1 \in 0..n
    BY <1>1
  <2> HIDE DEF n, t, base
  <2>2. v[t] = Packed(e[n - t + 1], v[t - 1])
    BY <1>5, <2>1
  <2>3. w[p - 1] = v[t] /\ w[p] = v[t - 1]
    BY <2>1
  <2> QED
    BY <2>1, <2>2, <2>3
<1> HIDE DEF w
<1> QED
  BY <1>6, <1>7 DEF IsRun

LEMMA AppendUndone ==
  ASSUME NEW t \in Seq(Entry), NEW y \in Entry
  PROVE  /\ Append(t, y) \in Seq(Entry) /\ Append(t, y) # <<>>
         /\ Last(Append(t, y)) = y /\ Front(Append(t, y)) = t
<1> DEFINE s == Append(t, y)
<1>1. /\ s \in Seq(Entry) /\ Len(s) = Len(t) + 1 /\ Len(t) \in Nat /\ s # <<>>
      /\ \A i \in 1..Len(t) : s[i] = t[i]
  BY AppendFacts
<1>2. Last(s) = y
  BY LastFacts
<1> HIDE DEF s
<1>3. /\ Front(s) \in Seq(Entry) /\ Len(Front(s)) = Len(s) - 1
      /\ \A i \in 1..(Len(s) - 1) : Front(s)[i] = s[i]
  BY <1>1, FrontFacts
<1>4. Len(Front(s)) = Len(t) /\ \A i \in 1..Len(t) : Front(s)[i] = t[i]
  BY <1>1, <1>3
<1> HIDE DEF Front
<1>5. Front(s) = t
  BY <1>3, <1>4, SeqEqual
<1> QED
  BY <1>1, <1>2, <1>5 DEF s

LEMMA PackedWord ==
  ASSUME NEW s \in Seq(Entry), NEW r \in Seq(Entry), NEW x, IsWord(x)
  PROVE  Packed(x, Going(s, r)) = Going(s, <<x>> \o r)
<1>1. Packed(x, Going(s, r)) = PackedOn(x, s, r)
  BY ConfigFacts DEF Packed
<1> QED
  BY <1>1 DEF PackedOn

LEMMA PackedOperator ==
  ASSUME NEW s \in Seq(Entry), NEW r \in Seq(Entry), NEW x, IsOperator(x)
  PROVE  /\ ~TopIsOperator(s) => Packed(x, Going(s, r)) = Going(Append(s, x), r)
         /\ \A t \in Seq(Entry), y \in Entry : s = Append(t, y) /\ IsOperator(y) =>
              Packed(x, Going(s, r)) = Going(Append(t, x), <<y>> \o r)
<1>1. ~IsWord(x)
  BY Kinds
<1>2. Packed(x, Going(s, r)) =
        IF TopIsOperator(s) THEN Going(Append(Front(s), x), <<Last(s)>> \o r)
        ELSE Going(Append(s, x), r)
  <2>1. Packed(x, Going(s, r)) = PackedOn(x, s, r)
    BY ConfigFacts DEF Packed
  <2> QED
    BY <1>1, <2>1 DEF PackedOn
<1>3. ASSUME NEW t \in Seq(Entry), NEW y \in Entry, s = Append(t, y), IsOperator(y)
      PROVE  TopIsOperator(s) /\ Front(s) = t /\ Last(s) = y
  BY <1>3, AppendUndone DEF TopIsOperator
<1> QED
  BY <1>2, <1>3

LEMMA PackedOnOperator ==
  ASSUME NEW t \in Seq(Entry), NEW y \in Entry, IsOperator(y), NEW r \in Seq(Entry),
         NEW x, IsOperator(x)
  PROVE  Packed(x, Going(Append(t, y), r)) = Going(Append(t, x), <<y>> \o r)
<1> DEFINE s == Append(t, y)
<1>1. /\ s \in Seq(Entry)
      /\ \A u \in Seq(Entry), z \in Entry : s = Append(u, z) /\ IsOperator(z) =>
           Packed(x, Going(s, r)) = Going(Append(u, x), <<z>> \o r)
  <2>1. s \in Seq(Entry)
    BY AppendFacts
  <2> HIDE DEF s
  <2> QED
    BY <2>1, PackedOperator
<1> QED
  BY <1>1

LEMMA PackedClose ==
  ASSUME NEW s \in Seq(Entry), NEW r \in Seq(Entry)
  PROVE  Packed(Close, Going(s, r)) = Going(Append(s, Close), r)
<1>1. Packed(Close, Going(s, r)) = PackedOn(Close, s, r)
  BY ConfigFacts DEF Packed
<1> QED
  BY <1>1, Kinds DEF PackedOn

LEMMA PackedOpen ==
  ASSUME NEW s \in Seq(Entry), NEW r \in Seq(Entry), NEW k, LastCloseAt(s, k)
  PROVE  Packed(Open, Going(s, r)) = Unrolled(s, r, k)
<1>1. Packed(Open, Going(s, r)) = PackedOn(Open, s, r)
  BY ConfigFacts DEF Packed
<1>2. (CHOOSE i : LastCloseAt(s, i)) = k
  BY LastCloseIs
<1> QED
  BY <1>1, <1>2, Kinds DEF PackedOn

\* Packing that goes on with form f at the head of the request.
Sent(s, f, r) == Going(s, f \o r)

\* What a form leaves when its tokens are packed onto stack s and request r: it is
\* in the request, or its operator is still on the stack.
Leaves(s, r, b, f) ==
  \/ b = Sent(s, f, r)
  \/ \E y \in Entry, g \in Seq(Entry) :
       IsOperator(y) /\ f = <<y>> \o g /\ b = Sent(Append(s, y), g, r)

LEMMA OneMore ==
  ASSUME NEW y \in Entry, NEW g \in Seq(Entry), NEW r \in Seq(Entry)
  PROVE  /\ g \o r \in Seq(Entry) /\ <<y>> \o g \in Seq(Entry)
         /\ <<y>> \o (g \o r) = (<<y>> \o g) \o r
<1>1. <<y>> \in Seq(Entry)
  BY SingleFacts
<1>2. g \o r \in Seq(Entry) /\ <<y>> \o g \in Seq(Entry)
  BY <1>1, ConcatProperties
<1> DEFINE t == <<y>>
<1> HIDE DEF t
<1>3. t \in Seq(Entry)
  BY <1>1 DEF t
<1>4. t \o (g \o r) = (t \o g) \o r
  BY <1>3, ConcatAssociative
<1> QED
  BY <1>2, <1>4 DEF t

LEMMA OperatorTakesOver ==
  ASSUME NEW s \in Seq(Entry), NEW r \in Seq(Entry), NEW f \in Seq(Entry), NEW b,
         ~TopIsOperator(s), Leaves(s, r, b, f), NEW x \in Entry, IsOperator(x)
  PROVE  Packed(x, b) = Sent(Append(s, x), f, r)
<1> SUFFICES Packed(x, b) = Going(Append(s, x), f \o r)
  BY DEF Sent
<1>1. CASE b = Going(s, f \o r)
  <2> DEFINE z == f \o r
  <2>1. z \in Seq(Entry)
    BY ConcatProperties
  <2>2. b = Going(s, z)
    BY <1>1
  <2> HIDE DEF z
  <2>3. Packed(x, Going(s, z)) = Going(Append(s, x), z)
    BY <2>1, PackedOperator
  <2> QED
    BY <2>2, <2>3 DEF z
<1>2. ASSUME NEW y \in Entry, NEW g \in Seq(Entry), IsOperator(y), f = <<y>> \o g,
             b = Going(Append(s, y), g \o r)
      PROVE  Packed(x, b) = Going(Append(s, x), f \o r)
  <2>1. g \o r \in Seq(Entry) /\ <<y>> \o (g \o r) = f \o r
    BY <1>2, OneMore
  <2>2. Append(s, y) \in Seq(Entry)
    BY AppendFacts
  <2>3. Packed(x, Going(Append(s, y), g \o r)) = Going(Append(s, x), <<y>> \o (g \o r))
    <3> DEFINE z == g \o r
    <3>1. z \in Seq(Entry) /\ IsOperator(y)
      BY <1>2, <2>1
    <3> HIDE DEF z
    <3>2. Packed(x, Going(Append(s, y), z)) = Going(Append(s, x), <<y>> \o z)
      BY <3>1, PackedOnOperator
    <3> QED
      BY <3>2 DEF z
  <2> QED
    BY <1>2, <2>1, <2>3
<1> QED
  BY <1>1, <1>2 DEF Leaves, Sent

LEMMA OpenTakesOver ==
  ASSUME NEW s \in Seq(Entry), NEW r \in Seq(Entry), NEW f \in Seq(Entry), NEW b,
         Leaves(Append(s, Close), r, b, f)
  PROVE  Packed(Open, b) = Sent(s, f, r)
<1> SUFFICES Packed(Open, b) = Going(s, f \o r)
  BY DEF Sent
<1> DEFINE c == Append(s, Close)
           n == Len(s)
           k == n + 1
<1>1. /\ c \in Seq(Entry) /\ Len(c) = k /\ n \in Nat /\ c[k] = Close
      /\ \A i \in 1..n : c[i] = s[i]
      /\ DOMAIN c = 1..k
  BY Kinds, AppendFacts
<1>2. f \o r \in Seq(Entry)
  BY ConcatProperties
<1>0. k = n + 1 /\ k - 1 = n
  BY <1>1
<1> HIDE DEF c, n, k
<1>3. CASE b = Going(c, f \o r)
  <2> DEFINE rest == SubSeq(c, 1, k - 1)
             ops  == SubSeq(c, k + 1, Len(c))
  <2>1. LastCloseAt(c, k)
    BY <1>0, <1>1 DEF LastCloseAt
  <2>2. Packed(Open, b) = Unrolled(c, f \o r, k)
    BY <1>1, <1>2, <1>3, <2>1, PackedOpen
  <2>3. k \in 1..Len(c)
    BY <1>0, <1>1
  <2>4. /\ ops \in Seq(Entry) /\ Len(ops) = Len(c) - k
        /\ rest \in Seq(Entry) /\ Len(rest) = k - 1 /\ \A i \in 1..(k - 1) : rest[i] = c[i]
    BY <1>1, <2>3, UnrollFacts
  <2>5. Unrolled(c, f \o r, k) = Going(rest, ops \o (f \o r))
    BY DEF Unrolled
  <2> HIDE DEF ops, rest
  <2>6. rest = s
    <3>1. Len(rest) = Len(s) /\ \A i \in 1..Len(rest) : rest[i] = s[i]
      BY <1>0, <1>1, <2>4 DEF n
    <3> QED
      BY <2>4, <3>1, SeqEqual
  <2>7. ops = <<>>
    <3>1. Len(ops) = 0
      BY <1>0, <1>1, <2>4
    <3> QED
      BY <2>4, <3>1, EmptySeq
  <2>8. <<>> \o (f \o r) = f \o r
    BY <1>2, ConcatEmptySeq
  <2> QED
    BY <2>2, <2>5, <2>6, <2>7, <2>8
<1>4. ASSUME NEW y \in Entry, NEW g \in Seq(Entry), IsOperator(y), f = <<y>> \o g,
             b = Going(Append(c, y), g \o r)
      PROVE  Packed(Open, b) = Going(s, f \o r)
  <2> DEFINE t == Append(c, y)
             rest == SubSeq(t, 1, k - 1)
             ops  == SubSeq(t, k + 1, Len(t))
  <2>1. /\ t \in Seq(Entry) /\ Len(t) = k + 1 /\ t[k + 1] = y /\ \A i \in 1..k : t[i] = c[i]
        /\ DOMAIN t = 1..(k + 1)
    BY <1>1, AppendFacts
  <2>2. g \o r \in Seq(Entry) /\ <<y>> \o (g \o r) = f \o r
    BY <1>4, OneMore
  <2>3. Packed(Open, b) = Unrolled(t, g \o r, k)
    <3>1. y # Close
      BY <1>4, Kinds
    <3> HIDE DEF t
    <3>2. LastCloseAt(t, k)
      BY <1>0, <1>1, <2>1, <3>1 DEF LastCloseAt
    <3>3. b = Going(t, g \o r)
      BY <1>4 DEF t
    <3> QED
      BY <2>1, <2>2, <3>2, <3>3, PackedOpen
  <2>4. Unrolled(t, g \o r, k) = Going(rest, ops \o (g \o r))
    BY DEF Unrolled
  <2> HIDE DEF t
  <2>5. k \in 1..Len(t)
    BY <1>0, <1>1, <2>1
  <2>6. /\ ops \in Seq(Entry) /\ Len(ops) = Len(t) - k
        /\ \A i \in 1..(Len(t) - k) : ops[i] = t[k + i]
        /\ rest \in Seq(Entry) /\ Len(rest) = k - 1 /\ \A i \in 1..(k - 1) : rest[i] = t[i]
    BY <2>1, <2>5, UnrollFacts
  <2> HIDE DEF ops, rest
  <2>7. rest = s
    <3>1. Len(rest) = Len(s) /\ \A i \in 1..Len(rest) : rest[i] = s[i]
      BY <1>0, <1>1, <2>1, <2>6 DEF n
    <3> QED
      BY <2>6, <3>1, SeqEqual
  <2>8. ops = <<y>>
    <3>1. Len(ops) = 1 /\ ops[1] = y
      BY <1>0, <1>1, <2>1, <2>6
    <3>2. <<y>> \in Seq(Entry) /\ Len(<<y>>) = 1 /\ <<y>>[1] = y
      BY SingleFacts
    <3>3. \A i \in 1..Len(ops) : ops[i] = <<y>>[i]
      BY <3>1, <3>2
    <3> QED
      BY <2>6, <3>1, <3>2, <3>3, SeqEqual
  <2> QED
    BY <2>2, <2>3, <2>4, <2>7, <2>8
<1> QED
  BY <1>3, <1>4 DEF Leaves, Sent, c

\* A run at the places of the query: the entry of a token, and the AND before it.
LEMMA RunAtPlaces ==
  ASSUME NEW e \in Seq(Entry), NEW q \in Seq(Entry), NEW place, IsPlacing(place, e, q),
         NEW w, IsRun(w, e)
  PROVE  /\ \A i \in 1..Len(q) : w[place[i] - 1] = Packed(q[i], w[place[i]])
         /\ \A i \in 1..(Len(q) - 1) :
              IF NeedsAnd(q[i], q[i + 1])
              THEN w[place[i]] = Packed(And, w[place[i + 1] - 1])
              ELSE w[place[i]] = w[place[i + 1] - 1]
<1> DEFINE m == Len(q)
           n == Len(e)
<1>1. m \in Nat /\ n \in Nat
  BY LastFacts
<1>2. \A i \in 1..m : place[i] \in 1..n /\ e[place[i]] = q[i]
  BY PlacingFacts DEF IsPlacing
<1>3. \A p \in 1..n : w[p - 1] = Packed(e[p], w[p])
  BY DEF IsRun
<1>4. \A i \in 1..m : w[place[i] - 1] = Packed(q[i], w[place[i]])
  BY <1>2, <1>3
<1>5. ASSUME NEW i \in 1..(m - 1)
      PROVE  IF NeedsAnd(q[i], q[i + 1])
             THEN w[place[i]] = Packed(And, w[place[i + 1] - 1])
             ELSE w[place[i]] = w[place[i + 1] - 1]
  <2> DEFINE k == i + 1
  <2>1. k \in 1..m /\ k > 1 /\ k - 1 = i /\ i \in 1..m
    BY <1>1
  <2> HIDE DEF k
  <2>2. IF NeedsAnd(q[i], q[k])
        THEN place[k] = place[i] + 2 /\ e[place[k] - 1] = And
        ELSE place[k] = place[i] + 1
    BY <2>1 DEF IsPlacing
  <2>3. place[k] \in 1..n /\ place[i] \in 1..n
    BY <1>2, <2>1
  <2>4. CASE NeedsAnd(q[i], q[k])
    <3> DEFINE p == place[k] - 1
    <3>1. p \in 1..n /\ p - 1 = place[i] /\ e[p] = And
      BY <2>2, <2>3, <2>4
    <3> HIDE DEF p
    <3>2. w[place[i]] = Packed(And, w[p])
      BY <1>3, <3>1
    <3> QED
      BY <2>4, <3>2 DEF p, k
  <2>5. CASE ~NeedsAnd(q[i], q[k])
    <3>1. place[k] - 1 = place[i]
      BY <2>2, <2>3, <2>5
    <3> QED
      BY <2>5, <3>1 DEF k
  <2> QED
    BY <2>4, <2>5
<1> QED
  BY <1>4, <1>5

\* Every form in g is what packing its tokens leaves.
Packable(q, place, w, g) ==
  \A i \in 1..Len(q), j \in 1..Len(q) : \A f \in g[i][j], s, r \in Seq(Entry) :
    f \in Seq(Entry) /\ (w[place[j]] = Going(s, r) /\ ~TopIsOperator(s) =>
                           Leaves(s, r, w[place[i] - 1], f))

\* A term leaves the stack as it was.
TermPacked(f, a, b) ==
  \A s, r \in Seq(Entry) : a = Going(s, r) => f \in Seq(Entry) /\ b = Sent(s, f, r)

LEMMA TermPacks ==
  ASSUME NEW e \in Seq(Entry), NEW q \in Seq(Entry), NEW place, IsPlacing(place, e, q),
         NEW w, IsRun(w, e), NEW g, Packable(q, place, w, g),
         \A i \in 1..(Len(q) + 1), j \in 0..Len(q) : g[i][j] # {} => i <= j
  PROVE  \A i, j \in 1..Len(q) : \A f :
           IsTermForm(q, g, i, j, f) => TermPacked(f, w[place[j]], w[place[i] - 1])
<1> SUFFICES ASSUME NEW i \in 1..Len(q), NEW j \in 1..Len(q), NEW f, IsTermForm(q, g, i, j, f),
                    NEW s \in Seq(Entry), NEW r \in Seq(Entry), w[place[j]] = Going(s, r)
             PROVE  f \in Seq(Entry) /\ w[place[i] - 1] = Sent(s, f, r)
  BY DEF TermPacked
<1> DEFINE m == Len(q)
<1>1. m \in Nat /\ \A k \in 1..m : q[k] \in Entry
  BY LastFacts
<1>2. \A k \in 1..m : w[place[k] - 1] = Packed(q[k], w[place[k]])
  BY RunAtPlaces
<1>3. \A k \in 1..(m - 1) : ~NeedsAnd(q[k], q[k + 1]) => w[place[k]] = w[place[k + 1] - 1]
  BY RunAtPlaces
<1>4. CASE i = j /\ IsWord(q[i]) /\ f = <<q[i]>>
  <2>1. f \in Seq(Entry)
    BY <1>1, <1>4, SingleFacts
  <2>2. Packed(q[i], Going(s, r)) = Going(s, <<q[i]>> \o r)
    BY <1>4, PackedWord
  <2> QED
    BY <1>2, <1>4, <2>1, <2>2 DEF Sent
<1>5. CASE i < j /\ q[i] = Open /\ q[j] = Close /\ f \in g[i + 1][j - 1]
  <2> DEFINE a == i + 1
             b == j - 1
  <2>1. /\ a \in 1..(m + 1) /\ b \in 0..m /\ i \in 1..(m - 1) /\ b + 1 = j
    BY <1>1, <1>5
  <2>2. a <= b
    BY <1>5, <2>1
  <2>3. a \in 1..m /\ b \in 1..m /\ b \in 1..(m - 1)
    BY <1>1, <2>1, <2>2
  <2>4. ~NeedsAnd(q[i], q[a]) /\ ~NeedsAnd(q[b], q[b + 1])
    BY <1>5, <2>1, Kinds DEF NeedsAnd
  <2>5. w[place[b]] = w[place[j] - 1] /\ w[place[i]] = w[place[a] - 1]
    BY <1>3, <2>1, <2>3, <2>4
  <2> HIDE DEF a, b
  <2>6. w[place[b]] = Going(Append(s, Close), r)
    BY <1>2, <1>5, <2>5, PackedClose
  <2> DEFINE c == Append(s, Close)
  <2>7. c \in Seq(Entry) /\ ~TopIsOperator(c)
    BY Kinds, AppendUndone DEF TopIsOperator
  <2>8. f \in Seq(Entry) /\ Leaves(c, r, w[place[a] - 1], f)
    <3>1. f \in g[a][b] /\ w[place[b]] = Going(c, r)
      BY <1>5, <2>6 DEF a, b
    <3> HIDE DEF c
    <3> QED
      BY <2>3, <2>7, <3>1 DEF Packable
  <2>9. Packed(Open, w[place[i]]) = Sent(s, f, r)
    BY <2>5, <2>8, OpenTakesOver
  <2> QED
    BY <1>2, <1>5, <2>8, <2>9
<1> QED
  BY <1>4, <1>5 DEF IsTermForm

\* The operator y between a term that ends at k and an expression that begins at a,
\* which may be left out, and what packing it after the expression leaves.
Between(q, k, a, y) ==
  /\ Ends(q[k])
  /\ \/ a = k + 2 /\ y = q[k + 1] /\ IsOperator(y)
     \/ a = k + 1 /\ y = And /\ Begins(q[a])

OnStack(b, s, y, f, r) ==
  /\ f \in Seq(Entry) /\ y \in Entry /\ IsOperator(y)
  /\ b = Sent(Append(s, y), f, r)

LEMMA BetweenPacks ==
  ASSUME NEW e \in Seq(Entry), NEW q \in Seq(Entry), NEW place, IsPlacing(place, e, q),
         NEW w, IsRun(w, e), NEW g, Packable(q, place, w, g),
         NEW j \in 1..Len(q), NEW s \in Seq(Entry), NEW r \in Seq(Entry),
         w[place[j]] = Going(s, r), ~TopIsOperator(s)
  PROVE  \A k, a \in 1..Len(q) : \A y : \A f \in g[a][j] :
           Between(q, k, a, y) => OnStack(w[place[k]], s, y, f, r)
<1> SUFFICES ASSUME NEW k \in 1..Len(q), NEW a \in 1..Len(q), NEW y, NEW f \in g[a][j],
                    Between(q, k, a, y)
             PROVE  OnStack(w[place[k]], s, y, f, r)
  OBVIOUS
<1> DEFINE m == Len(q)
<1>1. m \in Nat /\ \A i \in 1..m : q[i] \in Entry
  BY LastFacts
<1>2. \A i \in 1..m : w[place[i] - 1] = Packed(q[i], w[place[i]])
  BY RunAtPlaces
<1>3. \A i \in 1..(m - 1) :
        IF NeedsAnd(q[i], q[i + 1])
        THEN w[place[i]] = Packed(And, w[place[i + 1] - 1])
        ELSE w[place[i]] = w[place[i + 1] - 1]
  BY RunAtPlaces
<1>4. f \in Seq(Entry) /\ Leaves(s, r, w[place[a] - 1], f)
  BY DEF Packable
<1>5. CASE a = k + 2 /\ y = q[k + 1] /\ IsOperator(y)
  <2> DEFINE b == k + 1
  <2>1. /\ b \in 1..m /\ b \in 1..(m - 1) /\ k \in 1..(m - 1) /\ b + 1 = a /\ y = q[b]
    BY <1>1, <1>5
  <2>2. ~NeedsAnd(q[b], q[b + 1]) /\ ~NeedsAnd(q[k], q[k + 1])
    BY <1>5, <2>1, Kinds DEF NeedsAnd
  <2>3. w[place[b]] = w[place[a] - 1] /\ w[place[k]] = w[place[b] - 1]
    BY <1>3, <2>1, <2>2
  <2>4. y \in Entry /\ w[place[b] - 1] = Packed(y, w[place[b]])
    BY <1>1, <1>2, <2>1
  <2> HIDE DEF b
  <2>5. Packed(y, w[place[b]]) = Sent(Append(s, y), f, r)
    BY <1>4, <1>5, <2>3, <2>4, OperatorTakesOver
  <2> QED
    BY <1>4, <1>5, <2>3, <2>4, <2>5 DEF OnStack
<1>6. CASE a = k + 1 /\ y = And /\ Begins(q[a])
  <2>1. k \in 1..(m - 1) /\ NeedsAnd(q[k], q[k + 1])
    BY <1>1, <1>6 DEF NeedsAnd, Between, Begins, Ends
  <2>2. w[place[k]] = Packed(And, w[place[a] - 1])
    BY <1>3, <1>6, <2>1
  <2>3. Packed(And, w[place[a] - 1]) = Sent(Append(s, And), f, r)
    BY <1>4, Kinds, OperatorTakesOver
  <2> QED
    BY <1>4, <1>6, <2>2, <2>3, Kinds DEF OnStack
<1> QED
  BY <1>5, <1>6 DEF Between

LEMMA JoinedPacks ==
  ASSUME NEW s \in Seq(Entry), NEW r \in Seq(Entry), NEW a, NEW b, NEW y, NEW t, NEW l,
         OnStack(a, s, y, t, r), TermPacked(l, a, b)
  PROVE  Leaves(s, r, b, Binary(y, l, t))
<1> DEFINE c == Append(s, y)
           z == t \o r
           lt == l \o t
<1>1. t \in Seq(Entry) /\ y \in Entry /\ IsOperator(y)
  BY DEF OnStack
<1>2. c \in Seq(Entry) /\ z \in Seq(Entry)
  BY <1>1, AppendFacts, ConcatProperties
<1>3. a = Going(c, z)
  BY DEF OnStack, Sent
<1> HIDE DEF c, z
<1>4. l \in Seq(Entry) /\ b = Sent(c, l, z)
  BY <1>2, <1>3 DEF TermPacked
<1>5. lt \in Seq(Entry) /\ l \o (t \o r) = lt \o r
  BY SMTT(20), <1>1, <1>4, ConcatProperties, ConcatAssociative
<1>6. Binary(y, l, t) = <<y>> \o lt
  BY <1>1, <1>4, OneMore DEF Binary
<1>7. b = Sent(Append(s, y), lt, r)
  BY <1>4, <1>5 DEF Sent, c, z
<1> HIDE DEF lt
<1> QED
  BY <1>1, <1>5, <1>6, <1>7 DEF Leaves

LEMMA FormsArePackable ==
  ASSUME NEW e \in Seq(Entry), NEW q \in Seq(Entry), NEW place, IsPlacing(place, e, q),
         NEW w, IsRun(w, e), NEW F, IsFormTable(F, q)
  PROVE  \A d \in 0..Len(q) : Packable(q, place, w, F[d])
<1> DEFINE m == Len(q)
           G == {d \in 0..m : Packable(q, place, w, F[d])}
<1>1. m \in Nat
  BY LastFacts
<1>2. 0 \in G
  <2>1. \A i \in 1..m, j \in 1..m : F[0][i][j] = {}
    <3>1. \A i \in 1..m, j \in 1..m : i \in 1..(m + 1) /\ j \in 0..m
      BY <1>1
    <3> QED
      BY <3>1 DEF IsFormTable
  <2> QED
    BY <1>1, <2>1 DEF Packable
<1>3. ASSUME NEW d \in 1..m, d - 1 \in G PROVE d \in G
  <2> DEFINE g == F[d - 1]
  <2>1. Packable(q, place, w, g)
    BY <1>3
  <2>2. \A i \in 1..(m + 1), j \in 0..m : g[i][j] # {} => i <= j /\ Begins(q[i]) /\ Ends(q[j])
    <3>1. d - 1 \in 0..m
      BY <1>1
    <3> QED
      BY <3>1, FormsEnd
  <2>4. \A i, j \in 1..m : \A f :
          IsTermForm(q, g, i, j, f) => TermPacked(f, w[place[j]], w[place[i] - 1])
    <3>1. \A i \in 1..(Len(q) + 1), j \in 0..Len(q) : g[i][j] # {} => i <= j
      BY <2>2
    <3> HIDE DEF g
    <3> QED
      BY <2>1, <3>1, TermPacks
  <2>3. ASSUME NEW i \in 1..m, NEW j \in 1..m, NEW f \in F[d][i][j],
               NEW s \in Seq(Entry), NEW r \in Seq(Entry)
        PROVE  f \in Seq(Entry) /\ (w[place[j]] = Going(s, r) /\ ~TopIsOperator(s) =>
                                      Leaves(s, r, w[place[i] - 1], f))
    <3>1. f \in Seq(Entry)
      <4>1. d \in 0..m /\ i \in 1..(m + 1) /\ j \in 0..m
        BY <1>1
      <4>2. F[d] \in Tables(q)
        BY <4>1 DEF IsFormTable
      <4>3. F[d][i] \in [0..m -> SUBSET Seq(Entry)]
        BY <4>1, <4>2 DEF Tables
      <4> QED
        BY <2>3, <4>1, <4>3
    <3>2. SUFFICES ASSUME w[place[j]] = Going(s, r), ~TopIsOperator(s)
                   PROVE  Leaves(s, r, w[place[i] - 1], f)
      BY <3>1
    <3>3. IsTermForm(q, g, i, j, f) \/ IsJoinedForm(q, g, i, j, f)
      <4>1. i \in 1..(m + 1) /\ j \in 0..m
        BY <1>1
      <4> QED
        BY <2>3, <4>1, FormIs
    <3>4. CASE IsTermForm(q, g, i, j, f)
      <4>1. w[place[i] - 1] = Sent(s, f, r)
        <5> HIDE DEF g
        <5>1. TermPacked(f, w[place[j]], w[place[i] - 1])
          BY <2>4, <3>4
        <5> QED
          BY <3>2, <5>1 DEF TermPacked
      <4> QED
        BY <4>1 DEF Leaves
    <3>5. ASSUME NEW k \in i..(j - 1), NEW l \in TermForms(q, g, i, k), NEW a \in {k + 1, k + 2},
                 NEW t \in g[a][j], NEW y, f = Binary(y, l, t),
                 \/ a = k + 2 /\ y = q[k + 1] /\ IsOperator(y)
                 \/ a = k + 1 /\ y = And /\ ~IsOperator(q[k + 1])
          PROVE  Leaves(s, r, w[place[i] - 1], f)
      <4>1. k \in 1..m /\ i \in Int /\ k \in Int /\ a \in 1..(m + 1) /\ j \in 0..m
        BY <1>1
      <4>2. IsTermForm(q, g, i, k, l)
        BY <3>5, <4>1, TermFormsAre
      <4>3. Ends(q[k])
        BY <4>1, <4>2, TermEnds
      <4>4. a <= j /\ Begins(q[a])
        BY <2>2, <3>5, <4>1
      <4>5. a \in 1..m
        BY <1>1, <4>1, <4>4
      <4>6. OnStack(w[place[k]], s, y, t, r)
        <5> HIDE DEF g
        <5>1. \A u, v \in 1..Len(q) : \A z : \A x \in g[v][j] :
                Between(q, u, v, z) => OnStack(w[place[u]], s, z, x, r)
          BY <2>1, <3>2, BetweenPacks
        <5>2. Between(q, k, a, y)
          BY <3>5, <4>3, <4>4 DEF Between
        <5>3. t \in g[a][j]
          BY <3>5
        <5> QED
          BY <4>1, <4>5, <5>1, <5>2, <5>3
      <4>7. TermPacked(l, w[place[k]], w[place[i] - 1])
        <5> HIDE DEF g
        <5> QED
          BY <2>4, <4>1, <4>2
      <4>8. Leaves(s, r, w[place[i] - 1], Binary(y, l, t))
        BY <4>6, <4>7, JoinedPacks
      <4> QED
        BY <3>5, <4>8
    <3>6. CASE IsJoinedForm(q, g, i, j, f)
      <4>1. PICK k \in i..(j - 1) : \E l \in TermForms(q, g, i, k) :
              \/ IsOperator(q[k + 1]) /\ \E t \in g[k + 2][j] : f = Binary(q[k + 1], l, t)
              \/ ~IsOperator(q[k + 1]) /\ \E t \in g[k + 1][j] : f = Binary(And, l, t)
        BY <3>6 DEF IsJoinedForm
      <4>2. PICK l \in TermForms(q, g, i, k) :
              \/ IsOperator(q[k + 1]) /\ \E t \in g[k + 2][j] : f = Binary(q[k + 1], l, t)
              \/ ~IsOperator(q[k + 1]) /\ \E t \in g[k + 1][j] : f = Binary(And, l, t)
        BY <4>1
      <4> HIDE DEF g
      <4>3. CASE IsOperator(q[k + 1]) /\ \E t \in g[k + 2][j] : f = Binary(q[k + 1], l, t)
        BY <3>5, <4>3
      <4>4. CASE ~IsOperator(q[k + 1]) /\ \E t \in g[k + 1][j] : f = Binary(And, l, t)
        BY <3>5, <4>4
      <4> QED
        BY <4>2, <4>3, <4>4
    <3> QED
      BY <3>3, <3>4, <3>6
  <2> QED
    BY <1>1, <2>3 DEF Packable
<1>4. 0..m \subseteq G
  <2> HIDE DEF G
  <2> QED
    BY <1>1, <1>2, <1>3, UpTo
<1> QED
  BY <1>4

LEMMA StoppedStays ==
  ASSUME NEW e \in Seq(Entry), NEW w, IsRun(w, e), NEW k \in 0..Len(e), w[k] = Stopped
  PROVE  w[0] = Stopped
<1> DEFINE G == {d \in 0..k : w[k - d] = Stopped}
<1>1. Len(e) \in Nat /\ k \in Nat
  BY LastFacts
<1>2. 0 \in G
  BY <1>1
<1>3. ASSUME NEW d \in 1..k, d - 1 \in G PROVE d \in G
  <2> DEFINE p == k - d + 1
  <2>1. p \in 1..Len(e) /\ p - 1 = k - d /\ p = k - (d - 1)
    BY <1>1
  <2>2. w[p] = Stopped
    BY <1>3, <2>1
  <2> HIDE DEF p
  <2>3. w[p - 1] = Packed(e[p], Stopped)
    BY <2>1, <2>2 DEF IsRun
  <2>4. w[p - 1] = Stopped
    BY <2>3, ConfigFacts DEF Packed
  <2> QED
    BY <1>1, <2>1, <2>4
<1>4. 0..k \subseteq G
  <2> HIDE DEF G
  <2> QED
    BY <1>1, <1>2, <1>3, UpTo
<1>5. k \in G /\ k - k = 0
  BY <1>1, <1>4
<1> QED
  BY <1>5

\* What the form of the whole query leaves at the end.
LEMMA FormLeaves ==
  ASSUME NEW e, NEW q, IsRead(e, q), NEW w, IsRun(w, e), NEW f \in Forms(q)
  PROVE  f \in Seq(Entry) /\ Leaves(<<>>, <<>>, w[0], f)
<1> DEFINE m == Len(q)
           F == FormsByDepth(q)
<1>1. e \in Seq(Entry) /\ q \in Seq(Entry) /\ m \in Nat /\ m \in 0..m
  BY LastFacts DEF IsRead
<1>2. PICK place : IsPlacing(place, e, q)
  BY DEF IsRead
<1>3. IsFormTable(F, q) /\ f \in F[m][1][m]
  BY <1>1, FormTable DEF Forms
<1> HIDE DEF F
<1>4. 1 \in 1..m /\ m \in 1..m
  <2>1. 1 \in 1..(m + 1)
    BY <1>1
  <2>2. 1 <= m
    BY <1>1, <1>3, <2>1, FormsEnd
  <2> QED
    BY <1>1, <2>2
<1>5. Packable(q, place, w, F[m])
  BY <1>1, <1>2, <1>3, FormsArePackable
<1>6. w[place[m]] = Going(<<>>, <<>>)
  BY <1>2 DEF IsPlacing, IsRun
<1>7. place[1] - 1 = 0
  BY <1>2, <1>4 DEF IsPlacing
<1>8. <<>> \in Seq(Entry) /\ ~TopIsOperator(<<>>)
  BY EmptyIsSeq DEF TopIsOperator
<1>9. f \in Seq(Entry) /\ Leaves(<<>>, <<>>, w[place[1] - 1], f)
  BY <1>3, <1>4, <1>5, <1>6, <1>8 DEF Packable
<1> QED
  BY <1>7, <1>9

LEMMA LeftIs ==
  ASSUME NEW s \in Seq(Entry), NEW r \in Seq(Entry), NEW f \in Seq(Entry), NEW b,
         Leaves(<<>>, <<>>, b, f)
  PROVE  /\ b # Stopped
         /\ b = Going(s, r) => \/ s = <<>> /\ r = f
                               \/ s # <<>> /\ IsOperator(s[1]) /\ <<s[1]>> \o r = f
<1>1. CASE b = Sent(<<>>, f, <<>>)
  <2>1. f \o <<>> = f /\ <<>> \in Seq(Entry)
    BY EmptyIsSeq, ConcatEmptySeq
  <2>2. b = Going(<<>>, f)
    BY <1>1, <2>1 DEF Sent
  <2> DEFINE t == <<>>
  <2>3. t \in Seq(Entry) /\ b = Going(t, f)
    BY <2>1, <2>2
  <2> HIDE DEF t
  <2>4. b # Stopped /\ (b = Going(s, r) => s = t /\ r = f)
    BY <2>3, ConfigFacts
  <2> QED
    BY <2>4 DEF t
<1>2. ASSUME NEW y \in Entry, NEW g \in Seq(Entry), IsOperator(y), f = <<y>> \o g,
             b = Sent(Append(<<>>, y), g, <<>>)
      PROVE  /\ b # Stopped
             /\ b = Going(s, r) => s # <<>> /\ IsOperator(s[1]) /\ <<s[1]>> \o r = f
  <2> DEFINE t == Append(<<>>, y)
  <2>1. t \in Seq(Entry) /\ t # <<>> /\ t[1] = y
    BY EmptyIsSeq, AppendFacts
  <2>2. g \o <<>> = g
    BY ConcatEmptySeq
  <2> HIDE DEF t
  <2>3. b = Going(t, g)
    BY <1>2, <2>2 DEF Sent, t
  <2>4. b # Stopped /\ (b = Going(s, r) => s = t /\ r = g)
    BY <2>1, <2>3, ConfigFacts
  <2> QED
    BY <1>2, <2>1, <2>4
<1> QED
  BY <1>1, <1>2 DEF Leaves

\* Packing is the function, one entry at a time.
PackRuns ==
  phase = "packing" => \A w : IsRun(w, entries) => w[next] = Going(stack, request)

LEMMA PackingRuns ==
  ASSUME TypeOK, PackRuns, PackWord \/ PackOperator \/ PackClose \/ PackOpen
  PROVE  /\ phase' = "packing" => PackRuns'
         /\ phase' = "failed" => \A w : IsRun(w, entries) => w[next - 1] = Stopped
         /\ phase = "packing" /\ next \in 1..Len(entries) /\ UNCHANGED <<query, tokens, entries, verbatim>>
         /\ phase' \in {"packing", "failed"}
<1> DEFINE x == entries[next]
<1>1. phase = "packing" /\ next > 0 /\ UNCHANGED <<query, tokens, entries, verbatim>>
  BY DEF PackWord, PackOperator, PackClose, PackOpen, Packing
<1>2. /\ next \in 1..Len(entries) /\ stack \in Seq(Entry) /\ request \in Seq(Entry)
      /\ x \in Entry /\ next - 1 \in 0..Len(entries)
  BY <1>1, LastFacts DEF TypeOK
<1>3. ASSUME NEW w, IsRun(w, entries) PROVE w[next - 1] = Packed(x, Going(stack, request))
  BY <1>1, <1>2, <1>3 DEF IsRun, PackRuns
<1> SUFFICES /\ phase' = "packing" =>
                  next' = next - 1 /\ Packed(x, Going(stack, request)) = Going(stack', request')
             /\ phase' = "failed" => Packed(x, Going(stack, request)) = Stopped
             /\ phase' \in {"packing", "failed"}
  <2> HIDE DEF x
  <2> QED
    BY <1>1, <1>2, <1>3 DEF PackRuns
<1>4. Packed(x, Going(stack, request)) = PackedOn(x, stack, request)
  BY <1>2, ConfigFacts DEF Packed
<1>5. CASE PackWord
  BY <1>1, <1>4, <1>5 DEF PackWord, PackedOn
<1>6. CASE PackOperator
  <2>1. IsOperator(x) /\ ~IsWord(x) /\ phase' = "packing" /\ next' = next - 1
    BY <1>1, <1>6, Kinds DEF PackOperator
  <2>2. CASE TopIsOperator(stack)
    <3>1. request' = <<Last(stack)>> \o request /\ stack' = Append(Front(stack), x)
      BY <1>6, <2>2 DEF PackOperator, TopIsOperator
    <3> QED
      BY <1>4, <2>1, <2>2, <3>1 DEF PackedOn
  <2>3. CASE ~TopIsOperator(stack)
    <3>1. request' = request /\ stack' = Append(stack, x)
      BY <1>6, <2>3 DEF PackOperator, TopIsOperator
    <3> QED
      BY <1>4, <2>1, <2>3, <3>1 DEF PackedOn
  <2> QED
    BY <2>2, <2>3
<1>7. CASE PackClose
  BY <1>1, <1>4, <1>7, Kinds DEF PackClose, PackedOn
<1>8. CASE PackOpen
  <2>1. x = Open /\ ~IsWord(x) /\ ~IsOperator(x) /\ x # Close
    BY <1>8, Kinds DEF PackOpen
  <2>2. \A k : LastCloseAt(stack, k) <=> k \in DOMAIN stack /\ IsLastClose(k)
    BY DEF LastCloseAt, IsLastClose
  <2>3. ASSUME NEW k \in DOMAIN stack, IsLastClose(k), Unroll(k)
        PROVE  /\ phase' = "packing" /\ next' = next - 1
               /\ Packed(x, Going(stack, request)) = Going(stack', request')
    <3>1. LastCloseAt(stack, k)
      BY <2>2, <2>3
    <3>2. Packed(Open, Going(stack, request)) = Unrolled(stack, request, k)
      BY <1>2, <3>1, PackedOpen
    <3>3. /\ phase' = "packing" /\ next' = next - 1
          /\ Unrolled(stack, request, k) = Going(stack', request')
      BY <1>1, <2>3 DEF Unroll, Unrolled
    <3> QED
      BY <2>1, <3>2, <3>3
  <2>4. ASSUME \A k \in DOMAIN stack : stack[k] # Close, phase' = "failed"
        PROVE  Packed(x, Going(stack, request)) = Stopped
    <3>1. ~\E k : LastCloseAt(stack, k)
      BY <2>4 DEF LastCloseAt
    <3> QED
      BY <1>4, <2>1, <3>1 DEF PackedOn
  <2> QED
    BY <1>8, <2>3, <2>4 DEF PackOpen
<1> QED
  BY <1>5, <1>6, <1>7, <1>8

LEMMA OperatorAtTheEnd ==
  ASSUME TypeOK, item \in OperatorName, tokens' = tokens \o <<Token(item, Cardinality(Words(tokens)))>>
  PROVE  Forms(tokens') = {}
<1> DEFINE x == Token(item, Cardinality(Words(tokens)))
<1>1. x \in Entry /\ IsOperator(x)
  BY ItemIs DEF OperatorName
<1>2. tokens \in Seq(Entry)
  BY DEF TypeOK
<1> HIDE DEF x
<1>3. tokens' = Append(tokens, x)
  BY <1>1, <1>2, LastFacts DEF x
<1>4. tokens' \in Seq(Entry) /\ tokens' # <<>> /\ Last(tokens') = x
  BY <1>1, <1>2, <1>3, AppendUndone
<1> QED
  BY <1>1, <1>4, NoFormEndsWithOperator

LEMMA ReadingFails ==
  ASSUME TypeOK, EntriesAreRead, phase' = "failed",
         (\E c \in {"space", "open", "close"} : ReadSeparator(c)) \/ EndOfQuery
  PROVE  Forms(tokens') = {} \/ verbatim'
<1> DEFINE read == <<Token(item, Cardinality(Words(tokens)))>>
<1>1. ASSUME NEW c \in {"space", "open", "close"}, ReadSeparator(c) PROVE Forms(tokens') = {}
  <2>1. /\ phase = "reading" /\ item # "none" /\ Misplaced(addOperand(entries, read[1]))
        /\ tokens' = tokens \o read
    BY <1>1 DEF ReadSeparator, Ended
  <2>2. IsRead(entries, tokens)
    BY <2>1 DEF EntriesAreRead
  <2>3. item \in OperatorName
    BY <2>1, <2>2, ItemGrows DEF Ended
  <2> QED
    BY <2>1, <2>3, OperatorAtTheEnd
<1>2. CASE EndOfQuery
  <2>1. verbatim' = verbatim /\ (verbatim \/ item \in OperatorName)
    BY <1>2 DEF EndOfQuery, OperatorName
  <2>2. ASSUME item \in OperatorName PROVE tokens' = tokens \o read
    BY <1>2, <2>2 DEF EndOfQuery, OperatorName, Ended
  <2> QED
    BY <2>1, <2>2, OperatorAtTheEnd
<1> QED
  BY <1>1, <1>2

\* What MeaningIsKept says, of the query as it is read.
MeaningAsRead ==
  /\ phase = "failed" => Forms(tokens) = {} \/ verbatim
  /\ phase = "done" /\ Forms(tokens) # {} => request \in Forms(tokens)

MeaningInv == PackInv /\ PackRuns /\ MeaningAsRead

LEMMA PackEndKeepsMeaning ==
  ASSUME PackInv, PackRuns, PackEnd
  PROVE  MeaningAsRead' /\ PackRuns'
<1>1. /\ phase = "packing" /\ next = 0 /\ tokens' = tokens /\ phase' \in {"done", "failed"}
      /\ stack \in Seq(Entry) /\ request \in Seq(Entry) /\ entries \in Seq(Entry)
      /\ IsRead(entries, tokens)
  BY DEF PackEnd, PackInv, TypeOK, EntriesAreRead
<1>2. PICK w : IsRun(w, entries)
  BY <1>1, RunExists
<1>3. w[0] = Going(stack, request)
  BY <1>1, <1>2 DEF PackRuns
<1>4. ASSUME NEW f \in Forms(tokens) PROVE phase' = "done" /\ request' = f
  <2>1. f \in Seq(Entry) /\ Leaves(<<>>, <<>>, w[0], f)
    BY <1>1, <1>2, FormLeaves
  <2>2. \/ stack = <<>> /\ request = f
        \/ stack # <<>> /\ IsOperator(stack[1]) /\ <<stack[1]>> \o request = f
    BY <1>1, <1>3, <2>1, LeftIs
  <2>3. CASE stack = <<>> /\ request = f
    BY <2>3 DEF PackEnd
  <2>4. CASE stack # <<>> /\ IsOperator(stack[1]) /\ <<stack[1]>> \o request = f
    BY <2>4 DEF PackEnd
  <2> QED
    BY <2>2, <2>3, <2>4
<1> QED
  BY <1>1, <1>4 DEF MeaningAsRead, PackRuns

LEMMA PackingKeepsMeaning ==
  ASSUME PackInv, PackRuns, PackWord \/ PackOperator \/ PackClose \/ PackOpen
  PROVE  MeaningAsRead' /\ PackRuns'
<1>1. /\ phase' = "packing" => PackRuns'
      /\ phase' = "failed" => \A w : IsRun(w, entries) => w[next - 1] = Stopped
      /\ phase = "packing" /\ next \in 1..Len(entries) /\ UNCHANGED <<query, tokens, entries, verbatim>>
      /\ phase' \in {"packing", "failed"}
  BY PackingRuns DEF PackInv
<1>2. entries \in Seq(Entry) /\ IsRead(entries, tokens) /\ next - 1 \in 0..Len(entries)
  BY <1>1, LastFacts DEF PackInv, TypeOK, EntriesAreRead
<1>3. ASSUME phase' = "failed", NEW f \in Forms(tokens) PROVE FALSE
  <2>1. PICK w : IsRun(w, entries)
    BY <1>2, RunExists
  <2>2. w[0] = Stopped
    <3>1. w[next - 1] = Stopped
      BY <1>1, <1>3, <2>1
    <3> QED
      BY <1>2, <2>1, <3>1, StoppedStays
  <2>3. f \in Seq(Entry) /\ Leaves(<<>>, <<>>, w[0], f)
    BY <1>2, <1>3, <2>1, FormLeaves
  <2>4. <<>> \in Seq(Entry)
    BY EmptyIsSeq
  <2> QED
    BY <2>2, <2>3, <2>4, LeftIs
<1> QED
  BY <1>1, <1>3 DEF MeaningAsRead, PackRuns

LEMMA MeaningInvStep ==
  ASSUME MeaningInv, [Next]_vars
  PROVE  MeaningInv'
<1>1. TypeOK /\ EntriesAreRead /\ PackInv /\ PackRuns /\ MeaningAsRead
  BY DEF MeaningInv, PackInv
<1>2. PackInv'
  BY <1>1, PackInvStep
<1> SUFFICES MeaningAsRead' /\ PackRuns'
  BY <1>2 DEF MeaningInv
<1>3. CASE UNCHANGED vars
  BY <1>1, <1>3 DEF vars, MeaningAsRead, PackRuns
<1>4. CASE \/ \E x \in Names \cup {"word"} : ReadItem(x)
         \/ \E c \in {"space", "open", "close"} : ReadQuotedSeparator(c)
         \/ ReadQuote
  <2>1. phase' = "reading"
    BY <1>4 DEF ReadItem, ReadQuotedSeparator, ReadQuote
  <2> QED
    BY <2>1 DEF MeaningAsRead, PackRuns
<1>5. CASE \E c \in {"space", "open", "close"} : ReadSeparator(c)
  <2>1. phase' \in {"reading", "failed"}
    BY <1>5 DEF ReadSeparator
  <2> QED
    BY <1>1, <1>5, <2>1, ReadingFails DEF MeaningAsRead, PackRuns
<1>6. CASE EndOfQuery
  <2>1. phase = "reading" /\ phase' \in {"packing", "failed"} /\ UNCHANGED <<stack, request>>
        /\ (phase' = "packing" => next' = Len(entries'))
    BY <1>6 DEF EndOfQuery
  <2>2. stack' = <<>> /\ request' = <<>>
    BY <1>1, <2>1 DEF EntriesAreRead
  <2>3. PackRuns'
    BY <2>1, <2>2 DEF PackRuns, IsRun
  <2> QED
    BY <1>1, <1>6, <2>1, <2>3, ReadingFails DEF MeaningAsRead
<1>7. CASE PackWord \/ PackOperator \/ PackClose \/ PackOpen
  BY <1>1, <1>7, PackingKeepsMeaning
<1>8. CASE PackEnd
  BY <1>1, <1>8, PackEndKeepsMeaning
<1> QED
  BY <1>3, <1>4, <1>5, <1>6, <1>7, <1>8 DEF Next

\* An expression in which no parenthesis and no operator is quoted is accepted,
\* wherever its ANDs are left out, and what is sent is its prefix form
\* (search.go:391-465).
THEOREM MeaningIsSent == Spec => []MeaningIsKept
<1>1. Init => MeaningInv
  <2> SUFFICES ASSUME Init PROVE MeaningInv
    OBVIOUS
  <2>1. phase = "reading"
    BY DEF Init
  <2>2. PackInv
    BY <2>1, InitReads DEF PackInv, Packs
  <2> QED
    BY <2>1, <2>2 DEF MeaningInv, PackRuns, MeaningAsRead
<1>2. MeaningInv => MeaningIsKept
  BY DEF MeaningInv, MeaningAsRead, MeaningIsKept, ReadAsWritten
<1> QED
  BY <1>1, <1>2, MeaningInvStep, PTL DEF Spec

----------------------------------------------------------------------------
(* What is accepted is an expression but for four cases: tokens that may    *)
(* stand next to each other, their parentheses in balance, have a form.     *)
Joinable(q) ==
  \A i \in 1..(Len(q) - 1) :
    /\ q[i] = Open => ~IsOperator(q[i + 1]) /\ q[i + 1] # Close
    /\ IsOperator(q[i]) => ~IsOperator(q[i + 1]) /\ q[i + 1] # Close

Balanced(q, i, j) ==
  /\ i <= j /\ ~IsOperator(q[i]) /\ ~IsOperator(q[j])
  /\ Depth(q, i) = Depth(q, j + 1) /\ \A k \in i..j : Depth(q, k) >= Depth(q, i)

\* A balanced part begins with a term: a word, or what is up to the parenthesis
\* that closes the one it begins with.
LEMMA TermOfBalanced ==
  ASSUME NEW q \in Seq(Entry), Joinable(q), NEW i \in 1..Len(q), NEW j \in 1..Len(q),
         Balanced(q, i, j)
  PROVE  \E k \in i..j :
           /\ Depth(q, k + 1) = Depth(q, i) /\ Ends(q[k])
           /\ \/ k = i /\ IsWord(q[i])
              \/ /\ i < k /\ q[i] = Open /\ q[k] = Close
                 /\ i + 1 <= k - 1 /\ Balanced(q, i + 1, k - 1)
<1> DEFINE m == Len(q)
           D(k) == Depth(q, k)
<1>1. m \in Nat /\ \A k \in 1..m : q[k] \in Entry
  BY LastFacts
<1>2. /\ \A k \in 1..(m + 1) : D(k) \in Int
      /\ \A k \in 1..m : D(k) = D(k + 1) + Weight(q[k])
  BY DepthFacts
<1>3. i <= j /\ ~IsOperator(q[i]) /\ D(i) = D(j + 1) /\ \A k \in i..j : D(k) >= D(i)
  BY DEF Balanced
<1> HIDE DEF D
<1>4. i \in 1..(m + 1) /\ i + 1 \in 1..(m + 1) /\ D(i) \in Int /\ D(i + 1) \in Int
  BY <1>1, <1>2
<1>5. D(i + 1) >= D(i)
  <2>1. CASE i = j
    BY <1>3, <1>4, <2>1
  <2>2. CASE i < j
    <3>1. i + 1 \in i..j
      BY <1>1, <2>2
    <3> QED
      BY <1>3, <3>1
  <2> QED
    BY <1>1, <1>3, <2>1, <2>2
<1>6. q[i] # Close
  <2>1. D(i) = D(i + 1) + Weight(q[i])
    BY <1>2
  <2> QED
    BY <1>4, <1>5, <2>1 DEF Weight
<1>7. CASE IsWord(q[i])
  <2>1. q[i] # Open /\ q[i] # Close
    BY <1>7, Kinds
  <2>2. D(i) = D(i + 1) + 0
    BY <1>2, <2>1 DEF Weight
  <2>3. D(i + 1) = D(i) /\ i \in i..j
    BY <1>1, <1>3, <1>4, <2>2
  <2> QED
    BY <1>7, <2>3 DEF D, Ends
<1>8. CASE q[i] = Open
  <2> DEFINE T == {k \in (i + 1)..j : D(k + 1) = D(i)}
  <2>1. D(i + 1) = D(i) + 1
    <3>1. D(i) = D(i + 1) + Weight(q[i]) /\ Weight(Open) = -1
      BY <1>2, Kinds DEF Weight
    <3> QED
      BY <1>4, <1>8, <3>1
  <2>2. i < j
    BY <1>1, <1>3, <1>4, <2>1
  <2>3. j \in T
    BY <1>1, <1>3, <2>2
  <2>4. PICK k \in T : \A y \in T : k <= y
    <3>1. \A y \in (i + 1)..j : y \in Nat
      BY <1>1
    <3>2. T \subseteq Nat
      BY <3>1
    <3> HIDE DEF T
    <3>3. T # {}
      BY <2>3
    <3> QED
      BY <3>2, <3>3, LeastElement
  <2>5. /\ k \in (i + 1)..j /\ D(k + 1) = D(i) /\ k \in 1..m /\ k \in i..j /\ i < k
        /\ k \in 1..(m + 1)
    BY <1>1, <2>4
  <2>6. ASSUME NEW y \in (i + 1)..k PROVE D(y) >= D(i) + 1
    <3>1. CASE y = i + 1
      BY <1>4, <2>1, <3>1
    <3>2. CASE y # i + 1
      <4> DEFINE z == y - 1
      <4>1. z \in (i + 1)..j /\ ~(k <= z) /\ z + 1 = y /\ y \in i..j /\ y \in 1..(m + 1)
        BY <1>1, <2>5, <3>2
      <4> HIDE DEF z
      <4>2. D(z + 1) # D(i)
        BY <2>4, <4>1
      <4>3. D(y) >= D(i) /\ D(y) \in Int
        BY <1>2, <1>3, <4>1
      <4> QED
        BY <1>4, <4>1, <4>2, <4>3
    <3> QED
      BY <3>1, <3>2
  <2>7. q[k] = Close /\ D(k) = D(i) + 1
    <3>1. D(k) = D(k + 1) + Weight(q[k]) /\ D(k) \in Int
      BY <1>2, <2>5
    <3>2. D(k) >= D(i) + 1
      BY <1>1, <2>5, <2>6
    <3> QED
      BY <1>4, <2>5, <3>1, <3>2 DEF Weight
  <2>8. ~IsOperator(q[i + 1]) /\ q[i + 1] # Close
    <3>1. i \in 1..(m - 1)
      BY <1>1, <2>2
    <3> QED
      BY <1>8, <3>1 DEF Joinable
  <2>9. i + 1 <= k - 1
    <3>1. k # i + 1
      BY <2>7, <2>8
    <3> QED
      BY <1>1, <2>5, <3>1
  <2>10. ~IsOperator(q[k - 1])
    <3> DEFINE z == k - 1
    <3>1. z \in 1..(m - 1) /\ z + 1 = k
      BY <1>1, <2>5, <2>9
    <3> HIDE DEF z
    <3>2. ~IsOperator(q[z])
      BY <2>7, <3>1 DEF Joinable
    <3> QED
      BY <3>2 DEF z
  <2>11. k - 1 + 1 = k /\ \A y \in (i + 1)..(k - 1) : y \in (i + 1)..k
    BY <1>1, <2>5
  <2>12. \A y \in (i + 1)..(k - 1) : D(y) >= D(i + 1)
    BY <2>1, <2>6, <2>11
  <2>13. D(i + 1) = D(k - 1 + 1)
    BY <2>1, <2>7, <2>11
  <2>14. Balanced(q, i + 1, k - 1)
    BY <2>8, <2>9, <2>10, <2>12, <2>13 DEF Balanced, D
  <2> QED
    BY <1>8, <2>5, <2>7, <2>9, <2>14 DEF D, Ends
<1>9. q[i] \in Entry
  BY <1>1
<1> QED
  BY <1>3, <1>6, <1>7, <1>8, <1>9, Kinds

\* After the term come an operator and an expression, or just an expression.
LEMMA RestOfBalanced ==
  ASSUME NEW q \in Seq(Entry), Joinable(q), NEW i \in 1..Len(q), NEW j \in 1..Len(q),
         Balanced(q, i, j), NEW k \in i..(j - 1), Depth(q, k + 1) = Depth(q, i)
  PROVE  IF IsOperator(q[k + 1]) THEN k + 2 <= j /\ Balanced(q, k + 2, j)
         ELSE Balanced(q, k + 1, j)
<1> DEFINE m == Len(q)
           D(a) == Depth(q, a)
<1>1. m \in Nat
  BY LastFacts
<1>2. /\ \A a \in 1..(m + 1) : D(a) \in Int
      /\ \A a \in 1..m : D(a) = D(a + 1) + Weight(q[a])
  BY DepthFacts
<1>3. /\ i <= j /\ ~IsOperator(q[j]) /\ D(i) = D(j + 1) /\ \A a \in i..j : D(a) >= D(i)
      /\ D(k + 1) = D(i)
  BY DEF Balanced
<1> HIDE DEF D
<1>4. k + 1 \in 1..m /\ k + 1 <= j
  BY <1>1
<1>5. CASE IsOperator(q[k + 1])
  <2> DEFINE b == k + 1
  <2>1. b \in 1..m /\ b + 1 = k + 2 /\ b <= j
    BY <1>4
  <2>2. b # j
    BY <1>3, <1>5
  <2>3. b \in 1..(m - 1) /\ k + 2 <= j
    BY <1>1, <2>1, <2>2
  <2> HIDE DEF b
  <2>4. IsOperator(q[b])
    BY <1>5 DEF b
  <2>5. ~IsOperator(q[b + 1])
    BY <2>3, <2>4 DEF Joinable
  <2>6. D(b) = D(b + 1)
    <3>1. D(b) = D(b + 1) + 0
      BY <1>2, <2>1, <2>4, Kinds DEF Weight
    <3>2. b + 1 \in 1..(m + 1)
      BY <1>1, <2>1
    <3>3. D(b + 1) \in Int
      BY <1>2, <3>2
    <3> QED
      BY <3>1, <3>3
  <2>7. D(k + 2) = D(i) /\ \A a \in (k + 2)..j : a \in i..j
    <3>1. D(b + 1) = D(i)
      BY <1>3, <2>6 DEF b
    <3> QED
      BY <2>1, <3>1
  <2>8. \A a \in (k + 2)..j : D(a) >= D(k + 2)
    BY <1>3, <2>7
  <2>9. ~IsOperator(q[k + 2])
    BY <2>1, <2>5
  <2>10. Balanced(q, k + 2, j)
    BY <1>3, <2>3, <2>7, <2>8, <2>9 DEF Balanced, D
  <2> QED
    BY <1>5, <2>3, <2>10
<1>6. CASE ~IsOperator(q[k + 1])
  <2>1. \A a \in (k + 1)..j : a \in i..j
    OBVIOUS
  <2>2. \A a \in (k + 1)..j : D(a) >= D(k + 1)
    BY <1>3, <2>1
  <2>3. Balanced(q, k + 1, j)
    BY <1>3, <1>4, <1>6, <2>2 DEF Balanced, D
  <2> QED
    BY <1>6, <2>3
<1> QED
  BY <1>5, <1>6

LEMMA BalancedHasForm ==
  ASSUME NEW q \in Seq(Entry), Joinable(q), NEW F, IsFormTable(F, q)
  PROVE  \A d \in 0..Len(q), i \in 1..Len(q), j \in 1..Len(q) :
           Balanced(q, i, j) /\ j - i + 1 <= d => F[d][i][j] # {}
<1> DEFINE m == Len(q)
           Good(d) == \A i \in 1..m, j \in 1..m :
                        Balanced(q, i, j) /\ j - i + 1 <= d => F[d][i][j] # {}
           G == {d \in 0..m : Good(d)}
<1>1. m \in Nat
  BY LastFacts
<1>2. 0 \in G
  <2>1. Good(0)
    BY <1>1 DEF Balanced
  <2> QED
    BY <1>1, <2>1
<1>3. ASSUME NEW d \in 1..m, d - 1 \in G PROVE d \in G
  <2> DEFINE g == F[d - 1]
  <2>1. \A a \in 1..m, b \in 1..m : Balanced(q, a, b) /\ b - a + 1 <= d - 1 => g[a][b] # {}
    BY <1>3
  <2>2. ASSUME NEW i \in 1..m, NEW j \in 1..m, Balanced(q, i, j), j - i + 1 <= d
        PROVE  \E f : f \in F[d][i][j]
    <3>1. i <= j /\ i \in 1..(m + 1) /\ j \in 0..m
      BY <1>1, <2>2 DEF Balanced
    <3>2. PICK k \in i..j :
            /\ Depth(q, k + 1) = Depth(q, i) /\ Ends(q[k])
            /\ \/ k = i /\ IsWord(q[i])
               \/ /\ i < k /\ q[i] = Open /\ q[k] = Close
                  /\ i + 1 <= k - 1 /\ Balanced(q, i + 1, k - 1)
      BY <2>2, TermOfBalanced
    <3>3. PICK l : IsTermForm(q, g, i, k, l)
      <4>1. CASE k = i /\ IsWord(q[i])
        BY <4>1 DEF IsTermForm
      <4>2. CASE /\ i < k /\ q[i] = Open /\ q[k] = Close
                 /\ i + 1 <= k - 1 /\ Balanced(q, i + 1, k - 1)
        <5>1. i + 1 \in 1..m /\ k - 1 \in 1..m /\ k - 1 - (i + 1) + 1 <= d - 1
          BY <1>1, <2>2, <3>1, <4>2
        <5>2. g[i + 1][k - 1] # {}
          BY <2>1, <4>2, <5>1
        <5>3. PICK l : l \in g[i + 1][k - 1]
          BY <5>2
        <5> HIDE DEF g
        <5> QED
          BY <4>2, <5>3 DEF IsTermForm
      <4> QED
        BY <3>2, <4>1, <4>2
    <3>4. CASE k = j
      <4>1. l \in F[d][i][j]
        BY <3>1, <3>3, <3>4, FormIs
      <4> QED
        BY <4>1
    <3>5. CASE k # j
      <4>1. k \in i..(j - 1) /\ i \in Int /\ k \in Int
        BY <1>1, <3>5
      <4>2. l \in TermForms(q, g, i, k)
        BY <3>3, <4>1, TermFormsAre
      <4>3. IF IsOperator(q[k + 1]) THEN k + 2 <= j /\ Balanced(q, k + 2, j)
            ELSE Balanced(q, k + 1, j)
        BY <2>2, <3>2, <4>1, RestOfBalanced
      <4>4. \E f : IsJoinedForm(q, g, i, j, f)
        <5>1. CASE IsOperator(q[k + 1])
          <6>1. k + 2 \in 1..m /\ j - (k + 2) + 1 <= d - 1
            BY <1>1, <2>2, <4>1, <4>3, <5>1
          <6>2. g[k + 2][j] # {}
            BY <2>1, <4>3, <5>1, <6>1
          <6>3. PICK t : t \in g[k + 2][j]
            BY <6>2
          <6> HIDE DEF g
          <6>4. IsJoinedForm(q, g, i, j, Binary(q[k + 1], l, t))
            BY <4>1, <4>2, <5>1, <6>3 DEF IsJoinedForm
          <6> QED
            BY <6>4
        <5>2. CASE ~IsOperator(q[k + 1])
          <6>1. k + 1 \in 1..m /\ j - (k + 1) + 1 <= d - 1
            BY <1>1, <2>2, <4>1
          <6>2. g[k + 1][j] # {}
            BY <2>1, <4>3, <5>2, <6>1
          <6>3. PICK t : t \in g[k + 1][j]
            BY <6>2
          <6> HIDE DEF g
          <6>4. IsJoinedForm(q, g, i, j, Binary(And, l, t))
            BY <4>1, <4>2, <5>2, <6>3 DEF IsJoinedForm
          <6> QED
            BY <6>4
        <5> QED
          BY <5>1, <5>2
      <4>5. PICK f : IsJoinedForm(q, g, i, j, f)
        BY <4>4
      <4>6. f \in F[d][i][j]
        BY <3>1, <4>5, FormIs
      <4> QED
        BY <4>6
    <3> QED
      BY <3>4, <3>5
  <2>3. Good(d)
    BY <2>2
  <2> QED
    BY <2>3
<1>4. 0..m \subseteq G
  <2> HIDE DEF G
  <2> QED
    BY <1>1, <1>2, <1>3, UpTo
<1> QED
  BY <1>4

\* What is accepted, and quotes no parenthesis or operator, is an expression, unless
\* it is one of the four that are listed with the property (search.go:297-465).
THEOREM AcceptedIsAnExpression == Spec => []AcceptedIsExpression
<1>1. PackInv => AcceptedIsExpression
  <2> DEFINE m == Len(tokens)
  <2>1. SUFFICES ASSUME PackInv, phase = "done", LooksLikeExpression(tokens)
                 PROVE  Forms(tokens) # {}
    BY DEF AcceptedIsExpression, ReadAsWritten
  <2>2. tokens \in Seq(Entry) /\ NoneMisplaced(tokens)
    BY <2>1 DEF PackInv, EntriesAreRead, IsRead
  <2>3. m \in Nat /\ m > 0 /\ DOMAIN tokens = 1..m
    BY <2>1, <2>2, LastFacts DEF LooksLikeExpression
  <2>4. Joinable(tokens)
    BY <2>1, <2>2 DEF Joinable, LooksLikeExpression, NoneMisplaced
  <2>5. Balanced(tokens, 1, m)
    <3>1. ~IsOperator(tokens[1]) /\ ~IsOperator(tokens[m])
      BY <2>1, <2>2 DEF LooksLikeExpression, NoneMisplaced, Last
    <3>2. Depth(tokens, 1) = 0 /\ Depth(tokens, m + 1) = 0
      BY <2>1, <2>2, DepthFacts DEF LooksLikeExpression
    <3>3. \A k \in 1..m : Depth(tokens, k) >= 0
      BY <2>1, <2>3, ClosedWhenDone DEF ClosedAsRead
    <3> QED
      BY <2>3, <3>1, <3>2, <3>3 DEF Balanced
  <2>6. IsFormTable(FormsByDepth(tokens), tokens)
    BY <2>2, FormTable
  <2>7. m \in 0..m /\ 1 \in 1..m /\ m \in 1..m /\ m - 1 + 1 <= m
    BY <2>3
  <2> DEFINE F == FormsByDepth(tokens)
  <2> HIDE DEF F
  <2>8. F[m][1][m] # {}
    BY <2>2, <2>4, <2>5, <2>6, <2>7, BalancedHasForm DEF F
  <2> QED
    BY <2>8 DEF Forms, F
<1> QED
  BY PackInvHolds, <1>1, PTL

=============================================================================
