-------------------------- MODULE ResumeFileProofs --------------------------
(***************************************************************************)
(* Proofs about bit fields and the resume file, for bytes of every width   *)
(* and transfers of every size: the operations of a bit field on its bytes *)
(* are those of sets; a record is written in exactly as many units as its  *)
(* size says and is read back as it was, in whatever order its blocks were *)
(* written and whatever lies behind it; and no record ever claims a piece  *)
(* whose hash was not found right, across crashes and failed writes.       *)
(***************************************************************************)
EXTENDS ResumeFile, FiniteSetTheorems, SequenceTheorems, WellFoundedInduction, TLAPS

----------------------------------------------------------------------------
(* Induction over 0..n, and division.                                       *)
LEMMA LeastElement ==
  ASSUME NEW T, T \subseteq Nat, T # {}
  PROVE  \E x \in T : \A y \in T : x <= y
<1>1. PICK x \in T : \A y \in T : ~ (<<y, x>> \in OpToRel(<, Nat))
  BY NatLessThanWellFounded, WFMin
<1>2. \A y \in T : ~(y < x)
  BY <1>1 DEF OpToRel
<1> QED
  BY <1>2

LEMMA UpTo ==
  ASSUME NEW n \in Nat, NEW G, 0 \in G, \A i \in 1..n : i - 1 \in G => i \in G
  PROVE  0..n \subseteq G
<1> DEFINE T == (0..n) \ G
<1>1. SUFFICES ASSUME T # {} PROVE FALSE
  OBVIOUS
<1>2. PICK k \in T : \A y \in T : k <= y
  <2>1. T \subseteq Nat
    OBVIOUS
  <2> HIDE DEF T
  <2> QED
    BY <1>1, <2>1, LeastElement
<1>3. k \in 1..n /\ k - 1 \notin T
  BY <1>2
<1> QED
  BY <1>2, <1>3

LEMMA DivMod ==
  ASSUME NEW a \in Int, NEW b \in Nat \ {0}
  PROVE  /\ a \div b \in Int /\ a % b \in Int
         /\ a = b * (a \div b) + (a % b) /\ 0 <= a % b /\ a % b < b
OBVIOUS

LEMMA ModUnique ==
  ASSUME NEW q \in Int, NEW b \in Nat \ {0}, NEW r \in Int, 0 <= r, r < b
  PROVE  (b * q + r) \div b = q /\ (b * q + r) % b = r
OBVIOUS

LEMMA MulMonotone ==
  ASSUME NEW a \in Int, NEW b \in Int, NEW c \in Nat, a <= b
  PROVE  c * a \in Int /\ c * b \in Int /\ c * a <= c * b
OBVIOUS

LEMMA MulCancel ==
  ASSUME NEW a \in Int, NEW b \in Int, NEW c \in Nat \ {0}, c * a < c * b
  PROVE  a < b
<1>1. SUFFICES ASSUME b <= a PROVE FALSE
  OBVIOUS
<1>2. c * b <= c * a /\ c * b \in Int /\ c * a \in Int
  BY <1>1, MulMonotone
<1> QED
  BY <1>2

LEMMA ByteFacts == ByteBits \in Nat \ {0} /\ CountLimit \in Nat \ {0}
                   /\ Positions = 0..(ByteBits - 1)
  BY ResumeAssumption DEF BitFieldAssumption, Positions

----------------------------------------------------------------------------
(* Where the bits lie.                                                      *)

\* Whole bytes, and one more for the rest.
LEMMA BytesOfBits ==
  ASSUME NEW n \in Nat
  PROVE  /\ n \div ByteBits \in Nat /\ n % ByteBits \in Nat /\ n % ByteBits < ByteBits
         /\ BitsToBytes(n) = (n \div ByteBits) + (IF n % ByteBits = 0 THEN 0 ELSE 1)
         /\ n = ByteBits * (n \div ByteBits) + (n % ByteBits)
<1> DEFINE B == ByteBits
           q == n \div B
           r == n % B
<1>1. B \in Nat \ {0}
  BY ByteFacts
<1>2. q \in Int /\ r \in Int /\ n = B * q + r /\ 0 <= r /\ r < B
  BY <1>1, DivMod
<1>3. BitsToBytes(n) = (n + B - 1) \div B
  BY DEF BitsToBytes
<1> HIDE DEF q, r, B
<1>4. B * q \in Int /\ B * (q + 1) = B * q + B
  BY <1>1, <1>2
<1>5. q \in Nat
  <2>1. SUFFICES ASSUME q <= -1 PROVE FALSE
    BY <1>2
  <2>2. B * q <= B * (-1) /\ B * (-1) = -B
    BY <1>1, <1>2, <2>1, MulMonotone
  <2> QED
    BY <1>1, <1>2, <1>4, <2>2
<1>6. BitsToBytes(n) = q + (IF r = 0 THEN 0 ELSE 1)
  <2>1. CASE r = 0
    <3>1. n + B - 1 = B * q + (B - 1)
      BY <1>1, <1>2, <1>4, <2>1
    <3>2. (B * q + (B - 1)) \div B = q
      BY <1>1, <1>2, ModUnique
    <3> QED
      BY <1>2, <1>3, <2>1, <3>1, <3>2
  <2>2. CASE r # 0
    <3>1. n + B - 1 = B * (q + 1) + (r - 1)
      BY <1>1, <1>2, <1>4
    <3>2. (B * (q + 1) + (r - 1)) \div B = q + 1
      BY <1>1, <1>2, <2>2, ModUnique
    <3> QED
      BY <1>3, <2>2, <3>1, <3>2
  <2> QED
    BY <2>1, <2>2
<1> QED
  BY <1>1, <1>2, <1>5, <1>6 DEF B, q, r

\* A bit i lies before bit n when its byte does, or in the same byte its position.
LEMMA PlaceFacts ==
  ASSUME NEW i \in Nat
  PROVE  /\ i \div ByteBits \in Nat /\ i % ByteBits \in Positions
         /\ i = ByteBits * (i \div ByteBits) + (i % ByteBits)
         /\ \A y \in Nat : i < ByteBits * y <=> i \div ByteBits < y
<1> DEFINE B == ByteBits
           q == i \div B
           r == i % B
<1>1. B \in Nat \ {0} /\ Positions = 0..(B - 1)
  BY ByteFacts
<1>2. q \in Nat /\ r \in Nat /\ r < B /\ i = B * q + r
  BY BytesOfBits
<1> HIDE DEF q, r, B
<1>3. ASSUME NEW y \in Nat PROVE i < B * y <=> q < y
  <2>1. B * y \in Nat /\ B * q \in Nat /\ B * (q + 1) = B * q + B
    BY <1>1, <1>2
  <2>2. ASSUME q < y PROVE i < B * y
    <3>1. B * (q + 1) <= B * y
      BY <1>1, <1>2, <2>2, MulMonotone
    <3> QED
      BY <1>1, <1>2, <2>1, <3>1
  <2>3. ASSUME y <= q PROVE B * y <= i
    <3>1. B * y <= B * q
      BY <1>1, <1>2, <2>3, MulMonotone
    <3> QED
      BY <1>1, <1>2, <2>1, <3>1
  <2> QED
    BY <1>1, <1>2, <2>1, <2>2, <2>3
<1> QED
  BY <1>1, <1>2, <1>3 DEF B, q, r

LEMMA PlaceUnique ==
  ASSUME NEW y \in Nat, NEW k \in Positions
  PROVE  /\ ByteBits * y + k \in Nat
         /\ (ByteBits * y + k) \div ByteBits = y /\ (ByteBits * y + k) % ByteBits = k
<1>1. ByteBits \in Nat \ {0} /\ k \in Nat /\ k < ByteBits
  BY ByteFacts
<1>2. ByteBits * y \in Nat
  BY <1>1
<1> QED
  BY <1>1, <1>2, ModUnique

\* The byte and the position of a bit that counts, and which bits of the last byte do.
LEMMA InBytes ==
  ASSUME NEW n \in Nat, NEW i \in Nat
  PROVE  i < n <=> /\ i \div ByteBits \in 0..(BitsToBytes(n) - 1)
                   /\ (/\ n % ByteBits # 0
                       /\ i \div ByteBits = BitsToBytes(n) - 1) => i % ByteBits < n % ByteBits
<1> DEFINE B == ByteBits
           q == n \div B
           r == n % B
           y == i \div B
           k == i % B
<1>1. B \in Nat \ {0} /\ q \in Nat /\ r \in Nat /\ r < B /\ n = B * q + r
  BY BytesOfBits, ByteFacts
<1>2. y \in Nat /\ k \in Nat /\ k < B /\ i = B * y + k
  BY BytesOfBits
<1>3. BitsToBytes(n) = q + (IF r = 0 THEN 0 ELSE 1)
  BY BytesOfBits
<1>4. i < B * q <=> y < q
  BY <1>1, PlaceFacts
<1> HIDE DEF q, r, y, k, B
<1>5. B * q \in Nat /\ B * y \in Nat
  BY <1>1, <1>2
<1>6. CASE y < q
  BY <1>1, <1>2, <1>3, <1>4, <1>5, <1>6 DEF B, q, r, y, k
<1>7. CASE y = q
  <2>1. B * y = B * q
    BY <1>7
  <2>2. i < n <=> k < r
    BY <1>1, <1>2, <1>5, <2>1
  <2> HIDE DEF B, q, r, y, k
  <2>3. r = 0 => ~(i < n) /\ y \notin 0..(BitsToBytes(n) - 1)
    BY <1>1, <1>2, <1>3, <1>7, <2>2
  <2>4. r # 0 => y \in 0..(BitsToBytes(n) - 1) /\ y = BitsToBytes(n) - 1
    BY <1>1, <1>2, <1>3, <1>7
  <2> QED
    BY <2>2, <2>3, <2>4 DEF B, q, r, y, k
<1>8. CASE y > q
  <2>1. B * (q + 1) <= B * y /\ B * (q + 1) = B * q + B
    BY <1>1, <1>2, <1>8, MulMonotone
  <2>2. ~(i < n)
    BY <1>1, <1>2, <1>5, <2>1
  <2>3. y \notin 0..(BitsToBytes(n) - 1)
    BY <1>1, <1>2, <1>3, <1>8
  <2> QED
    BY <2>2, <2>3 DEF B, y
<1> QED
  BY <1>1, <1>2, <1>6, <1>7, <1>8

----------------------------------------------------------------------------
(* The operations of a bit field are those of sets.                         *)
ByteRange(n) == 0..(BitsToBytes(n) - 1)
Field(n, bytes) == [bits |-> n, bytes |-> bytes]

LEMMA FieldParts ==
  ASSUME NEW n, NEW bytes, NEW c, c = Field(n, bytes)
  PROVE  c.bits = n /\ c.bytes = bytes /\ c = [bits |-> c.bits, bytes |-> c.bytes]
BY DEF Field

LEMMA ByteRangeFacts ==
  ASSUME NEW n \in Nat
  PROVE  /\ BitsToBytes(n) \in Nat /\ ByteRange(n) \subseteq Nat
         /\ n % ByteBits # 0 => BitsToBytes(n) - 1 \in ByteRange(n)
<1>1. /\ n \div ByteBits \in Nat
      /\ BitsToBytes(n) = (n \div ByteBits) + (IF n % ByteBits = 0 THEN 0 ELSE 1)
  BY BytesOfBits
<1> QED
  BY <1>1 DEF ByteRange

\* A record with other bytes.
LEMMA WithBytes ==
  ASSUME NEW r, r = [bits |-> r.bits, bytes |-> r.bytes], NEW bytes
  PROVE  [r EXCEPT !.bytes = bytes] = Field(r.bits, bytes)
BY DEF Field

\* A bit that is set in the bytes is one that counts.
LEMMA ElementsAre ==
  ASSUME NEW bf, WellFormed(bf)
  PROVE  /\ Elements(bf) \subseteq Nat
         /\ \A i \in Nat : i \in Elements(bf) <=>
              i \div ByteBits \in ByteRange(bf.bits) /\ i % ByteBits \in bf.bytes[i \div ByteBits]
<1>1. /\ bf.bits \in Nat
      /\ bf.bits % ByteBits # 0 =>
           bf.bytes[BitsToBytes(bf.bits) - 1] \subseteq 0..((bf.bits % ByteBits) - 1)
  BY DEF WellFormed
<1>2. ASSUME NEW i \in Nat
      PROVE  i \in Elements(bf) <=>
              i \div ByteBits \in ByteRange(bf.bits) /\ i % ByteBits \in bf.bytes[i \div ByteBits]
  <2>1. i \in Elements(bf) <=> i < bf.bits /\ i % ByteBits \in bf.bytes[i \div ByteBits]
    BY <1>1 DEF Elements, GetBit
  <2> DEFINE y == i \div ByteBits
             k == i % ByteBits
             r == bf.bits % ByteBits
  <2>2. i < bf.bits <=> /\ y \in ByteRange(bf.bits)
                        /\ (r # 0 /\ y = BitsToBytes(bf.bits) - 1) => k < r
    BY <1>1, InBytes DEF ByteRange
  <2>3. ASSUME k \in bf.bytes[y], r # 0, y = BitsToBytes(bf.bits) - 1 PROVE k < r
    <3>1. k \in 0..(r - 1) /\ r \in Int
      BY <1>1, <2>3, BytesOfBits
    <3> QED
      BY <3>1
  <2> QED
    BY <2>1, <2>2, <2>3, Zenon
<1> QED
  BY <1>1, <1>2 DEF Elements

\* ClearTrailingBits makes any bytes a bit field.
LEMMA ClearedFacts ==
  ASSUME NEW n \in Nat, NEW bytes \in [ByteRange(n) -> SUBSET Positions]
  PROVE  LET c == ClearTrailingBits(Field(n, bytes)) IN
         /\ WellFormed(c) /\ c.bits = n
         /\ Elements(c) = {i \in 0..(n - 1) : i % ByteBits \in bytes[i \div ByteBits]}
<1> DEFINE r == n % ByteBits
           last == BitsToBytes(n) - 1
           b == IF r = 0 THEN bytes ELSE [bytes EXCEPT ![last] = @ \cap 0..(r - 1)]
           c == ClearTrailingBits(Field(n, bytes))
<1>1. r \in Nat /\ r < ByteBits /\ last \in Int
  BY BytesOfBits
<1>2. c = Field(n, b)
  BY DEF ClearTrailingBits, Field
<1>3. c.bits = n /\ c.bytes = b /\ c = [bits |-> c.bits, bytes |-> c.bytes]
  <2> HIDE DEF b, c
  <2> QED
    BY <1>2, FieldParts
<1>4. b \in [ByteRange(n) -> SUBSET Positions]
  OBVIOUS
<1>5. r # 0 => last \in ByteRange(n) /\ b[last] \subseteq 0..(r - 1)
  <2>1. r # 0 => last \in ByteRange(n)
    BY BytesOfBits DEF ByteRange
  <2> QED
    BY <2>1
<1>6. WellFormed(c)
  BY <1>3, <1>4, <1>5 DEF WellFormed, ByteRange
<1>7. ASSUME NEW i \in 0..(n - 1)
      PROVE  i % ByteBits \in b[i \div ByteBits] <=> i % ByteBits \in bytes[i \div ByteBits]
  <2> DEFINE y == i \div ByteBits
             k == i % ByteBits
  <2>1. y \in ByteRange(n) /\ ((r # 0 /\ y = last) => k < r) /\ k \in Nat
    <3>1. i \in Nat /\ i < n
      OBVIOUS
    <3> QED
      BY <3>1, InBytes, BytesOfBits DEF ByteRange
  <2> HIDE DEF y, k, r, last
  <2>2. CASE r # 0 /\ y = last
    <3>1. b[y] = bytes[y] \cap 0..(r - 1) /\ k \in 0..(r - 1)
      BY <1>1, <2>1, <2>2
    <3> QED
      BY <3>1 DEF y, k
  <2>3. CASE ~(r # 0 /\ y = last)
    <3>1. b[y] = bytes[y]
      BY <2>1, <2>3
    <3> QED
      BY <3>1 DEF y, k
  <2> QED
    BY <2>2, <2>3
<1>8. Elements(c) = {i \in 0..(n - 1) : i % ByteBits \in b[i \div ByteBits]}
  BY <1>3 DEF Elements, GetBit
<1> HIDE DEF c, b
<1>9. Elements(c) = {i \in 0..(n - 1) : i % ByteBits \in bytes[i \div ByteBits]}
  BY <1>7, <1>8
<1> QED
  BY <1>3, <1>6, <1>9 DEF c

LEMMA CreateFacts ==
  ASSUME NEW n \in Nat
  PROVE  /\ WellFormed(CreateBitField(n)) /\ CreateBitField(n).bits = n
         /\ Elements(CreateBitField(n)) = {}
<1> DEFINE bytes == [i \in ByteRange(n) |-> {}]
<1>1. bytes \in [ByteRange(n) -> SUBSET Positions]
  OBVIOUS
<1>2. CreateBitField(n) = ClearTrailingBits(Field(n, bytes))
  BY Zenon DEF CreateBitField, Field, ByteRange
<1>3. \A i \in 0..(n - 1) : i % ByteBits \notin bytes[i \div ByteBits]
  <2> TAKE i \in 0..(n - 1)
  <2>1. i \div ByteBits \in ByteRange(n)
    BY InBytes DEF ByteRange
  <2> QED
    BY <2>1
<1> HIDE DEF bytes
<1> QED
  BY <1>1, <1>2, <1>3, ClearedFacts

\* A bit field with the bits of a set, and that set is all it has.
LEMMA FieldWith ==
  ASSUME NEW bf, WellFormed(bf), NEW b \in [ByteRange(bf.bits) -> SUBSET Positions],
         bf.bits % ByteBits # 0 =>
           b[BitsToBytes(bf.bits) - 1] \subseteq 0..((bf.bits % ByteBits) - 1)
  PROVE  LET c == [bf EXCEPT !.bytes = b] IN
         /\ WellFormed(c) /\ c.bits = bf.bits /\ c.bytes = b
<1> DEFINE c == [bf EXCEPT !.bytes = b]
<1>1. bf = Field(bf.bits, bf.bytes) /\ bf.bits \in Nat
  BY DEF WellFormed, Field
<1>2. c = Field(bf.bits, b)
  BY <1>1 DEF Field
<1>3. c.bits = bf.bits /\ c.bytes = b /\ c = [bits |-> c.bits, bytes |-> c.bytes]
  BY <1>2, FieldParts
<1> QED
  BY <1>1, <1>3 DEF WellFormed, ByteRange

LEMMA SetBitFacts ==
  ASSUME NEW bf, WellFormed(bf), NEW i \in Nat, i < bf.bits
  PROVE  /\ WellFormed(SetBit(bf, i)) /\ SetBit(bf, i).bits = bf.bits
         /\ Elements(SetBit(bf, i)) = Elements(bf) \cup {i}
<1> DEFINE y == i \div ByteBits
           k == i % ByteBits
           r == bf.bits % ByteBits
           last == BitsToBytes(bf.bits) - 1
           b == [bf.bytes EXCEPT ![y] = @ \cup {k}]
           c == SetBit(bf, i)
<1>1. bf.bits \in Nat /\ bf.bytes \in [ByteRange(bf.bits) -> SUBSET Positions]
  BY DEF WellFormed, ByteRange
<1>2. /\ y \in ByteRange(bf.bits) /\ k \in Positions /\ k \in Nat
      /\ (r # 0 /\ y = last) => k < r
  BY <1>1, InBytes, PlaceFacts, BytesOfBits DEF ByteRange
<1>3. b \in [ByteRange(bf.bits) -> SUBSET Positions]
  BY <1>1, <1>2
<1>4. c = [bf EXCEPT !.bytes = b]
  BY DEF SetBit
<1>5. r # 0 => b[last] \subseteq 0..(r - 1)
  <2>1. r # 0 => bf.bytes[last] \subseteq 0..(r - 1) /\ last \in ByteRange(bf.bits) /\ r \in Nat
    BY <1>1, BytesOfBits DEF WellFormed, ByteRange
  <2> HIDE DEF r, y, k, last
  <2> QED
    BY <1>1, <1>2, <2>1
<1>6. WellFormed(c) /\ c.bits = bf.bits /\ c.bytes = b
  <2> HIDE DEF b, c, y, k
  <2> QED
    BY <1>3, <1>4, <1>5, FieldWith
<1>7. ASSUME NEW j \in Nat PROVE j \in Elements(c) <=> j \in Elements(bf) \/ j = i
  <2>1. j \in Elements(c) <=> /\ j \div ByteBits \in ByteRange(bf.bits)
                              /\ j % ByteBits \in b[j \div ByteBits]
    BY <1>6, ElementsAre
  <2>2. j \in Elements(bf) <=> /\ j \div ByteBits \in ByteRange(bf.bits)
                               /\ j % ByteBits \in bf.bytes[j \div ByteBits]
    BY ElementsAre
  <2>3. j = i <=> j \div ByteBits = y /\ j % ByteBits = k
    <3>1. j = ByteBits * (j \div ByteBits) + (j % ByteBits) /\ i = ByteBits * y + k
      BY BytesOfBits
    <3> QED
      BY <3>1
  <2> HIDE DEF y, k
  <2>4. ASSUME j \div ByteBits \in ByteRange(bf.bits)
        PROVE  b[j \div ByteBits] = IF j \div ByteBits = y THEN bf.bytes[y] \cup {k}
                                    ELSE bf.bytes[j \div ByteBits]
    BY <1>1, <2>4
  <2> QED
    BY <1>2, <2>1, <2>2, <2>3, <2>4
<1>8. Elements(c) \subseteq Nat /\ Elements(bf) \subseteq Nat
  BY <1>6, ElementsAre
<1> HIDE DEF c
<1>9. Elements(c) = Elements(bf) \cup {i}
  BY <1>7, <1>8
<1> QED
  BY <1>6, <1>9 DEF c

LEMMA ClearBitFacts ==
  ASSUME NEW bf, WellFormed(bf), NEW i \in Nat, i < bf.bits
  PROVE  /\ WellFormed(ClearBit(bf, i)) /\ ClearBit(bf, i).bits = bf.bits
         /\ Elements(ClearBit(bf, i)) = Elements(bf) \ {i}
<1> DEFINE y == i \div ByteBits
           k == i % ByteBits
           r == bf.bits % ByteBits
           last == BitsToBytes(bf.bits) - 1
           b == [bf.bytes EXCEPT ![y] = @ \ {k}]
           c == ClearBit(bf, i)
<1>1. bf.bits \in Nat /\ bf.bytes \in [ByteRange(bf.bits) -> SUBSET Positions]
  BY DEF WellFormed, ByteRange
<1>2. y \in ByteRange(bf.bits)
  BY <1>1, InBytes DEF ByteRange
<1>3. b \in [ByteRange(bf.bits) -> SUBSET Positions]
  BY <1>1, <1>2
<1>4. c = [bf EXCEPT !.bytes = b]
  BY DEF ClearBit
<1>5. r # 0 => b[last] \subseteq 0..(r - 1)
  <2>1. r # 0 => bf.bytes[last] \subseteq 0..(r - 1) /\ last \in ByteRange(bf.bits) /\ r \in Nat
    BY <1>1, BytesOfBits DEF WellFormed, ByteRange
  <2> HIDE DEF r, y, k, last
  <2> QED
    BY <1>1, <1>2, <2>1
<1>6. WellFormed(c) /\ c.bits = bf.bits /\ c.bytes = b
  <2> HIDE DEF b, c, y, k
  <2> QED
    BY <1>3, <1>4, <1>5, FieldWith
<1>7. ASSUME NEW j \in Nat PROVE j \in Elements(c) <=> j \in Elements(bf) /\ j # i
  <2>1. j \in Elements(c) <=> /\ j \div ByteBits \in ByteRange(bf.bits)
                              /\ j % ByteBits \in b[j \div ByteBits]
    BY <1>6, ElementsAre
  <2>2. j \in Elements(bf) <=> /\ j \div ByteBits \in ByteRange(bf.bits)
                               /\ j % ByteBits \in bf.bytes[j \div ByteBits]
    BY ElementsAre
  <2>3. j = i <=> j \div ByteBits = y /\ j % ByteBits = k
    <3>1. j = ByteBits * (j \div ByteBits) + (j % ByteBits) /\ i = ByteBits * y + k
      BY BytesOfBits
    <3> QED
      BY <3>1
  <2> HIDE DEF y, k
  <2>4. ASSUME j \div ByteBits \in ByteRange(bf.bits)
        PROVE  b[j \div ByteBits] = IF j \div ByteBits = y THEN bf.bytes[y] \ {k}
                                    ELSE bf.bytes[j \div ByteBits]
    BY <1>1, <2>4
  <2> QED
    BY <2>1, <2>2, <2>3, <2>4
<1>8. Elements(c) \subseteq Nat /\ Elements(bf) \subseteq Nat
  BY <1>6, ElementsAre
<1> HIDE DEF c
<1>9. Elements(c) = Elements(bf) \ {i}
  BY <1>7, <1>8
<1> QED
  BY <1>6, <1>9 DEF c

LEMMA ResizeFacts ==
  ASSUME NEW bf, WellFormed(bf), NEW n \in Nat
  PROVE  /\ WellFormed(Resize(bf, n)) /\ Resize(bf, n).bits = n
         /\ Elements(Resize(bf, n)) = Elements(bf) \cap 0..(n - 1)
<1> DEFINE bytes == [i \in ByteRange(n) |-> IF i \in DOMAIN bf.bytes THEN bf.bytes[i] ELSE {}]
           c == Resize(bf, n)
<1>1. bf.bits \in Nat /\ bf.bytes \in [ByteRange(bf.bits) -> SUBSET Positions]
  BY DEF WellFormed, ByteRange
<1>2. bytes \in [ByteRange(n) -> SUBSET Positions]
  BY <1>1
<1>3. c = ClearTrailingBits(Field(n, bytes))
  BY Zenon DEF Resize, Field, ByteRange
<1>4. \A i \in ByteRange(n) : bytes[i] = IF i \in ByteRange(bf.bits) THEN bf.bytes[i] ELSE {}
  BY <1>1
<1> HIDE DEF bytes, c
<1>5. /\ WellFormed(c) /\ c.bits = n
      /\ Elements(c) = {i \in 0..(n - 1) : i % ByteBits \in bytes[i \div ByteBits]}
  BY <1>2, <1>3, ClearedFacts
<1>6. ASSUME NEW i \in 0..(n - 1)
      PROVE  i % ByteBits \in bytes[i \div ByteBits] <=> i \in Elements(bf)
  <2>1. i \in Nat /\ i < n
    OBVIOUS
  <2>2. i \div ByteBits \in ByteRange(n)
    BY <2>1, InBytes DEF ByteRange
  <2>3. i \in Elements(bf) <=> /\ i \div ByteBits \in ByteRange(bf.bits)
                               /\ i % ByteBits \in bf.bytes[i \div ByteBits]
    BY <2>1, ElementsAre
  <2> QED
    BY <1>4, <2>2, <2>3
<1>7. Elements(c) = Elements(bf) \cap 0..(n - 1)
  BY <1>5, <1>6
<1> QED
  BY <1>5, <1>7 DEF c

LEMMA SetAllFacts ==
  ASSUME NEW bf, WellFormed(bf)
  PROVE  /\ WellFormed(SetAll(bf)) /\ SetAll(bf).bits = bf.bits
         /\ Elements(SetAll(bf)) = 0..(bf.bits - 1)
<1> DEFINE bytes == [i \in ByteRange(bf.bits) |-> Positions]
           c == SetAll(bf)
<1>1. /\ bf.bits \in Nat /\ DOMAIN bf.bytes = ByteRange(bf.bits)
      /\ bf = [bits |-> bf.bits, bytes |-> bf.bytes]
  BY DEF WellFormed, ByteRange
<1>2. bytes \in [ByteRange(bf.bits) -> SUBSET Positions]
  OBVIOUS
<1>3. c = ClearTrailingBits(Field(bf.bits, bytes))
  <2>1. [bf EXCEPT !.bytes = [i \in DOMAIN @ |-> Positions]] = Field(bf.bits, bytes)
    BY <1>1 DEF Field
  <2> QED
    BY <2>1, Zenon DEF SetAll
<1>4. \A i \in ByteRange(bf.bits) : bytes[i] = Positions
  OBVIOUS
<1> HIDE DEF bytes, c
<1>5. /\ WellFormed(c) /\ c.bits = bf.bits
      /\ Elements(c) = {i \in 0..(bf.bits - 1) : i % ByteBits \in bytes[i \div ByteBits]}
  BY <1>1, <1>2, <1>3, ClearedFacts
<1>6. ASSUME NEW i \in 0..(bf.bits - 1) PROVE i % ByteBits \in bytes[i \div ByteBits]
  <2>1. i \in Nat /\ i < bf.bits
    BY <1>1
  <2>2. i \div ByteBits \in ByteRange(bf.bits) /\ i % ByteBits \in Positions
    BY <1>1, <2>1, InBytes, PlaceFacts DEF ByteRange
  <2> QED
    BY <1>4, <2>2
<1> QED
  BY <1>5, <1>6 DEF c

LEMMA ClearAllFacts ==
  ASSUME NEW bf, WellFormed(bf)
  PROVE  /\ WellFormed(ClearAll(bf)) /\ ClearAll(bf).bits = bf.bits
         /\ Elements(ClearAll(bf)) = {}
<1> DEFINE bytes == [i \in ByteRange(bf.bits) |-> {}]
           c == ClearAll(bf)
<1>1. bf.bits \in Nat /\ DOMAIN bf.bytes = ByteRange(bf.bits)
  BY DEF WellFormed, ByteRange
<1>2. bytes \in [ByteRange(bf.bits) -> SUBSET Positions]
  OBVIOUS
<1>3. c = [bf EXCEPT !.bytes = bytes]
  BY <1>1 DEF ClearAll
<1>4. bf.bits % ByteBits # 0 =>
        bytes[BitsToBytes(bf.bits) - 1] \subseteq 0..((bf.bits % ByteBits) - 1)
  <2>1. bf.bits % ByteBits # 0 => BitsToBytes(bf.bits) - 1 \in ByteRange(bf.bits)
    BY <1>1, ByteRangeFacts
  <2> QED
    BY <2>1
<1>5. \A i \in ByteRange(bf.bits) : bytes[i] = {}
  OBVIOUS
<1> HIDE DEF bytes, c
<1>6. WellFormed(c) /\ c.bits = bf.bits /\ c.bytes = bytes
  BY <1>2, <1>3, <1>4, FieldWith
<1>7. Elements(c) = {}
  <2>1. Elements(c) \subseteq Nat /\ \A i \in Nat : i \in Elements(c) =>
          i \div ByteBits \in ByteRange(bf.bits) /\ i % ByteBits \in bytes[i \div ByteBits]
    BY <1>6, ElementsAre
  <2> QED
    BY <1>5, <2>1
<1> QED
  BY <1>6, <1>7 DEF c

\* The bytes that are assigned need not be clean: bytes is here what there is of them.
LEMMA AssignFacts ==
  ASSUME NEW bf, WellFormed(bf), NEW n \in Nat,
         NEW bytes, \A i \in ByteRange(n) : bytes[i] = Positions
  PROVE  /\ WellFormed(Assign(bf, bytes, n)) /\ Assign(bf, bytes, n).bits = n
         /\ Elements(Assign(bf, bytes, n)) = 0..(n - 1)
<1> DEFINE r == Resize(bf, n)
           all == [i \in DOMAIN r.bytes |-> Positions]
<1>1. WellFormed(r) /\ r.bits = n
  BY ResizeFacts
<1>2. DOMAIN r.bytes = ByteRange(n)
  BY <1>1 DEF WellFormed, ByteRange
<1>3. Assign(bf, bytes, n) = ClearTrailingBits([r EXCEPT !.bytes = [i \in DOMAIN @ |-> bytes[i]]])
  BY Zenon DEF Assign
<1>4. SetAll(r) = ClearTrailingBits([r EXCEPT !.bytes = [i \in DOMAIN @ |-> Positions]])
  BY Zenon DEF SetAll
<1> HIDE DEF r
<1>5. [i \in DOMAIN r.bytes |-> bytes[i]] = [i \in DOMAIN r.bytes |-> Positions]
  BY <1>2
<1>6. Assign(bf, bytes, n) = SetAll(r)
  BY <1>3, <1>4, <1>5, Zenon
<1> QED
  BY <1>1, <1>6, SetAllFacts

\* Resizing gives the value to the bits that are new.
LEMMA ResizeValFacts ==
  ASSUME NEW bf, WellFormed(bf), NEW n \in Nat, NEW val \in BOOLEAN
  PROVE  LET c == ResizeVal(bf, n, val) IN
         /\ WellFormed(c) /\ c.bits = n
         /\ Elements(c) = (Elements(bf) \cap 0..(n - 1))
                            \cup (IF val THEN bf.bits..(n - 1) ELSE {})
<1> DEFINE old  == BitsToBytes(bf.bits)
           rest == bf.bits % ByteBits
           r    == Resize(bf, n)
           NewByte(i, b) == IF i >= old THEN IF val THEN Positions ELSE {}
                            ELSE IF val /\ rest # 0 /\ i = old - 1
                                 THEN b \cup rest..(ByteBits - 1) ELSE b
           bytes == [i \in ByteRange(n) |-> NewByte(i, r.bytes[i])]
           grown == [r EXCEPT !.bytes = [i \in DOMAIN @ |->
             IF i >= old THEN IF val THEN Positions ELSE {}
             ELSE IF val /\ rest # 0 /\ i = old - 1 THEN @[i] \cup rest..(ByteBits - 1)
             ELSE @[i]]]
           c == ResizeVal(bf, n, val)
<1>1. bf.bits \in Nat /\ old \in Nat /\ rest \in Nat
  BY BytesOfBits DEF WellFormed
<1>2. WellFormed(r) /\ r.bits = n /\ Elements(r) = Elements(bf) \cap 0..(n - 1)
  BY ResizeFacts
<1>3. r.bytes \in [ByteRange(n) -> SUBSET Positions] /\ r = [bits |-> n, bytes |-> r.bytes]
  BY <1>2 DEF WellFormed, ByteRange
<1>4. c = IF bf.bits >= r.bits THEN r ELSE IF val THEN ClearTrailingBits(grown) ELSE grown
  BY Zenon DEF ResizeVal
<1> HIDE DEF r, old, rest
<1>5. grown = Field(n, bytes)
  <2>1. grown = [r EXCEPT !.bytes = bytes]
    <3>1. DOMAIN r.bytes = ByteRange(n)
      BY <1>3
    <3> QED
      BY <3>1, Zenon
  <2> HIDE DEF bytes
  <2>2. [r EXCEPT !.bytes = bytes] = Field(r.bits, bytes)
    BY <1>2, <1>3, WithBytes
  <2> QED
    BY <1>2, <2>1, <2>2, Zenon
<1>6. bytes \in [ByteRange(n) -> SUBSET Positions]
  <2>1. rest..(ByteBits - 1) \subseteq Positions
    BY <1>1, ByteFacts
  <2> QED
    BY <1>3, <2>1
<1>7. \A i \in ByteRange(n) : bytes[i] = NewByte(i, r.bytes[i])
  OBVIOUS
<1> HIDE DEF grown, bytes, c
<1>8. CASE bf.bits >= n
  <2>1. c = r
    BY <1>2, <1>4, <1>8
  <2>2. bf.bits..(n - 1) = {}
    BY <1>1, <1>8
  <2> QED
    BY <1>2, <2>1, <2>2 DEF c
<1>9. CASE bf.bits < n /\ ~val
  <2>1. c = Field(n, bytes)
    BY <1>1, <1>2, <1>4, <1>5, <1>9
  <2>2. ASSUME NEW i \in ByteRange(n) PROVE bytes[i] = r.bytes[i]
    <3>1. CASE i >= old
      <4>1. bytes[i] = {}
        BY <1>7, <1>9, <3>1
      <4>2. ASSUME NEW k \in r.bytes[i] PROVE FALSE
        <5>1. k \in Positions /\ i \in Nat
          BY <1>3, ByteRangeFacts
        <5> DEFINE e == ByteBits * i + k
        <5>2. e \in Nat /\ e \div ByteBits = i /\ e % ByteBits = k
          BY <5>1, PlaceUnique
        <5> HIDE DEF e
        <5>3. e \in Elements(r)
          BY <1>2, <5>2, ElementsAre
        <5>4. e \in Elements(bf)
          BY <1>2, <5>3
        <5>5. i \in ByteRange(bf.bits)
          BY <5>2, <5>4, ElementsAre
        <5> QED
          BY <3>1, <5>1, <5>5, <1>1 DEF ByteRange, old
      <4> QED
        BY <4>1, <4>2
    <3>2. CASE ~(i >= old)
      BY <1>7, <1>9, <3>2
    <3> QED
      BY <3>1, <3>2
  <2>3. bytes = r.bytes
    BY <1>3, <1>6, <2>2
  <2>4. c = r
    BY <1>3, <2>1, <2>3 DEF Field
  <2> QED
    BY <1>2, <1>9, <2>4 DEF c
<1>10. CASE bf.bits < n /\ val
  <2>1. c = ClearTrailingBits(Field(n, bytes))
    BY <1>1, <1>2, <1>4, <1>5, <1>10
  <2>2. /\ WellFormed(c) /\ c.bits = n
        /\ Elements(c) = {i \in 0..(n - 1) : i % ByteBits \in bytes[i \div ByteBits]}
    BY <1>6, <2>1, ClearedFacts
  <2>3. ASSUME NEW i \in 0..(n - 1)
        PROVE  i % ByteBits \in bytes[i \div ByteBits] <=> i \in Elements(bf) \/ bf.bits <= i
    <3> DEFINE y == i \div ByteBits
               k == i % ByteBits
    <3>1. i \in Nat /\ i < n
      OBVIOUS
    <3>2. y \in ByteRange(n) /\ y \in Nat /\ k \in Positions /\ k \in Nat
      BY <3>1, InBytes, PlaceFacts, BytesOfBits DEF ByteRange
    <3>3. i < bf.bits <=> y < old /\ ((rest # 0 /\ y = old - 1) => k < rest)
      <4>1. i < bf.bits <=> y \in 0..(old - 1) /\ ((rest # 0 /\ y = old - 1) => k < rest)
        BY <1>1, <3>1, InBytes DEF old, rest
      <4> HIDE DEF y, k
      <4> QED
        BY <1>1, <3>2, <4>1
    <3>4. k \in r.bytes[y] <=> i \in Elements(bf)
      <4>1. i \in Elements(r) <=> y \in ByteRange(n) /\ k \in r.bytes[y]
        BY <1>2, <3>1, ElementsAre
      <4> QED
        BY <1>2, <3>2, <4>1
    <3>5. i \in Elements(bf) => i < bf.bits
      BY <1>1 DEF Elements
    <3>6. bytes[y] = NewByte(y, r.bytes[y])
      BY <1>7, <3>2
    <3> HIDE DEF y, k
    <3>7. CASE y >= old
      <4>1. bytes[y] = Positions
        BY <1>10, <3>6, <3>7
      <4>2. bf.bits <= i
        BY <1>1, <3>1, <3>2, <3>3, <3>7
      <4> QED
        BY <3>2, <4>1, <4>2 DEF y, k
    <3>8. CASE y < old /\ rest # 0 /\ y = old - 1
      <4>1. bytes[y] = r.bytes[y] \cup rest..(ByteBits - 1)
        BY <1>1, <1>10, <3>2, <3>6, <3>8
      <4>2. k \in rest..(ByteBits - 1) <=> bf.bits <= i
        BY <1>1, <3>1, <3>2, <3>3, <3>8, ByteFacts
      <4> QED
        BY <3>4, <4>1, <4>2 DEF y, k
    <3>9. CASE y < old /\ ~(rest # 0 /\ y = old - 1)
      <4>1. bytes[y] = r.bytes[y]
        BY <1>1, <1>10, <3>2, <3>6, <3>9
      <4>2. ~(bf.bits <= i)
        BY <1>1, <3>1, <3>2, <3>3, <3>9
      <4> QED
        BY <3>4, <4>1, <4>2 DEF y, k
    <3> QED
      BY <1>1, <3>2, <3>7, <3>8, <3>9
  <2>4. Elements(c) = (Elements(bf) \cap 0..(n - 1)) \cup bf.bits..(n - 1)
    <3>1. \A i \in 0..(n - 1) : bf.bits <= i <=> i \in bf.bits..(n - 1)
      BY <1>1
    <3>2. bf.bits..(n - 1) \subseteq 0..(n - 1)
      BY <1>1
    <3> QED
      BY <2>2, <2>3, <3>1, <3>2
  <2> QED
    BY <1>10, <2>2, <2>4 DEF c
<1>11. bf.bits >= n \/ bf.bits < n
  BY <1>1
<1> QED
  BY <1>8, <1>9, <1>10, <1>11

LEMMA BijectionCounts ==
  ASSUME NEW S, NEW T, IsFiniteSet(S), NEW f \in [S -> T],
         \A a, b \in S : f[a] = f[b] => a = b,
         \A t \in T : \E a \in S : f[a] = t
  PROVE  IsFiniteSet(T) /\ Cardinality(T) = Cardinality(S)
<1>1. f \in Bijection(S, T)
  BY DEF Bijection, Injection, Surjection, IsInjective
<1> QED
  BY <1>1, FS_Bijection DEF ExistsBijection

\* The count over the bytes is the number of elements.
LEMMA CountFacts ==
  ASSUME NEW bf, WellFormed(bf)
  PROVE  IsFiniteSet(Elements(bf)) /\ Count(bf) = Cardinality(Elements(bf))
<1> DEFINE n == bf.bits
           w == n \div ByteBits
           rest == n - w * ByteBits
           A == {x \in (0..(w - 1)) \X Positions : x[2] \in bf.bytes[x[1]]}
           C == {k \in 0..(rest - 1) : k \in bf.bytes[w]}
           E1 == {i \in Elements(bf) : i < ByteBits * w}
           E2 == {i \in Elements(bf) : ByteBits * w <= i}
<1>1. n \in Nat
  BY DEF WellFormed
<1>2. /\ ByteBits \in Nat \ {0} /\ w \in Nat /\ ByteBits * w \in Nat
      /\ rest \in Nat /\ rest < ByteBits /\ n = ByteBits * w + rest
  <2>1. w \in Nat /\ n % ByteBits \in Nat /\ n % ByteBits < ByteBits
        /\ n = ByteBits * w + (n % ByteBits)
    BY <1>1, BytesOfBits
  <2>2. ByteBits \in Nat \ {0} /\ Positions = 0..(ByteBits - 1)
    BY ByteFacts
  <2> HIDE DEF w, n
  <2>3. w * ByteBits = ByteBits * w /\ ByteBits * w \in Nat
    BY <2>1, <2>2
  <2> QED
    BY <1>1, <2>1, <2>2, <2>3
<1>3. Count(bf) = Cardinality(A) + Cardinality(C)
  BY Zenon DEF Count
<1>4. Elements(bf) = {i \in 0..(n - 1) : i % ByteBits \in bf.bytes[i \div ByteBits]}
  BY DEF Elements, GetBit
<1> HIDE DEF n, w, rest
<1>5. IsFiniteSet(Elements(bf)) /\ IsFiniteSet(E1) /\ IsFiniteSet(E2)
  <2>1. IsFiniteSet(0..(n - 1))
    BY <1>1, FS_Interval
  <2>2. Elements(bf) \in SUBSET (0..(n - 1)) /\ E1 \in SUBSET (0..(n - 1))
        /\ E2 \in SUBSET (0..(n - 1))
    BY <1>4
  <2> QED
    BY <2>1, <2>2, FS_Subset
<1>6. Cardinality(Elements(bf)) = Cardinality(E1) + Cardinality(E2)
  <2>1. E1 \cup E2 = Elements(bf) /\ E1 \cap E2 = {}
    <3>1. \A i \in Elements(bf) : i \in Int
      BY <1>4
    <3> QED
      BY <1>2, <3>1
  <2>2. Cardinality(E1 \cup E2) = Cardinality(E1) + Cardinality(E2) - Cardinality(E1 \cap E2)
    BY <1>5, FS_Union
  <2>3. Cardinality(E1) \in Nat /\ Cardinality(E2) \in Nat /\ Cardinality({}) = 0
    BY <1>5, FS_CardinalityType, FS_EmptySet
  <2> HIDE DEF E1, E2
  <2>4. Cardinality(Elements(bf)) = Cardinality(E1) + Cardinality(E2) - Cardinality({})
    BY <2>1, <2>2, Zenon
  <2> QED
    BY <2>3, <2>4
<1>7. Cardinality(E1) = Cardinality(A)
  <2> DEFINE f == [i \in E1 |-> <<i \div ByteBits, i % ByteBits>>]
  <2>1. f \in [E1 -> A]
    <3> SUFFICES ASSUME NEW i \in E1 PROVE <<i \div ByteBits, i % ByteBits>> \in A
      OBVIOUS
    <3>1. i \in Nat /\ i < ByteBits * w /\ i % ByteBits \in bf.bytes[i \div ByteBits]
      BY <1>1, <1>4
    <3>2. i \div ByteBits \in Nat /\ i \div ByteBits < w /\ i % ByteBits \in Positions
      BY <1>2, <3>1, PlaceFacts
    <3>3. i \div ByteBits \in 0..(w - 1)
      BY <1>2, <3>2
    <3> QED
      BY <3>1, <3>2, <3>3
  <2>2. \A i, j \in E1 : f[i] = f[j] => i = j
    <3> TAKE i, j \in E1
    <3>1. i \in Nat /\ j \in Nat
      BY <1>1, <1>4
    <3>2. i = ByteBits * (i \div ByteBits) + (i % ByteBits)
          /\ j = ByteBits * (j \div ByteBits) + (j % ByteBits)
      BY <3>1, BytesOfBits
    <3>3. f[i] = <<i \div ByteBits, i % ByteBits>> /\ f[j] = <<j \div ByteBits, j % ByteBits>>
      OBVIOUS
    <3> QED
      BY <3>2, <3>3
  <2>3. \A x \in A : \E i \in E1 : f[i] = x
    <3> TAKE x \in A
    <3> DEFINE i == ByteBits * x[1] + x[2]
    <3>1. x[1] \in Nat /\ x[1] < w /\ x[2] \in Positions /\ x[2] \in bf.bytes[x[1]]
          /\ x = <<x[1], x[2]>>
      BY <1>2
    <3>2. i \in Nat /\ i \div ByteBits = x[1] /\ i % ByteBits = x[2]
      BY <3>1, PlaceUnique
    <3> HIDE DEF i
    <3>3. i < ByteBits * w
      BY <1>2, <3>1, <3>2, PlaceFacts
    <3>4. i \in 0..(n - 1)
      BY <1>2, <3>2, <3>3
    <3>5. i \in E1
      BY <1>4, <3>1, <3>2, <3>3, <3>4
    <3>6. f[i] = x
      BY <3>1, <3>2, <3>5
    <3> QED
      BY <3>5, <3>6
  <2> HIDE DEF f, E1, A
  <2> QED
    BY <1>5, <2>1, <2>2, <2>3, BijectionCounts
<1>8. Cardinality(E2) = Cardinality(C)
  <2> DEFINE f == [i \in E2 |-> i % ByteBits]
  <2>0. ASSUME NEW i \in E2
        PROVE  i \in Nat /\ i \div ByteBits = w /\ i % ByteBits \in 0..(rest - 1)
               /\ i % ByteBits \in bf.bytes[w] /\ i = ByteBits * w + (i % ByteBits)
    <3>1. i \in Nat /\ ByteBits * w <= i /\ i < n
          /\ i % ByteBits \in bf.bytes[i \div ByteBits]
      BY <1>1, <1>4
    <3>2. i \div ByteBits \in Nat /\ i % ByteBits \in Nat
          /\ i = ByteBits * (i \div ByteBits) + (i % ByteBits)
      BY <3>1, BytesOfBits
    <3>3. ByteBits * (w + 1) = ByteBits * w + ByteBits /\ w + 1 \in Nat
      BY <1>2
    <3>4. i < ByteBits * (w + 1) /\ ~(i < ByteBits * w)
      BY <1>2, <3>1, <3>3
    <3>5. i \div ByteBits < w + 1 /\ ~(i \div ByteBits < w)
      BY <1>2, <3>1, <3>3, <3>4, PlaceFacts
    <3>6. i \div ByteBits = w
      BY <1>2, <3>2, <3>5
    <3>7. i % ByteBits \in 0..(rest - 1)
      BY <1>2, <3>1, <3>2, <3>6
    <3> QED
      BY <3>1, <3>2, <3>6, <3>7
  <2>1. f \in [E2 -> C]
    BY <2>0
  <2>2. \A i, j \in E2 : f[i] = f[j] => i = j
    <3> TAKE i, j \in E2
    <3>1. i = ByteBits * w + (i % ByteBits) /\ j = ByteBits * w + (j % ByteBits)
      BY <2>0
    <3>2. f[i] = i % ByteBits /\ f[j] = j % ByteBits
      OBVIOUS
    <3> QED
      BY <3>1, <3>2
  <2>3. \A k \in C : \E i \in E2 : f[i] = k
    <3> TAKE k \in C
    <3> DEFINE i == ByteBits * w + k
    <3>1. k \in Nat /\ k < rest /\ k \in Positions /\ k \in bf.bytes[w]
      BY <1>2, ByteFacts
    <3>2. i \in Nat /\ i \div ByteBits = w /\ i % ByteBits = k
      BY <1>2, <3>1, PlaceUnique
    <3>3. i \in 0..(n - 1) /\ ByteBits * w <= i
      BY <1>2, <3>1
    <3> HIDE DEF i
    <3>4. i \in E2
      BY <1>4, <3>1, <3>2, <3>3
    <3>5. f[i] = k
      BY <3>2, <3>4
    <3> QED
      BY <3>4, <3>5
  <2> HIDE DEF f, E2, C
  <2> QED
    BY <1>5, <2>1, <2>2, <2>3, BijectionCounts
<1> QED
  BY <1>3, <1>5, <1>6, <1>7, <1>8

----------------------------------------------------------------------------
(* A bit field in a file.                                                   *)

\* The sequence s lies in f from the place at on.
LiesAt(f, at, s) == at + Len(s) - 1 <= Len(f) /\ \A k \in 1..Len(s) : f[at + k - 1] = s[k]

LEMMA FunctionIsSeq ==
  ASSUME NEW S, NEW n \in Nat, NEW f \in [1..n -> S]
  PROVE  f \in Seq(S) /\ Len(f) = n
OBVIOUS

LEMMA PutFacts ==
  ASSUME NEW bf, WellFormed(bf), bf.bits < CountLimit
  PROVE  /\ Put(bf) \in Seq(Units)
         /\ Len(Put(bf)) = 1 + BitsToBytes(bf.bits) /\ Len(Put(bf)) = Size(bf)
         /\ Put(bf)[1] = Number(bf.bits)
         /\ \A i \in ByteRange(bf.bits) : Put(bf)[i + 2] = Byte(bf.bytes[i])
<1> DEFINE n == BitsToBytes(bf.bits)
           x == <<Number(bf.bits % CountLimit)>>
           y == [k \in 1..n |-> Byte(bf.bytes[k - 1])]
<1>1. /\ bf.bits \in Nat /\ n \in Nat /\ bf.bits % CountLimit = bf.bits
      /\ bf.bytes \in [ByteRange(bf.bits) -> SUBSET Positions]
  <2>1. bf.bits \in Nat /\ CountLimit \in Nat \ {0}
    BY ByteFacts DEF WellFormed
  <2> QED
    BY <2>1, ByteRangeFacts DEF WellFormed, ByteRange
<1>2. ByteRange(bf.bits) = 0..(n - 1)
  BY DEF ByteRange
<1> HIDE DEF n
<1>3. Cardinality(DOMAIN bf.bytes) = n
  <2>1. DOMAIN bf.bytes = 0..(n - 1)
    BY <1>1, <1>2
  <2> QED
    BY <1>1, <2>1, FS_Interval
<1>4. Put(bf) = x \o y
  BY <1>3, Zenon DEF Put
<1>5. Size(bf) = 1 + n
  BY <1>3 DEF Size
<1>6. x \in Seq(Units) /\ Len(x) = 1 /\ x[1] = Number(bf.bits)
  BY <1>1 DEF Units, Number
<1>7. y \in Seq(Units) /\ Len(y) = n /\ \A k \in 1..n : y[k] = Byte(bf.bytes[k - 1])
  <2>1. \A k \in 1..n : Byte(bf.bytes[k - 1]) \in Units
    <3> TAKE k \in 1..n
    <3>1. k - 1 \in 0..(n - 1)
      BY <1>1
    <3>2. bf.bytes[k - 1] \in SUBSET Positions
      BY <1>1, <1>2, <3>1
    <3> QED
      BY <3>2 DEF Byte, Units
  <2>2. y \in [1..n -> Units]
    BY <2>1
  <2> QED
    BY <1>1, <2>2, FunctionIsSeq
<1> HIDE DEF x, y
<1>8. /\ x \o y \in Seq(Units) /\ Len(x \o y) = 1 + n
      /\ \A i \in 1..(1 + n) : (x \o y)[i] = IF i <= 1 THEN x[i] ELSE y[i - 1]
  <2>1. /\ x \o y \in Seq(Units) /\ Len(x \o y) = Len(x) + Len(y)
        /\ \A i \in 1..(Len(x) + Len(y)) :
             (x \o y)[i] = IF i <= Len(x) THEN x[i] ELSE y[i - Len(x)]
    BY <1>6, <1>7, ConcatProperties
  <2> QED
    BY <1>6, <1>7, <2>1
<1>9. Put(bf)[1] = Number(bf.bits)
  BY <1>1, <1>4, <1>6, <1>8
<1>10. ASSUME NEW i \in ByteRange(bf.bits) PROVE Put(bf)[i + 2] = Byte(bf.bytes[i])
  <2>1. i \in Nat /\ i + 2 \in 1..(1 + n) /\ ~(i + 2 <= 1) /\ (i + 2) - 1 = i + 1
        /\ i + 1 \in 1..n /\ (i + 1) - 1 = i
    BY <1>1, <1>2
  <2>2. (x \o y)[i + 2] = y[i + 1]
    BY <1>8, <2>1
  <2>3. y[i + 1] = Byte(bf.bytes[i])
    BY <1>7, <2>1
  <2> QED
    BY <1>4, <2>2, <2>3
<1> QED
  BY <1>4, <1>5, <1>8, <1>9, <1>10 DEF n

\* Get, by the count that is read and its number of bytes.
GetOf(f, at, m, b) ==
  IF ~(at <= Len(f) /\ f[at].is = "number" /\ (at + 1 + b) - 1 <= Len(f)) THEN [ok |-> FALSE]
  ELSE [ok |-> TRUE, next |-> at + 1 + b,
        bf |-> [bits |-> m, bytes |-> [i \in 0..(b - 1) |-> f[at + 1 + i].value]]]

\* What was put is got, wherever it lies.
LEMMA GetFacts ==
  ASSUME NEW bf, WellFormed(bf), bf.bits < CountLimit,
         NEW f, Len(f) \in Nat, NEW at \in Nat \ {0}, LiesAt(f, at, Put(bf))
  PROVE  /\ at <= Len(f)
         /\ Get(f, at) = [ok |-> TRUE, next |-> at + Len(Put(bf)), bf |-> bf]
<1> DEFINE n == BitsToBytes(bf.bits)
           p == Put(bf)
<1>1. bf.bits \in Nat /\ n \in Nat /\ ByteRange(bf.bits) = 0..(n - 1)
      /\ ByteRange(bf.bits) \subseteq Nat
  BY ByteRangeFacts DEF WellFormed, ByteRange
<1>2. bf.bytes \in [ByteRange(bf.bits) -> SUBSET Positions]
      /\ bf = [bits |-> bf.bits, bytes |-> bf.bytes]
  BY DEF WellFormed, ByteRange
<1>3. /\ Len(p) = 1 + n /\ p[1] = Number(bf.bits)
      /\ \A i \in ByteRange(bf.bits) : p[i + 2] = Byte(bf.bytes[i])
  BY PutFacts
<1>4. /\ at + Len(p) - 1 <= Len(f)
      /\ \A k \in 1..Len(p) : f[at + k - 1] = p[k]
  BY DEF LiesAt
<1> HIDE DEF p, n
<1>5. at <= Len(f) /\ (at + 1 + n) - 1 <= Len(f) /\ at + 1 + n = at + Len(p)
  BY <1>1, <1>3, <1>4
<1>6. f[at] = Number(bf.bits)
  <2>1. 1 \in 1..Len(p) /\ at + 1 - 1 = at
    BY <1>1, <1>3
  <2> QED
    BY <1>3, <1>4, <2>1
<1>7. f[at].is = "number" /\ f[at].value = bf.bits
  BY <1>6 DEF Number
<1>8. [i \in 0..(n - 1) |-> f[at + 1 + i].value] = bf.bytes
  <2>1. ASSUME NEW i \in 0..(n - 1) PROVE f[at + 1 + i].value = bf.bytes[i]
    <3>1. i \in Nat /\ i + 2 \in 1..Len(p) /\ at + (i + 2) - 1 = at + 1 + i
      BY <1>1, <1>3
    <3>2. f[at + 1 + i] = p[i + 2]
      BY <1>4, <3>1
    <3>3. p[i + 2] = Byte(bf.bytes[i])
      BY <1>1, <1>3
    <3> QED
      BY <3>2, <3>3 DEF Byte
  <2> QED
    BY <1>1, <1>2, <2>1
<1>9. Get(f, at) = [ok |-> TRUE, next |-> at + 1 + n, bf |-> [bits |-> bf.bits, bytes |-> bf.bytes]]
  <2>1. Get(f, at) = GetOf(f, at, f[at].value, BitsToBytes(f[at].value))
    BY Zenon DEF Get, GetOf
  <2>3. Get(f, at) = GetOf(f, at, bf.bits, n)
    BY <1>7, <2>1, Zenon DEF n
  <2>2. Get(f, at) =
          [ok |-> TRUE, next |-> at + 1 + n,
           bf |-> [bits |-> bf.bits, bytes |-> [i \in 0..(n - 1) |-> f[at + 1 + i].value]]]
    BY <1>5, <1>7, <2>3, Zenon DEF GetOf
  <2> QED
    BY <1>8, <2>2, Zenon
<1> QED
  BY <1>2, <1>5, <1>9, Zenon DEF p

----------------------------------------------------------------------------
(* Walks: what a step makes of the result of the step before.               *)
LEMMA WalkExists ==
  ASSUME NEW S, NEW base \in S, NEW n \in Nat, NEW step \in [1..n -> [S -> S]]
  PROVE  \E w \in [0..n -> S] : w[0] = base /\ \A i \in 1..n : w[i] = step[i][w[i - 1]]
<1> DEFINE IsWalk(w, k) == /\ w \in [0..k -> S] /\ w[0] = base
                           /\ \A i \in 1..k : w[i] = step[i][w[i - 1]]
           G == {k \in 0..n : \E w : IsWalk(w, k)}
<1>1. 0 \in G
  <2>1. IsWalk([i \in 0..0 |-> base], 0) /\ 0 \in 0..n
    OBVIOUS
  <2> HIDE DEF IsWalk
  <2> QED
    BY <2>1
<1>2. ASSUME NEW k \in 1..n, k - 1 \in G PROVE k \in G
  <2>1. PICK w : IsWalk(w, k - 1)
    BY <1>2
  <2> DEFINE v == [i \in 0..k |-> IF i = k THEN step[k][w[k - 1]] ELSE w[i]]
  <2>2. k - 1 \in 0..(k - 1) /\ k \in Nat /\ \A i \in 0..k : i = k \/ i \in 0..(k - 1)
    OBVIOUS
  <2>3. v \in [0..k -> S]
    BY <2>1, <2>2
  <2>4. \A i \in 1..k : v[i] = step[i][v[i - 1]]
    <3>1. TAKE i \in 1..k
    <3>2. i - 1 \in 0..(k - 1) /\ i - 1 # k /\ i \in 0..k
      OBVIOUS
    <3>3. v[i - 1] = w[i - 1]
      BY <3>2
    <3>4. CASE i = k
      BY <3>2, <3>3, <3>4
    <3>5. CASE i # k
      BY <2>1, <3>2, <3>3, <3>5
    <3> QED
      BY <3>4, <3>5
  <2>5. v[0] = base
    BY <2>1
  <2>6. IsWalk(v, k) /\ k \in 0..n
    <3> HIDE DEF v
    <3> QED
      BY <2>2, <2>3, <2>4, <2>5
  <2> HIDE DEF IsWalk, v
  <2> QED
    BY <2>6
<1>3. n \in G
  <2>1. n \in 0..n
    OBVIOUS
  <2> HIDE DEF G
  <2>2. 0..n \subseteq G
    BY <1>1, <1>2, UpTo
  <2> QED
    BY <2>1, <2>2
<1> QED
  BY <1>3

\* FlattenSeq is a recursive function of the number of sequences, and one that
\* satisfies its equation is all there is.
Joins(w, s, h) == w = [i \in 1..h |-> IF i = 1 THEN s[i] ELSE w[i - 1] \o s[i]]

LEMMA FlattenIs ==
  ASSUME NEW s, NEW h \in Nat \ {0}, Len(s) = h, NEW w, Joins(w, s, h)
  PROVE  FlattenSeq(s) = w[h]
<1> DEFINE f == CHOOSE v : Joins(v, s, Len(s))
<1>1. FlattenSeq(s) = IF Len(s) = 0 THEN s ELSE f[Len(s)]
  BY Zenon DEF FlattenSeq, Joins
<1>2. Joins(w, s, Len(s))
  OBVIOUS
<1>3. Joins(f, s, h)
  BY <1>2, Zenon
<1> HIDE DEF f
<1>4. \A i \in 1..h : f[i] = IF i = 1 THEN s[i] ELSE f[i - 1] \o s[i]
  <2>1. f = [i \in 1..h |-> IF i = 1 THEN s[i] ELSE f[i - 1] \o s[i]]
    BY <1>3, Zenon DEF Joins
  <2> QED
    BY <2>1, Zenon
<1>5. \A i \in 1..h : w[i] = IF i = 1 THEN s[i] ELSE w[i - 1] \o s[i]
  <2>1. w = [i \in 1..h |-> IF i = 1 THEN s[i] ELSE w[i - 1] \o s[i]]
    BY Zenon DEF Joins
  <2> QED
    BY <2>1, Zenon
<1> DEFINE G == {i \in 0..h : i = 0 \/ f[i] = w[i]}
<1>6. 0 \in G
  OBVIOUS
<1>7. ASSUME NEW i \in 1..h, i - 1 \in G PROVE i \in G
  <2>1. CASE i = 1
    BY <1>4, <1>5, <2>1
  <2>2. CASE i # 1
    <3>1. f[i - 1] = w[i - 1]
      BY <1>7, <2>2
    <3>2. f[i] = w[i]
      BY <1>4, <1>5, <2>2, <3>1
    <3> QED
      BY <3>2
  <2> QED
    BY <2>1, <2>2
<1> HIDE DEF G
<1>8. 0..h \subseteq G
  BY <1>6, <1>7, UpTo
<1>9. h \in G
  BY <1>8
<1> QED
  BY <1>1, <1>9 DEF G

\* What FlattenSeq has after k sequences.
AreSeqs(s, h, S) == s \in [1..h -> Seq(S)]
IsFlattenWalk(w, s, h, S) ==
  /\ w \in [0..h -> Seq(S)]
  /\ w[0] = <<>> /\ \A k \in 1..h : w[k] = w[k - 1] \o s[k]
  /\ FlattenSeq(s) = w[h]

LEMMA FlattenWalk ==
  ASSUME NEW S, NEW h \in Nat, NEW s, AreSeqs(s, h, S)
  PROVE  \E w : IsFlattenWalk(w, s, h, S)
<1> DEFINE step == [k \in 1..h |-> [v \in Seq(S) |-> v \o s[k]]]
<1>0. s \in [1..h -> Seq(S)]
  BY DEF AreSeqs
<1>1. step \in [1..h -> [Seq(S) -> Seq(S)]] /\ <<>> \in Seq(S)
  BY <1>0
<1>2. \A k \in 1..h, v \in Seq(S) : step[k][v] = v \o s[k]
  OBVIOUS
<1> HIDE DEF step
<1>3. PICK w \in [0..h -> Seq(S)] : w[0] = <<>> /\ \A k \in 1..h : w[k] = step[k][w[k - 1]]
  <2> DEFINE T == Seq(S)
             base == <<>>
  <2>1. step \in [1..h -> [T -> T]] /\ base \in T
    BY <1>1
  <2> HIDE DEF T, base
  <2>2. \E w \in [0..h -> T] : w[0] = base /\ \A k \in 1..h : w[k] = step[k][w[k - 1]]
    BY <2>1, WalkExists
  <2> QED
    BY <2>2 DEF T, base
<1>4. \A k \in 1..h : w[k] = w[k - 1] \o s[k]
  <2> TAKE k \in 1..h
  <2>1. k - 1 \in 0..h
    OBVIOUS
  <2>2. w[k - 1] \in Seq(S)
    BY <2>1
  <2> QED
    BY <1>2, <1>3, <2>2
<1>5. Len(s) = h
  BY <1>0
<1>6. FlattenSeq(s) = w[h]
  <2>1. CASE h = 0
    <3>1. s = <<>>
      BY <1>0, <2>1
    <3>2. FlattenSeq(s) = s
      BY <1>5, <2>1, Zenon DEF FlattenSeq
    <3> QED
      BY <1>3, <2>1, <3>1, <3>2
  <2>2. CASE h # 0
    <3> DEFINE v == [k \in 1..h |-> w[k]]
    <3>1. ASSUME NEW k \in 1..h
          PROVE  v[k] = IF k = 1 THEN s[k] ELSE v[k - 1] \o s[k]
      <4>1. CASE k = 1
        <5>1. v[1] = w[0] \o s[1] /\ s[1] \in Seq(S)
          BY <1>0, <1>4, <2>2
        <5>2. w[0] \o s[1] = s[1]
          BY <1>3, <5>1, ConcatEmptySeq
        <5> QED
          BY <4>1, <5>1, <5>2
      <4>2. CASE k # 1
        <5>1. k - 1 \in 1..h
          BY <4>2
        <5> QED
          BY <1>4, <4>2, <5>1
      <4> QED
        BY <4>1, <4>2
    <3>2. v = [k \in 1..h |-> v[k]]
      OBVIOUS
    <3>3. v[h] = w[h]
      BY <2>2
    <3> HIDE DEF v
    <3>4. v = [k \in 1..h |-> IF k = 1 THEN s[k] ELSE v[k - 1] \o s[k]]
      BY <3>1, <3>2
    <3>5. Joins(v, s, h)
      BY <3>4, Zenon DEF Joins
    <3>6. FlattenSeq(s) = v[h]
      BY <1>5, <2>2, <3>5, FlattenIs
    <3> QED
      BY <3>3, <3>6
  <2> QED
    BY <2>1, <2>2
<1>7. IsFlattenWalk(w, s, h, S)
  BY <1>3, <1>4, <1>6 DEF IsFlattenWalk
<1> QED
  BY <1>7

----------------------------------------------------------------------------
(* What lies where.                                                         *)
LEMMA LiesInParts ==
  ASSUME NEW S, NEW x \in Seq(S), NEW y \in Seq(S), NEW f, Len(f) \in Nat,
         NEW at \in Nat \ {0}, LiesAt(f, at, x \o y)
  PROVE  LiesAt(f, at, x) /\ LiesAt(f, at + Len(x), y)
<1>1. /\ Len(x \o y) = Len(x) + Len(y) /\ Len(x) \in Nat /\ Len(y) \in Nat
      /\ \A k \in 1..(Len(x) + Len(y)) :
           (x \o y)[k] = IF k <= Len(x) THEN x[k] ELSE y[k - Len(x)]
  BY ConcatProperties, LenProperties
<1>2. /\ at + Len(x \o y) - 1 <= Len(f)
      /\ \A k \in 1..Len(x \o y) : f[at + k - 1] = (x \o y)[k]
  BY DEF LiesAt
<1> DEFINE a == Len(x)
           b == Len(y)
<1> HIDE DEF a, b
<1>3. at + a - 1 <= Len(f) /\ (at + a) + b - 1 <= Len(f)
  BY <1>1, <1>2 DEF a, b
<1>4. ASSUME NEW k \in 1..a PROVE f[at + k - 1] = x[k]
  <2>1. k \in 1..(a + b) /\ k <= a
    BY <1>1 DEF a, b
  <2> QED
    BY <1>1, <1>2, <2>1 DEF a, b
<1>5. ASSUME NEW k \in 1..b PROVE f[(at + a) + k - 1] = y[k]
  <2>1. a + k \in 1..(a + b) /\ ~(a + k <= a) /\ (a + k) - a = k
        /\ at + (a + k) - 1 = (at + a) + k - 1
    BY <1>1 DEF a, b
  <2>2. f[at + (a + k) - 1] = (x \o y)[a + k]
    BY <1>1, <1>2, <2>1 DEF a, b
  <2>3. (x \o y)[a + k] = y[(a + k) - a]
    BY <1>1, <2>1 DEF a, b
  <2> QED
    BY <2>1, <2>2, <2>3
<1> QED
  BY <1>3, <1>4, <1>5 DEF LiesAt, a, b

LEMMA LiesWithin ==
  ASSUME NEW f, Len(f) \in Nat, NEW at \in Nat \ {0}, NEW g, Len(g) \in Nat, LiesAt(f, at, g),
         NEW x, Len(x) \in Nat, LiesAt(g, 1, x)
  PROVE  LiesAt(f, at, x)
<1>1. /\ at + Len(g) - 1 <= Len(f) /\ \A k \in 1..Len(g) : f[at + k - 1] = g[k]
      /\ 1 + Len(x) - 1 <= Len(g) /\ \A k \in 1..Len(x) : g[1 + k - 1] = x[k]
  BY DEF LiesAt
<1>2. at + Len(x) - 1 <= Len(f)
  BY <1>1
<1>3. ASSUME NEW k \in 1..Len(x) PROVE f[at + k - 1] = x[k]
  <2>1. k \in 1..Len(g) /\ 1 + k - 1 = k
    BY <1>1
  <2> QED
    BY <1>1, <2>1
<1> QED
  BY <1>2, <1>3 DEF LiesAt

\* In what a walk has at its end lies what it had before.
LEMMA WalkPrefix ==
  ASSUME NEW S, NEW h \in Nat, NEW s \in [1..h -> Seq(S)], NEW w \in [0..h -> Seq(S)],
         \A k \in 1..h : w[k] = w[k - 1] \o s[k], NEW k \in 0..h
  PROVE  LiesAt(w[h], 1, w[k])
<1> DEFINE n == h - k
           G == {m \in 0..n : LiesAt(w[k + m], 1, w[k])}
<1>1. n \in Nat /\ k \in Nat
  OBVIOUS
<1>2. \A m \in 0..n : k + m \in 0..h /\ w[k + m] \in Seq(S) /\ Len(w[k + m]) \in Nat
  <2> TAKE m \in 0..n
  <2>1. k + m \in 0..h
    OBVIOUS
  <2> QED
    BY <2>1, LenProperties
<1>3. w[k] \in Seq(S) /\ Len(w[k]) \in Nat
  BY LenProperties
<1>4. LiesAt(w[k], 1, w[k])
  BY <1>3 DEF LiesAt
<1>5. 0 \in G
  <2>1. k + 0 = k
    OBVIOUS
  <2> QED
    BY <1>1, <1>4, <2>1
<1>6. ASSUME NEW m \in 1..n, m - 1 \in G PROVE m \in G
  <2>1. m - 1 \in 0..n /\ m \in 0..n /\ k + m \in 1..h /\ (k + m) - 1 = k + (m - 1)
    BY <1>1
  <2>2. w[k + m] = w[k + (m - 1)] \o s[k + m] /\ s[k + m] \in Seq(S)
    BY <2>1
  <2>3. LiesAt(w[k + m], 1, w[k + m])
    <3>1. Len(w[k + m]) \in Nat
      BY <1>2, <2>1
    <3> QED
      BY <3>1 DEF LiesAt
  <2>4. LiesAt(w[k + m], 1, w[k + (m - 1)])
    <3>1. Len(w[k + m]) \in Nat /\ w[k + (m - 1)] \in Seq(S)
      BY <1>2, <2>1
    <3> DEFINE u == w[k + m]
               x == w[k + (m - 1)]
               y == s[k + m]
    <3>2. LiesAt(u, 1, x \o y) /\ Len(u) \in Nat /\ x \in Seq(S) /\ y \in Seq(S)
      BY <2>2, <2>3, <3>1
    <3>3. 1 \in Nat \ {0}
      OBVIOUS
    <3> HIDE DEF u, x, y, n, G
    <3>4. LiesAt(u, 1, x)
      BY <3>2, <3>3, LiesInParts
    <3> QED
      BY <3>4 DEF u, x
  <2>5. LiesAt(w[k + m], 1, w[k])
    <3>1. Len(w[k + m]) \in Nat /\ Len(w[k + (m - 1)]) \in Nat
      BY <1>2, <2>1
    <3>2. LiesAt(w[k + (m - 1)], 1, w[k])
      BY <1>6
    <3> QED
      BY <1>3, <2>4, <3>1, <3>2, LiesWithin
  <2> QED
    BY <2>1, <2>5
<1> HIDE DEF G
<1>7. 0..n \subseteq G
  BY <1>1, <1>5, <1>6, UpTo
<1>8. n \in G /\ k + n = h
  BY <1>1, <1>7
<1> QED
  BY <1>8 DEF G

----------------------------------------------------------------------------
(* The blocks of a record.                                                  *)
IsField(bf) == WellFormed(bf) /\ bf.bits < CountLimit

IsBlocks(bs) ==
  /\ bs = [p \in DOMAIN bs |-> bs[p]]
  /\ DOMAIN bs \subseteq Nat /\ IsFiniteSet(DOMAIN bs) /\ Cardinality(DOMAIN bs) < CountLimit
  /\ \A p \in DOMAIN bs : IsField(bs[p])

LEMMA EntryFacts ==
  ASSUME NEW bs, IsBlocks(bs), NEW p \in DOMAIN bs
  PROVE  /\ <<Number(p)>> \in Seq(Units) /\ Len(<<Number(p)>>) = 1
         /\ Put(bs[p]) \in Seq(Units)
         /\ PutEntry(bs, p) \in Seq(Units) /\ Size(bs[p]) \in Nat
         /\ Len(PutEntry(bs, p)) = Size(bs[p]) + 1
<1>1. p \in Nat /\ WellFormed(bs[p]) /\ bs[p].bits < CountLimit /\ bs[p].bits \in Nat
  BY DEF IsBlocks, IsField, WellFormed
<1>2. Put(bs[p]) \in Seq(Units) /\ Len(Put(bs[p])) = Size(bs[p]) /\ Size(bs[p]) \in Nat
  BY <1>1, PutFacts, ByteRangeFacts
<1>3. <<Number(p)>> \in Seq(Units) /\ Len(<<Number(p)>>) = 1
  <2>1. Number(p) \in Units
    BY <1>1 DEF Number, Units
  <2> QED
    BY <2>1
<1>4. /\ <<Number(p)>> \o Put(bs[p]) \in Seq(Units)
      /\ Len(<<Number(p)>> \o Put(bs[p])) = Len(<<Number(p)>>) + Len(Put(bs[p]))
  BY <1>2, <1>3, ConcatProperties
<1> QED
  BY <1>2, <1>3, <1>4 DEF PutEntry

\* An order of a walk over the map visits each block once.
IsOrder(order, bs) ==
  /\ order \in [1..Cardinality(DOMAIN bs) -> DOMAIN bs] /\ Len(order) = Cardinality(DOMAIN bs)
  /\ \A i, j \in 1..Cardinality(DOMAIN bs) : i # j => order[i] # order[j]
  /\ \A p \in DOMAIN bs : \E i \in 1..Cardinality(DOMAIN bs) : order[i] = p

LEMMA OrderVisitsAll ==
  ASSUME NEW bs, IsBlocks(bs), NEW order \in SetToSeqs(DOMAIN bs)
  PROVE  IsOrder(order, bs) /\ Cardinality(DOMAIN bs) \in Nat
<1> DEFINE n == Cardinality(DOMAIN bs)
<1>1. IsFiniteSet(DOMAIN bs) /\ n \in Nat
  BY FS_CardinalityType DEF IsBlocks
<1>2. order \in [1..n -> DOMAIN bs] /\ \A i, j \in 1..n : i # j => order[i] # order[j]
  BY DEF SetToSeqs
<1>3. Len(order) = n
  BY <1>1, <1>2
<1>4. order \in Injection(1..n, DOMAIN bs)
  BY <1>2 DEF Injection, IsInjective
<1>5. Cardinality(1..n) = n
  BY <1>1, FS_Interval
<1>6. order \in Surjection(1..n, DOMAIN bs)
  BY <1>1, <1>4, <1>5, FS_Injection
<1> QED
  BY <1>1, <1>2, <1>3, <1>6 DEF IsOrder, Surjection

\* The blocks that were written after k entries.
IsPutWalk(w, bs, order) ==
  LET h == Cardinality(DOMAIN bs) IN
  /\ w \in [0..h -> Seq(Units)] /\ w[0] = <<>>
  /\ \A k \in 1..h : w[k] = w[k - 1] \o PutEntry(bs, order[k])
  /\ PutBlocks(bs, order) = w[h]
  /\ \A k \in 0..h : LiesAt(w[h], 1, w[k])

LEMMA PutWalkExists ==
  ASSUME NEW bs, IsBlocks(bs), NEW order, IsOrder(order, bs)
  PROVE  \E w : IsPutWalk(w, bs, order)
<1> DEFINE h == Cardinality(DOMAIN bs)
           s == [k \in 1..h |-> PutEntry(bs, order[k])]
<1>1. h \in Nat
  BY FS_CardinalityType DEF IsBlocks
<1>2. \A k \in 1..h : order[k] \in DOMAIN bs
  BY DEF IsOrder
<1>3. s \in [1..h -> Seq(Units)]
  BY <1>2, EntryFacts
<1>4. \A k \in 1..h : s[k] = PutEntry(bs, order[k])
  OBVIOUS
<1>5. PutBlocks(bs, order) = FlattenSeq(s)
  <2>1. Len(order) = h
    BY DEF IsOrder
  <2> QED
    BY <2>1, Zenon DEF PutBlocks
<1> HIDE DEF h, s
<1>6. AreSeqs(s, h, Units)
  BY <1>3 DEF AreSeqs
<1>7a. PICK w : IsFlattenWalk(w, s, h, Units)
  BY <1>1, <1>6, FlattenWalk
<1>7. /\ w \in [0..h -> Seq(Units)]
      /\ w[0] = <<>> /\ \A k \in 1..h : w[k] = w[k - 1] \o s[k]
      /\ FlattenSeq(s) = w[h]
  BY <1>7a DEF IsFlattenWalk
<1>8. \A k \in 0..h : LiesAt(w[h], 1, w[k])
  BY <1>1, <1>3, <1>7, WalkPrefix
<1>9. \A k \in 1..h : w[k] = w[k - 1] \o PutEntry(bs, order[k])
  BY <1>4, <1>7
<1>10. IsPutWalk(w, bs, order)
  BY <1>5, <1>7, <1>8, <1>9 DEF IsPutWalk, h
<1> QED
  BY <1>10

LEMMA SizeOfBlocksFacts ==
  ASSUME NEW bs, IsBlocks(bs), NEW order, IsOrder(order, bs)
  PROVE  /\ PutBlocks(bs, order) \in Seq(Units)
         /\ Len(PutBlocks(bs, order)) = SizeOfBlocks(bs)
<1> DEFINE h == Cardinality(DOMAIN bs)
           Of(p) == {p} \X (0..Size(bs[p]))
           U(k) == UNION {Of(p) : p \in {order[j] : j \in 1..k}}
<1>1. PICK w : IsPutWalk(w, bs, order)
  BY PutWalkExists
<1>2. h \in Nat
  BY FS_CardinalityType DEF IsBlocks
<1>3. /\ w \in [0..h -> Seq(Units)] /\ w[0] = <<>>
      /\ \A k \in 1..h : w[k] = w[k - 1] \o PutEntry(bs, order[k])
      /\ PutBlocks(bs, order) = w[h]
  BY <1>1 DEF IsPutWalk
<1>4. /\ order \in [1..h -> DOMAIN bs]
      /\ \A i, j \in 1..h : i # j => order[i] # order[j]
      /\ \A p \in DOMAIN bs : \E i \in 1..h : order[i] = p
  BY DEF IsOrder
<1> HIDE DEF h
<1> DEFINE G == {k \in 0..h : IsFiniteSet(U(k)) /\ Len(w[k]) = Cardinality(U(k))}
<1>5. 0 \in G
  <2>1. U(0) = {}
    OBVIOUS
  <2>2. Len(w[0]) = 0
    BY <1>3
  <2> HIDE DEF U
  <2> QED
    BY <1>2, <2>1, <2>2, FS_EmptySet
<1>6. ASSUME NEW k \in 1..h, k - 1 \in G PROVE k \in G
  <2> DEFINE p == order[k]
  <2>1. k \in 0..h /\ k - 1 \in 0..h /\ p \in DOMAIN bs
    BY <1>2, <1>4
  <2>2. U(k) = U(k - 1) \cup Of(p)
    <3>1. {order[j] : j \in 1..k} = {order[j] : j \in 1..(k - 1)} \cup {p}
      BY <1>2
    <3> HIDE DEF p, Of
    <3> QED
      BY <3>1
  <2>3. U(k - 1) \cap Of(p) = {}
    <3>1. \A j \in 1..(k - 1) : order[j] # p
      BY <1>2, <1>4
    <3> QED
      BY <3>1
  <2>4. IsFiniteSet(Of(p)) /\ Cardinality(Of(p)) = Size(bs[p]) + 1
    <3> DEFINE sz == Size(bs[p])
    <3>1. sz \in Nat
      BY <2>1, EntryFacts
    <3> HIDE DEF sz
    <3>2. IsFiniteSet(0..sz) /\ Cardinality(0..sz) = sz + 1
      BY <3>1, FS_Interval
    <3>3. IsFiniteSet({p}) /\ Cardinality({p}) = 1
      BY FS_Singleton
    <3>4. IsFiniteSet({p} \X (0..sz)) /\ Cardinality({p} \X (0..sz)) = 1 * (sz + 1)
      BY <3>2, <3>3, FS_Product
    <3> QED
      BY <3>1, <3>4 DEF sz
  <2>5. Len(w[k]) = Len(w[k - 1]) + (Size(bs[p]) + 1) /\ Size(bs[p]) \in Nat
    <3>1. w[k] = w[k - 1] \o PutEntry(bs, p) /\ w[k - 1] \in Seq(Units)
      BY <1>3, <2>1
    <3>2. /\ PutEntry(bs, p) \in Seq(Units) /\ Len(PutEntry(bs, p)) = Size(bs[p]) + 1
          /\ Size(bs[p]) \in Nat
      BY <2>1, EntryFacts
    <3> DEFINE x == w[k - 1]
               y == PutEntry(bs, p)
    <3>3. x \in Seq(Units) /\ y \in Seq(Units)
      BY <3>1, <3>2
    <3> HIDE DEF x, y, U, Of, G, p
    <3>4. Len(x \o y) = Len(x) + Len(y)
      BY <3>3, ConcatProperties
    <3> QED
      BY <3>1, <3>2, <3>4 DEF x, y
  <2>6. IsFiniteSet(U(k - 1)) /\ Len(w[k - 1]) = Cardinality(U(k - 1))
        /\ Cardinality(U(k - 1)) \in Nat
    BY <1>6, FS_CardinalityType
  <2> HIDE DEF U, Of, p
  <2>7. /\ IsFiniteSet(U(k - 1) \cup Of(p))
        /\ Cardinality(U(k - 1) \cup Of(p))
             = Cardinality(U(k - 1)) + Cardinality(Of(p)) - Cardinality(U(k - 1) \cap Of(p))
    BY <2>4, <2>6, FS_Union
  <2>8. Cardinality(U(k - 1) \cap Of(p)) = 0
    BY <2>3, FS_EmptySet
  <2>9. Cardinality(U(k)) = Cardinality(U(k - 1)) + (Size(bs[p]) + 1)
    BY <2>2, <2>4, <2>5, <2>6, <2>7, <2>8
  <2>10. IsFiniteSet(U(k)) /\ Len(w[k]) = Cardinality(U(k))
    BY <2>2, <2>5, <2>6, <2>7, <2>9
  <2> QED
    BY <2>1, <2>10
<1> HIDE DEF G
<1>7. 0..h \subseteq G
  BY <1>2, <1>5, <1>6, UpTo
<1>8. h \in G
  BY <1>2, <1>7
<1>9. U(h) = UNION {Of(p) : p \in DOMAIN bs}
  <2>1. {order[j] : j \in 1..h} = DOMAIN bs
    BY <1>4
  <2> QED
    BY <2>1, Zenon
<1>10. SizeOfBlocks(bs) = Cardinality(U(h))
  BY <1>9, Zenon DEF SizeOfBlocks
<1>11. w[h] \in Seq(Units)
  BY <1>2, <1>3
<1> QED
  BY <1>3, <1>8, <1>10, <1>11 DEF G

----------------------------------------------------------------------------
(* Reading the blocks of a record.                                          *)

\* What a reader has after k entries: GetBlocks is a recursive function, and one
\* that satisfies its equation is all there is.
Start(at) == [ok |-> TRUE, next |-> at, blocks |-> NoBlocks]
Reads(R, f, at, n) == R = [k \in 0..n |-> IF k = 0 THEN Start(at) ELSE GetEntry(f, R[k - 1])]

LEMMA ReadsIs ==
  ASSUME NEW f, NEW at, NEW n \in Nat, NEW R, Reads(R, f, at, n)
  PROVE  GetBlocks(f, at, n) = R[n]
<1> DEFINE T == CHOOSE v : Reads(v, f, at, n)
<1>1. GetBlocks(f, at, n) = T[n]
  BY Zenon DEF GetBlocks, Reads, Start
<1>2. Reads(T, f, at, n)
  BY Zenon
<1> HIDE DEF T
<1>3. \A k \in 0..n : T[k] = IF k = 0 THEN Start(at) ELSE GetEntry(f, T[k - 1])
  <2>1. T = [k \in 0..n |-> IF k = 0 THEN Start(at) ELSE GetEntry(f, T[k - 1])]
    BY <1>2, Zenon DEF Reads
  <2> QED
    BY <2>1, Zenon
<1>4. \A k \in 0..n : R[k] = IF k = 0 THEN Start(at) ELSE GetEntry(f, R[k - 1])
  <2>1. R = [k \in 0..n |-> IF k = 0 THEN Start(at) ELSE GetEntry(f, R[k - 1])]
    BY Zenon DEF Reads
  <2> QED
    BY <2>1, Zenon
<1> DEFINE G == {k \in 0..n : T[k] = R[k]}
<1>5. 0 \in G
  <2>1. 0 \in 0..n
    OBVIOUS
  <2> QED
    BY <1>3, <1>4, <2>1
<1>6. ASSUME NEW k \in 1..n, k - 1 \in G PROVE k \in G
  <2>1. k \in 0..n /\ k # 0 /\ T[k - 1] = R[k - 1]
    BY <1>6
  <2>2. T[k] = GetEntry(f, T[k - 1]) /\ R[k] = GetEntry(f, R[k - 1])
    BY <1>3, <1>4, <2>1
  <2> QED
    BY <2>1, <2>2
<1> HIDE DEF G
<1>7. 0..n \subseteq G
  BY <1>5, <1>6, UpTo
<1>8. n \in G
  BY <1>7
<1> QED
  BY <1>1, <1>8 DEF G

\* One entry, by the bit field that is read.
EntryOf(f, r, g) ==
  IF ~r.ok \/ r.next > Len(f) \/ ~g.ok THEN [r EXCEPT !.ok = FALSE]
  ELSE [ok |-> TRUE, next |-> g.next, blocks |-> WithEntry(r.blocks, f[r.next].value, g.bf)]

LEMMA EntryReadsBack ==
  ASSUME NEW bs, IsBlocks(bs), NEW p \in DOMAIN bs,
         NEW f, Len(f) \in Nat, NEW at \in Nat \ {0}, LiesAt(f, at, PutEntry(bs, p)),
         NEW seen
  PROVE  GetEntry(f, [ok |-> TRUE, next |-> at, blocks |-> seen])
           = [ok |-> TRUE, next |-> at + Len(PutEntry(bs, p)), blocks |-> WithEntry(seen, p, bs[p])]
<1> DEFINE x == <<Number(p)>>
           y == Put(bs[p])
           r == [ok |-> TRUE, next |-> at, blocks |-> seen]
<1>1. /\ x \in Seq(Units) /\ Len(x) = 1 /\ y \in Seq(Units) /\ Len(y) \in Nat
      /\ PutEntry(bs, p) = x \o y
  BY EntryFacts, LenProperties DEF PutEntry
<1>2. x[1] = Number(p)
  OBVIOUS
<1>3. WellFormed(bs[p]) /\ bs[p].bits < CountLimit
  BY DEF IsBlocks, IsField
<1> HIDE DEF x, y
<1>4. LiesAt(f, at, x) /\ LiesAt(f, at + Len(x), y)
  <2>1. LiesAt(f, at, x \o y)
    BY <1>1
  <2> QED
    BY <1>1, <2>1, LiesInParts
<1>5. at <= Len(f) /\ f[at] = Number(p)
  <2>1. at + Len(x) - 1 <= Len(f) /\ \A k \in 1..Len(x) : f[at + k - 1] = x[k]
    BY <1>4 DEF LiesAt
  <2>2. 1 \in 1..Len(x) /\ at + 1 - 1 = at
    BY <1>1
  <2> QED
    BY <1>1, <1>2, <2>1, <2>2
<1>6. Get(f, at + 1) = [ok |-> TRUE, next |-> (at + 1) + Len(y), bf |-> bs[p]]
  <2>1. at + 1 \in Nat \ {0} /\ LiesAt(f, at + 1, Put(bs[p]))
    BY <1>1, <1>4 DEF y
  <2>2. Get(f, at + 1) = [ok |-> TRUE, next |-> (at + 1) + Len(Put(bs[p])), bf |-> bs[p]]
    BY <1>3, <2>1, GetFacts
  <2> QED
    BY <2>2 DEF y
<1>7. Len(x \o y) = 1 + Len(y)
  BY <1>1, ConcatProperties
<1>8. (at + 1) + Len(y) = at + Len(PutEntry(bs, p))
  BY <1>1, <1>7
<1> DEFINE g == [ok |-> TRUE, next |-> (at + 1) + Len(y), bf |-> bs[p]]
<1>9. r.ok /\ r.next = at /\ r.blocks = seen /\ g.ok /\ g.next = (at + 1) + Len(y) /\ g.bf = bs[p]
  OBVIOUS
<1>10. f[at].value = p
  BY <1>5 DEF Number
<1>11. ~(at > Len(f))
  BY <1>5
<1> HIDE DEF r, g
<1>12. GetEntry(f, r) = EntryOf(f, r, g)
  <2>1. Get(f, r.next + 1) = g
    BY <1>6, <1>9 DEF g
  <2>2. GetEntry(f, r) = EntryOf(f, r, Get(f, r.next + 1))
    BY Zenon DEF GetEntry, EntryOf
  <2> QED
    BY <2>1, <2>2
<1>13. EntryOf(f, r, g)
         = [ok |-> TRUE, next |-> g.next, blocks |-> WithEntry(r.blocks, f[r.next].value, g.bf)]
  <2>1. ~(r.next > Len(f))
    BY <1>9, <1>11, Zenon
  <2> QED
    BY <1>9, <2>1, Zenon DEF EntryOf
<1>14. EntryOf(f, r, g)
         = [ok |-> TRUE, next |-> (at + 1) + Len(y), blocks |-> WithEntry(seen, p, bs[p])]
  BY <1>9, <1>10, <1>13, Zenon
<1> QED
  BY <1>8, <1>12, <1>14, Zenon DEF r

\* The blocks of a map that were seen on a walk.
Seen(bs, order, k) == [p \in {order[j] : j \in 1..k} |-> bs[p]]

LEMMA SeenFacts ==
  ASSUME NEW bs, IsBlocks(bs), NEW order, IsOrder(order, bs)
  PROVE  /\ Seen(bs, order, 0) = NoBlocks
         /\ \A k \in 1..Cardinality(DOMAIN bs) :
              Seen(bs, order, k) = WithEntry(Seen(bs, order, k - 1), order[k], bs[order[k]])
         /\ Seen(bs, order, Cardinality(DOMAIN bs)) = bs
<1> DEFINE h == Cardinality(DOMAIN bs)
           D(k) == {order[j] : j \in 1..k}
<1>1. h \in Nat
  BY FS_CardinalityType DEF IsBlocks
<1>2. /\ order \in [1..h -> DOMAIN bs]
      /\ \A p \in DOMAIN bs : \E i \in 1..h : order[i] = p
      /\ bs = [p \in DOMAIN bs |-> bs[p]]
  BY DEF IsOrder, IsBlocks
<1> HIDE DEF h
<1>3. Seen(bs, order, 0) = NoBlocks
  <2>1. D(0) = {}
    OBVIOUS
  <2>2. Seen(bs, order, 0) = [p \in D(0) |-> bs[p]]
    BY Zenon DEF Seen
  <2> HIDE DEF D
  <2> QED
    BY <2>1, <2>2 DEF NoBlocks
<1>4. ASSUME NEW k \in 1..h
      PROVE  Seen(bs, order, k) = WithEntry(Seen(bs, order, k - 1), order[k], bs[order[k]])
  <2> DEFINE a == order[k]
             E == D(k - 1)
  <2>1. D(k) = {a} \cup E
    BY <1>1
  <2> HIDE DEF a, E, D
  <2>2. [p \in {a} \cup E |-> bs[p]] = WithEntry([p \in E |-> bs[p]], a, bs[a])
    BY DEF WithEntry
  <2>3. /\ Seen(bs, order, k) = [p \in D(k) |-> bs[p]]
        /\ Seen(bs, order, k - 1) = [p \in E |-> bs[p]]
    BY Zenon DEF Seen, D, E
  <2>4. Seen(bs, order, k) = WithEntry(Seen(bs, order, k - 1), a, bs[a])
    BY <2>1, <2>2, <2>3, Zenon
  <2> QED
    BY <2>4, Zenon DEF a
<1>5. Seen(bs, order, h) = bs
  <2>1. D(h) = DOMAIN bs
    BY <1>2
  <2>2. Seen(bs, order, h) = [p \in D(h) |-> bs[p]]
    BY Zenon DEF Seen
  <2> HIDE DEF D
  <2> QED
    BY <1>2, <2>1, <2>2, Zenon
<1> QED
  BY <1>3, <1>4, <1>5 DEF h

LEMMA BlocksReadBack ==
  ASSUME NEW bs, IsBlocks(bs), NEW order, IsOrder(order, bs),
         NEW f, Len(f) \in Nat, NEW at \in Nat \ {0}, LiesAt(f, at, PutBlocks(bs, order))
  PROVE  \E e : GetBlocks(f, at, Cardinality(DOMAIN bs)) = [ok |-> TRUE, next |-> e, blocks |-> bs]
<1> DEFINE h == Cardinality(DOMAIN bs)
<1>1. PICK w : IsPutWalk(w, bs, order)
  BY PutWalkExists
<1>2. h \in Nat
  BY FS_CardinalityType DEF IsBlocks
<1>3. /\ w \in [0..h -> Seq(Units)] /\ w[0] = <<>>
      /\ \A k \in 1..h : w[k] = w[k - 1] \o PutEntry(bs, order[k])
      /\ PutBlocks(bs, order) = w[h]
      /\ \A k \in 0..h : LiesAt(w[h], 1, w[k])
  BY <1>1 DEF IsPutWalk
<1>4. order \in [1..h -> DOMAIN bs]
  BY DEF IsOrder
<1>5. /\ Seen(bs, order, 0) = NoBlocks
      /\ \A k \in 1..h : Seen(bs, order, k) = WithEntry(Seen(bs, order, k - 1), order[k], bs[order[k]])
      /\ Seen(bs, order, h) = bs
  BY SeenFacts
<1> DEFINE At(k) == [ok |-> TRUE, next |-> at + Len(w[k]), blocks |-> Seen(bs, order, k)]
           R == [k \in 0..h |-> At(k)]
<1> HIDE DEF h
<1>6. \A k \in 0..h : w[k] \in Seq(Units) /\ Len(w[k]) \in Nat
  BY <1>3, LenProperties
<1>7. At(0) = Start(at)
  <2>1. at + Len(w[0]) = at
    BY <1>3
  <2> QED
    BY <1>5, <2>1 DEF Start
<1>8. ASSUME NEW k \in 1..h PROVE At(k) = GetEntry(f, At(k - 1))
  <2> DEFINE p == order[k]
             x == w[k - 1]
             y == PutEntry(bs, p)
             nx == at + Len(x)
             seen == Seen(bs, order, k - 1)
  <2>1. k - 1 \in 0..h /\ k \in 0..h /\ h \in 0..h
    BY <1>2
  <2>2. p \in DOMAIN bs
    BY <1>4
  <2>3. x \in Seq(Units) /\ Len(x) \in Nat /\ y \in Seq(Units) /\ w[k] = x \o y
    BY <1>3, <1>6, <2>1, <2>2, EntryFacts
  <2>4. LiesAt(f, at, w[k])
    <3>1. /\ LiesAt(f, at, w[h]) /\ LiesAt(w[h], 1, w[k])
          /\ Len(w[h]) \in Nat /\ Len(w[k]) \in Nat
      BY <1>3, <1>6, <2>1
    <3> QED
      BY <3>1, LiesWithin
  <2> HIDE DEF x, y, p
  <2>5. LiesAt(f, nx, y)
    <3>1. LiesAt(f, at, x \o y)
      BY <2>3, <2>4
    <3> QED
      BY <2>3, <3>1, LiesInParts
  <2>6. nx \in Nat \ {0}
    BY <2>3
  <2>7. Len(x \o y) = Len(x) + Len(y) /\ Len(y) \in Nat
    BY <2>3, ConcatProperties, LenProperties
  <2>8. at + Len(w[k]) = nx + Len(y)
    BY <2>3, <2>7
  <2> HIDE DEF nx, seen
  <2>9. GetEntry(f, [ok |-> TRUE, next |-> nx, blocks |-> seen])
          = [ok |-> TRUE, next |-> nx + Len(y), blocks |-> WithEntry(seen, p, bs[p])]
    <3>1. LiesAt(f, nx, PutEntry(bs, p))
      BY <2>5 DEF y
    <3>2. GetEntry(f, [ok |-> TRUE, next |-> nx, blocks |-> seen])
            = [ok |-> TRUE, next |-> nx + Len(PutEntry(bs, p)), blocks |-> WithEntry(seen, p, bs[p])]
      BY <2>2, <2>6, <3>1, EntryReadsBack
    <3> QED
      BY <3>2 DEF y
  <2>10. Seen(bs, order, k) = WithEntry(seen, p, bs[p])
    BY <1>5 DEF p, seen
  <2>11. At(k) = [ok |-> TRUE, next |-> nx + Len(y), blocks |-> WithEntry(seen, p, bs[p])]
    BY <2>8, <2>10, Zenon
  <2>12. At(k - 1) = [ok |-> TRUE, next |-> nx, blocks |-> seen]
    BY Zenon DEF nx, seen, x
  <2> HIDE DEF At
  <2> QED
    BY <2>9, <2>11, <2>12, Zenon
<1>9. Reads(R, f, at, h)
  <2>1. \A k \in 0..h : R[k] = At(k)
    BY Zenon
  <2> HIDE DEF At
  <2>2. ASSUME NEW k \in 0..h
        PROVE  At(k) = IF k = 0 THEN Start(at) ELSE GetEntry(f, R[k - 1])
    <3>1. CASE k = 0
      BY <1>7, <3>1
    <3>2. CASE k # 0
      <4>1. k \in 1..h /\ k - 1 \in 0..h
        BY <1>2, <3>2
      <4>2. R[k - 1] = At(k - 1)
        BY <2>1, <4>1
      <4> QED
        BY <1>8, <3>2, <4>1, <4>2, Zenon
    <3> QED
      BY <3>1, <3>2
  <2>3. R = [k \in 0..h |-> R[k]]
    BY Zenon
  <2> HIDE DEF R
  <2>4. R = [k \in 0..h |-> IF k = 0 THEN Start(at) ELSE GetEntry(f, R[k - 1])]
    BY <2>1, <2>2, <2>3, Zenon
  <2> QED
    BY <2>4, Zenon DEF Reads
<1>10. GetBlocks(f, at, h) = R[h]
  <2> HIDE DEF R
  <2> QED
    BY <1>2, <1>9, ReadsIs
<1>11. R[h] = [ok |-> TRUE, next |-> at + Len(w[h]), blocks |-> bs]
  <2>1. h \in 0..h
    BY <1>2
  <2> QED
    BY <1>5, <2>1
<1>12. GetBlocks(f, at, h) = [ok |-> TRUE, next |-> at + Len(w[h]), blocks |-> bs]
  BY <1>10, <1>11, Zenon
<1> QED
  BY <1>12, Zenon DEF h

----------------------------------------------------------------------------
(* The record as a whole.                                                   *)
IsRecord(r) ==
  r = Record(r.pieces, r.blocks) /\ IsField(r.pieces) /\ IsBlocks(r.blocks)

LEMMA RecordParts ==
  ASSUME NEW r, IsRecord(r), NEW order, IsOrder(order, r.blocks)
  PROVE  LET a == <<Head1>>
             b == Put(r.pieces)
             c == <<Number(Cardinality(DOMAIN r.blocks))>>
             d == PutBlocks(r.blocks, order)
         IN  /\ a \in Seq(Units) /\ b \in Seq(Units) /\ c \in Seq(Units) /\ d \in Seq(Units)
             /\ Len(a) = 1 /\ Len(b) = Size(r.pieces) /\ Len(c) = 1
             /\ Len(d) = SizeOfBlocks(r.blocks)
             /\ PutRecord(r, order) = ((a \o b) \o c) \o d
<1> DEFINE n == Cardinality(DOMAIN r.blocks)
<1>1. IsBlocks(r.blocks) /\ IsField(r.pieces)
  BY DEF IsRecord
<1>2. n \in Nat /\ n % CountLimit = n /\ Len(order) = n
  <2>1. n \in Nat /\ n < CountLimit
    BY <1>1, FS_CardinalityType DEF IsBlocks
  <2>2. Len(order) = n
    BY DEF IsOrder
  <2> HIDE DEF n
  <2> QED
    BY <2>1, <2>2, ByteFacts
<1>3. Number(0) \in Units /\ Number(n) \in Units
  BY <1>2 DEF Number, Units
<1>4. <<Head1>> \in Seq(Units) /\ <<Number(n)>> \in Seq(Units)
      /\ Len(<<Head1>>) = 1 /\ Len(<<Number(n)>>) = 1
  <2>1. Head1 \in Units
    BY <1>3 DEF Head1
  <2> HIDE DEF n
  <2> QED
    BY <1>3, <2>1
<1>5. Put(r.pieces) \in Seq(Units) /\ Len(Put(r.pieces)) = Size(r.pieces)
  BY <1>1, PutFacts DEF IsField
<1>6. /\ PutBlocks(r.blocks, order) \in Seq(Units)
      /\ Len(PutBlocks(r.blocks, order)) = SizeOfBlocks(r.blocks)
  BY <1>1, SizeOfBlocksFacts
<1>7. PutRecord(r, order)
        = ((<<Head1>> \o Put(r.pieces)) \o <<Number(n)>>) \o PutBlocks(r.blocks, order)
  <2>1. Len(order) % CountLimit = n
    BY <1>2
  <2> HIDE DEF n
  <2> QED
    BY <2>1, Zenon DEF PutRecord
<1> QED
  BY <1>4, <1>5, <1>6, <1>7

LEMMA JoinFour ==
  ASSUME NEW a \in Seq(Units), NEW b \in Seq(Units), NEW c \in Seq(Units), NEW d \in Seq(Units)
  PROVE  /\ ((a \o b) \o c) \o d \in Seq(Units)
         /\ Len(((a \o b) \o c) \o d) = Len(a) + Len(b) + Len(c) + Len(d)
<1>1. a \o b \in Seq(Units) /\ Len(a \o b) = Len(a) + Len(b)
  BY ConcatProperties
<1> DEFINE ab == a \o b
<1>2. ab \in Seq(Units)
  BY <1>1
<1> HIDE DEF ab
<1>3. ab \o c \in Seq(Units) /\ Len(ab \o c) = Len(ab) + Len(c)
  BY <1>2, ConcatProperties
<1> DEFINE abc == ab \o c
<1>4. abc \in Seq(Units)
  BY <1>3
<1> HIDE DEF abc
<1>5. abc \o d \in Seq(Units) /\ Len(abc \o d) = Len(abc) + Len(d)
  BY <1>4, ConcatProperties
<1>6. Len(abc \o d) = Len(a) + Len(b) + Len(c) + Len(d)
  BY <1>1, <1>3, <1>5, LenProperties DEF ab, abc
<1> QED
  BY <1>5, <1>6 DEF ab, abc

LEMMA LiesInFour ==
  ASSUME NEW a \in Seq(Units), NEW b \in Seq(Units), NEW c \in Seq(Units), NEW d \in Seq(Units),
         NEW f, Len(f) \in Nat, LiesAt(f, 1, ((a \o b) \o c) \o d)
  PROVE  /\ LiesAt(f, 1 + Len(a), b) /\ LiesAt(f, 1 + Len(a) + Len(b), c)
         /\ LiesAt(f, 1 + Len(a) + Len(b) + Len(c), d)
<1>1. a \o b \in Seq(Units) /\ Len(a \o b) = Len(a) + Len(b)
  BY ConcatProperties
<1> DEFINE ab == a \o b
<1>2. ab \in Seq(Units) /\ Len(ab) = Len(a) + Len(b)
  BY <1>1
<1> HIDE DEF ab
<1>3. ab \o c \in Seq(Units) /\ Len(ab \o c) = Len(ab) + Len(c)
  BY <1>2, ConcatProperties
<1> DEFINE abc == ab \o c
<1>4. abc \in Seq(Units) /\ Len(abc) = Len(ab) + Len(c)
  BY <1>3
<1> HIDE DEF abc
<1>5. Len(a) \in Nat /\ Len(b) \in Nat /\ Len(c) \in Nat /\ 1 \in Nat \ {0}
  BY LenProperties
<1>6. LiesAt(f, 1, abc \o d)
  BY DEF abc, ab
<1>7. LiesAt(f, 1, abc) /\ LiesAt(f, 1 + Len(abc), d)
  BY <1>4, <1>5, <1>6, LiesInParts
<1>8. LiesAt(f, 1, ab \o c)
  BY <1>7 DEF abc
<1>9. LiesAt(f, 1, ab) /\ LiesAt(f, 1 + Len(ab), c)
  BY <1>2, <1>5, <1>8, LiesInParts
<1>10. LiesAt(f, 1, a \o b)
  BY <1>9 DEF ab
<1>11. LiesAt(f, 1 + Len(a), b)
  BY <1>5, <1>10, LiesInParts
<1>12. 1 + Len(ab) = 1 + Len(a) + Len(b) /\ 1 + Len(abc) = 1 + Len(a) + Len(b) + Len(c)
  BY <1>2, <1>4, <1>5
<1> QED
  BY <1>7, <1>9, <1>11, <1>12

LEMMA RecordFacts ==
  ASSUME NEW r, IsRecord(r), NEW order, IsOrder(order, r.blocks)
  PROVE  PutRecord(r, order) \in Seq(Units) /\ Len(PutRecord(r, order)) = SizeOfRecord(r)
<1> DEFINE a == <<Head1>>
           b == Put(r.pieces)
           c == <<Number(Cardinality(DOMAIN r.blocks))>>
           d == PutBlocks(r.blocks, order)
<1>1. /\ a \in Seq(Units) /\ b \in Seq(Units) /\ c \in Seq(Units) /\ d \in Seq(Units)
      /\ Len(a) = 1 /\ Len(b) = Size(r.pieces) /\ Len(c) = 1
      /\ Len(d) = SizeOfBlocks(r.blocks)
      /\ PutRecord(r, order) = ((a \o b) \o c) \o d
  BY RecordParts
<1> HIDE DEF a, b, c, d
<1>1a. a \in Seq(Units) /\ b \in Seq(Units) /\ c \in Seq(Units) /\ d \in Seq(Units)
  BY <1>1
<1>2a. /\ ((a \o b) \o c) \o d \in Seq(Units)
       /\ Len(((a \o b) \o c) \o d) = Len(a) + Len(b) + Len(c) + Len(d)
  BY <1>1a, JoinFour
<1> DEFINE all == ((a \o b) \o c) \o d
<1> HIDE DEF all
<1>2. all \in Seq(Units) /\ Len(all) = Len(a) + Len(b) + Len(c) + Len(d)
  BY <1>2a DEF all
<1>3. Len(all) = 1 + Size(r.pieces) + 1 + SizeOfBlocks(r.blocks)
  BY <1>1, <1>2
<1>4. PutRecord(r, order) = all
  BY <1>1 DEF all
<1> QED
  BY <1>2, <1>3, <1>4 DEF SizeOfRecord

LEMMA RecordReadsBack ==
  ASSUME NEW r, IsRecord(r), NEW order, IsOrder(order, r.blocks),
         NEW f, Len(f) \in Nat, LiesAt(f, 1, PutRecord(r, order))
  PROVE  IF Cardinality(DOMAIN r.blocks) > MaxElems THEN ~GetRecord(f).ok
         ELSE GetRecord(f).ok /\ GetRecord(f).record = r
<1> DEFINE n == Cardinality(DOMAIN r.blocks)
           a == <<Head1>>
           b == Put(r.pieces)
           c == <<Number(n)>>
           d == PutBlocks(r.blocks, order)
<1>1. /\ a \in Seq(Units) /\ b \in Seq(Units) /\ c \in Seq(Units) /\ d \in Seq(Units)
      /\ Len(a) = 1 /\ Len(c) = 1
      /\ PutRecord(r, order) = ((a \o b) \o c) \o d
  BY RecordParts
<1>2. c[1] = Number(n)
  OBVIOUS
<1>3. IsBlocks(r.blocks) /\ WellFormed(r.pieces) /\ r.pieces.bits < CountLimit
      /\ r = Record(r.pieces, r.blocks)
  BY DEF IsRecord, IsField
<1> HIDE DEF a, b, c, d, n
<1>4. /\ LiesAt(f, 1 + Len(a), b) /\ LiesAt(f, 1 + Len(a) + Len(b), c)
      /\ LiesAt(f, 1 + Len(a) + Len(b) + Len(c), d)
      /\ Len(b) \in Nat /\ Len(c) \in Nat
  <2>1. LiesAt(f, 1, ((a \o b) \o c) \o d)
    BY <1>1
  <2> QED
    BY <1>1, <2>1, LiesInFour, LenProperties
<1> DEFINE nx == 2 + Len(b)
<1>5. nx \in Nat \ {0} /\ nx + 1 \in Nat \ {0}
  BY <1>4
<1>6. LiesAt(f, 2, b) /\ LiesAt(f, nx, c) /\ LiesAt(f, nx + 1, d)
  <2>1. 1 + Len(a) = 2 /\ 1 + Len(a) + Len(b) = nx /\ 1 + Len(a) + Len(b) + Len(c) = nx + 1
    BY <1>1, <1>4
  <2> HIDE DEF nx
  <2> QED
    BY <1>4, <2>1
<1>7. Get(f, 2) = [ok |-> TRUE, next |-> nx, bf |-> r.pieces] /\ 2 <= Len(f)
  <2>1. 2 \in Nat \ {0} /\ LiesAt(f, 2, Put(r.pieces))
    BY <1>6 DEF b
  <2>2. /\ 2 <= Len(f)
        /\ Get(f, 2) = [ok |-> TRUE, next |-> 2 + Len(Put(r.pieces)), bf |-> r.pieces]
    BY <1>3, <2>1, GetFacts
  <2> QED
    BY <2>2 DEF b
<1> HIDE DEF nx
<1>8. nx <= Len(f) /\ f[nx] = Number(n)
  <2>1. nx + Len(c) - 1 <= Len(f) /\ \A k \in 1..Len(c) : f[nx + k - 1] = c[k]
    BY <1>6 DEF LiesAt
  <2>2. 1 \in 1..Len(c) /\ nx + 1 - 1 = nx
    BY <1>1, <1>5
  <2> QED
    BY <1>1, <1>2, <1>5, <2>1, <2>2
<1>9. f[nx].value = n
  BY <1>8 DEF Number
<1>10. f # <<>> /\ ~(nx > Len(f))
  BY <1>5, <1>7, <1>8
<1>11. PICK e : GetBlocks(f, nx + 1, n) = [ok |-> TRUE, next |-> e, blocks |-> r.blocks]
  <2>1. LiesAt(f, nx + 1, PutBlocks(r.blocks, order))
    BY <1>6 DEF d
  <2> DEFINE m == r.blocks
             at == nx + 1
  <2>2. IsBlocks(m) /\ IsOrder(order, m) /\ LiesAt(f, at, PutBlocks(m, order)) /\ at \in Nat \ {0}
    BY <1>3, <1>5, <2>1
  <2> HIDE DEF m, at
  <2>3. \E e : GetBlocks(f, at, Cardinality(DOMAIN m)) = [ok |-> TRUE, next |-> e, blocks |-> m]
    BY <2>2, BlocksReadBack
  <2> QED
    BY <2>3 DEF n, m, at
<1> DEFINE ps == [ok |-> TRUE, next |-> nx, bf |-> r.pieces]
           bs == [ok |-> TRUE, next |-> e, blocks |-> r.blocks]
<1>12. ps.ok /\ ps.next = nx /\ ps.bf = r.pieces /\ bs.ok /\ bs.blocks = r.blocks
  OBVIOUS
<1> HIDE DEF ps, bs
<1>13. Get(f, 2) = ps /\ GetBlocks(f, nx + 1, n) = bs
  BY <1>7, <1>11 DEF ps, bs
<1>14. CASE n > MaxElems
  <2>1. GetRecord(f) = [ok |-> FALSE]
    BY <1>9, <1>10, <1>12, <1>13, <1>14, Zenon DEF GetRecord
  <2> QED
    BY <1>14, <2>1 DEF n
<1>15. CASE ~(n > MaxElems)
  <2>1. GetRecord(f) = [ok |-> TRUE, record |-> Record(r.pieces, r.blocks)]
    BY <1>9, <1>10, <1>12, <1>13, <1>15, Zenon DEF GetRecord
  <2>2. GetRecord(f).ok /\ GetRecord(f).record = Record(r.pieces, r.blocks)
    BY <2>1
  <2> QED
    BY <1>3, <1>15, <2>2 DEF n
<1> QED
  BY <1>14, <1>15

----------------------------------------------------------------------------
(* The inductive invariant.                                                 *)

\* A piece that is marked is under way or was found right.
Sound(ps, bs, good) ==
  /\ IsField(ps) /\ bs = [p \in DOMAIN bs |-> bs[p]]
  /\ DOMAIN bs \subseteq Elements(ps) /\ \A p \in DOMAIN bs : IsField(bs[p])
  /\ Elements(ps) \ DOMAIN bs \subseteq good

RecordSound(r, good) ==
  /\ r = Record(r.pieces, r.blocks) /\ Sound(r.pieces, r.blocks, good)
  /\ r.pieces.bits = NumPieces

Types ==
  /\ transfer \in {"none", "running", "panicked", "finished"}
  /\ lastBlocks \in {0, LastPieceBlocks} /\ verified \subseteq Pieces
  /\ opened \in BOOLEAN /\ torn \in BOOLEAN /\ errors \in 0..MaxWriteErrors
  /\ transfer = "finished" => verified = Pieces

PickerSound ==
  /\ Sound(pieces, blocks, verified)
  /\ pieces.bits = IF transfer = "none" THEN 0 ELSE NumPieces

RecordsSound ==
  /\ handed # NoRecord => RecordSound(handed, verified)
  /\ written # NoRecord => RecordSound(written, verified)

\* A file that is not torn begins with the record that was written last.
FileHolds ==
  /\ file # NoFile => file \in Seq(Units)
  /\ opened => handed # NoRecord /\ file \in Seq(Units)
  /\ written # NoRecord /\ ~torn =>
       /\ file \in Seq(Units)
       /\ \E order \in SetToSeqs(DOMAIN written.blocks) : LiesAt(file, 1, PutRecord(written, order))
  /\ written = NoRecord /\ ~torn => file \in {NoFile, <<>>}

IInv == Types /\ PickerSound /\ RecordsSound /\ FileHolds

LEMMA ConstantFacts ==
  /\ NumPieces \in Nat \ {0} /\ NumPieces < CountLimit /\ CountLimit \in Nat
  /\ BlocksPerPiece \in Nat \ {0} /\ BlocksPerPiece < CountLimit
  /\ LastPieceBlocks \in Nat \ {0} /\ LastPieceBlocks < CountLimit
  /\ Pieces = 0..(NumPieces - 1) /\ CutAt \subseteq Nat
  BY ResumeAssumption DEF BitFieldAssumption, Pieces

LEMMA ElementsInRange ==
  ASSUME NEW bf, IsField(bf)
  PROVE  /\ bf.bits \in Nat /\ Elements(bf) \subseteq 0..(bf.bits - 1)
         /\ IsFiniteSet(Elements(bf)) /\ WellFormed(bf)
  BY CountFacts DEF IsField, WellFormed, Elements

LEMMA SoundBlocks ==
  ASSUME NEW ps, NEW bs, NEW good, Sound(ps, bs, good), ps.bits <= NumPieces
  PROVE  IsBlocks(bs)
<1> DEFINE n == ps.bits
<1>1. /\ n \in Nat /\ n <= NumPieces /\ DOMAIN bs \subseteq 0..(n - 1)
      /\ bs = [p \in DOMAIN bs |-> bs[p]] /\ \A p \in DOMAIN bs : IsField(bs[p])
  BY ElementsInRange DEF Sound
<1> HIDE DEF n
<1>2. IsFiniteSet(0..(n - 1)) /\ Cardinality(0..(n - 1)) = n
  <2>1. /\ IsFiniteSet(0..(n - 1))
        /\ Cardinality(0..(n - 1)) = IF 0 > n - 1 THEN 0 ELSE (n - 1) - 0 + 1
    BY <1>1, FS_Interval
  <2> QED
    BY <1>1, <2>1
<1>3. /\ IsFiniteSet(DOMAIN bs) /\ Cardinality(DOMAIN bs) <= n /\ Cardinality(DOMAIN bs) \in Nat
  <2>1. IsFiniteSet(DOMAIN bs) /\ Cardinality(DOMAIN bs) <= Cardinality(0..(n - 1))
    BY <1>1, <1>2, FS_Subset
  <2> QED
    BY <1>2, <2>1, FS_CardinalityType
<1>4. Cardinality(DOMAIN bs) < CountLimit
  BY <1>1, <1>3, ConstantFacts
<1> QED
  BY <1>1, <1>3, <1>4 DEF IsBlocks

LEMMA RecordSoundFacts ==
  ASSUME NEW r, NEW good, RecordSound(r, good)
  PROVE  /\ IsRecord(r) /\ IsField(r.pieces) /\ \A p \in DOMAIN r.blocks : IsField(r.blocks[p])
         /\ DOMAIN r.blocks \subseteq Elements(r.pieces)
         /\ Complete(r) \subseteq good
<1>1. /\ r = Record(r.pieces, r.blocks) /\ Sound(r.pieces, r.blocks, good)
      /\ r.pieces.bits = NumPieces
  BY DEF RecordSound
<1>2. IsBlocks(r.blocks)
  BY <1>1, SoundBlocks, ConstantFacts
<1> QED
  BY <1>1, <1>2 DEF IsRecord, Sound, Complete

LEMMA SoundMore ==
  ASSUME NEW ps, NEW bs, NEW good, NEW more, Sound(ps, bs, good), good \subseteq more
  PROVE  Sound(ps, bs, more)
  BY DEF Sound

LEMMA RecordIsSound ==
  ASSUME NEW ps, NEW bs, NEW good, Sound(ps, bs, good), ps.bits = NumPieces
  PROVE  RecordSound(Record(ps, bs), good)
<1>1. Record(ps, bs).pieces = ps /\ Record(ps, bs).blocks = bs
  BY DEF Record
<1> QED
  BY <1>1 DEF RecordSound

LEMMA StartIsSound ==
  ASSUME NEW n \in 0..NumPieces, NEW good
  PROVE  /\ Sound(CreateBitField(n), NoBlocks, good) /\ CreateBitField(n).bits = n
<1>1. n \in Nat /\ n < CountLimit
  BY ConstantFacts
<1>2. /\ WellFormed(CreateBitField(n)) /\ CreateBitField(n).bits = n
      /\ Elements(CreateBitField(n)) = {}
  BY <1>1, CreateFacts
<1>3. NoBlocks = [p \in DOMAIN NoBlocks |-> NoBlocks[p]] /\ DOMAIN NoBlocks = {}
  BY DEF NoBlocks
<1> QED
  BY <1>1, <1>2, <1>3 DEF Sound, IsField

LEMMA ChosenIsSound ==
  ASSUME NEW ps, NEW bs, NEW good, Sound(ps, bs, good), NEW p \in Nat, p < ps.bits,
         NEW bf, IsField(bf)
  PROVE  /\ Sound(SetBit(ps, p), WithEntry(bs, p, bf), good)
         /\ SetBit(ps, p).bits = ps.bits
<1> DEFINE c == SetBit(ps, p)
           m == WithEntry(bs, p, bf)
<1>1. WellFormed(c) /\ c.bits = ps.bits /\ Elements(c) = Elements(ps) \cup {p}
  BY SetBitFacts DEF Sound, IsField
<1>2. IsField(c)
  BY <1>1 DEF Sound, IsField
<1>3. /\ m = [q \in DOMAIN m |-> m[q]] /\ DOMAIN m = DOMAIN bs \cup {p}
      /\ \A q \in DOMAIN m : m[q] = IF q = p THEN bf ELSE bs[q]
  BY DEF WithEntry
<1> HIDE DEF c, m
<1>4. Sound(c, m, good)
  BY <1>1, <1>2, <1>3 DEF Sound
<1> QED
  BY <1>1, <1>4 DEF c, m

LEMMA FinishedIsSound ==
  ASSUME NEW ps, NEW bs, NEW good, Sound(ps, bs, good), NEW p \in DOMAIN bs,
         NEW b \in Nat, b < bs[p].bits
  PROVE  Sound(ps, [bs EXCEPT ![p] = SetBit(@, b)], good)
<1> DEFINE c == SetBit(bs[p], b)
           m == [bs EXCEPT ![p] = c]
<1>1. IsField(c)
  <2>1. WellFormed(bs[p]) /\ bs[p].bits < CountLimit
    BY DEF Sound, IsField
  <2> QED
    BY <2>1, SetBitFacts DEF IsField
<1> HIDE DEF c
<1>2. /\ m = [q \in DOMAIN m |-> m[q]] /\ DOMAIN m = DOMAIN bs
      /\ \A q \in DOMAIN m : m[q] = IF q = p THEN c ELSE bs[q]
  BY DEF Sound
<1> HIDE DEF m
<1>3. Sound(ps, m, good)
  BY <1>1, <1>2 DEF Sound
<1> QED
  BY <1>3 DEF m, c

LEMMA LeftIsSound ==
  ASSUME NEW ps, NEW bs, NEW good, Sound(ps, bs, good), NEW p \in DOMAIN bs, p \in Nat, p < ps.bits
  PROVE  LET left == Restrict(bs, DOMAIN bs \ {p}) IN
         /\ Sound(ps, left, good \cup {p})
         /\ Sound(ClearBit(ps, p), left, good) /\ ClearBit(ps, p).bits = ps.bits
<1> DEFINE left == Restrict(bs, DOMAIN bs \ {p})
           c == ClearBit(ps, p)
<1>1. WellFormed(c) /\ c.bits = ps.bits /\ Elements(c) = Elements(ps) \ {p}
  BY ClearBitFacts DEF Sound, IsField
<1>2. IsField(c)
  BY <1>1 DEF Sound, IsField
<1>3. /\ left = [q \in DOMAIN left |-> left[q]] /\ DOMAIN left = DOMAIN bs \ {p}
      /\ \A q \in DOMAIN left : left[q] = bs[q]
  BY DEF Restrict
<1> HIDE DEF c, left
<1>4. Sound(ps, left, good \cup {p})
  BY <1>3 DEF Sound
<1>5. Sound(c, left, good)
  BY <1>1, <1>2, <1>3 DEF Sound
<1> QED
  BY <1>1, <1>4, <1>5 DEF c, left

----------------------------------------------------------------------------
(* Each step keeps it.                                                      *)
LEMMA OverwrittenFacts ==
  ASSUME NEW f \in Seq(Units), NEW data \in Seq(Units)
  PROVE  /\ Overwritten(f, data) \in Seq(Units) /\ LiesAt(Overwritten(f, data), 1, data)
         /\ Len(data) = 0 => Overwritten(f, data) = f
<1> DEFINE m == Len(data)
           tail == SubSeq(f, m + 1, Len(f))
<1>1. m \in Nat /\ Len(f) \in Nat
  BY LenProperties
<1>2. tail \in Seq(Units)
  <2>1. \A i \in (m + 1)..Len(f) : f[i] \in Units
    BY <1>1
  <2> HIDE DEF m
  <2> QED
    BY <1>1, <2>1, SubSeqProperties
<1> HIDE DEF tail
<1>3. data \o tail \in Seq(Units) /\ Len(data \o tail) = m + Len(tail) /\ Len(tail) \in Nat
      /\ \A i \in 1..(m + Len(tail)) :
           (data \o tail)[i] = IF i <= m THEN data[i] ELSE tail[i - m]
  BY <1>2, ConcatProperties, LenProperties
<1> HIDE DEF m
<1>4. LiesAt(data \o tail, 1, data)
  <2>1. 1 + m - 1 <= Len(data \o tail)
    BY <1>1, <1>3
  <2>2. ASSUME NEW k \in 1..m PROVE (data \o tail)[1 + k - 1] = data[k]
    <3>1. k \in 1..(m + Len(tail)) /\ k <= m /\ 1 + k - 1 = k
      BY <1>1, <1>3
    <3> QED
      BY <1>3, <3>1
  <2> QED
    BY <2>1, <2>2 DEF LiesAt, m
<1>5. ASSUME m = 0 PROVE data \o tail = f
  <2>1. data = <<>>
    BY <1>5, EmptySeq DEF m
  <2>2. tail = f
    <3>1. m + 1 = 1
      BY <1>5
    <3>2. SubSeq(f, 1, Len(f)) = f
      BY SubSeqFull
    <3> QED
      BY <3>1, <3>2, Zenon DEF tail
  <2> QED
    BY <2>1, <2>2, ConcatEmptySeq
<1>6. Overwritten(f, data) = data \o tail
  BY Zenon DEF Overwritten, tail, m
<1> QED
  BY <1>3, <1>4, <1>5, <1>6 DEF m

\* The transfer hands a record over while the session has none: nothing is written.
LEMMA HandKeeps ==
  ASSUME RecordsSound, FileHolds, handed = NoRecord,
         RecordSound(handed', verified'), verified \subseteq verified',
         UNCHANGED <<opened, file, written, torn, errors>>
  PROVE  RecordsSound' /\ FileHolds'
<1>1. ~opened
  BY DEF FileHolds
<1>2. FileHolds'
  BY <1>1 DEF FileHolds
<1>3. ASSUME written # NoRecord PROVE RecordSound(written, verified')
  BY <1>3, SoundMore DEF RecordsSound, RecordSound
<1>4. RecordsSound'
  BY <1>3 DEF RecordsSound
<1> QED
  BY <1>2, <1>4

LEMMA InitHolds == Init => IInv
<1> SUFFICES ASSUME Init PROVE IInv
  OBVIOUS
<1>1. Types
  <2>1. 0 \in 0..MaxWriteErrors
    BY ResumeAssumption
  <2> QED
    BY <2>1 DEF Init, Types
<1>2. PickerSound
  <2>1. 0 \in 0..NumPieces
    BY ConstantFacts
  <2>2. Sound(CreateBitField(0), NoBlocks, {}) /\ CreateBitField(0).bits = 0
    BY <2>1, StartIsSound
  <2> QED
    BY <2>2 DEF Init, PickerSound
<1>3. RecordsSound
  BY DEF Init, RecordsSound
<1>4. FileHolds
  BY DEF Init, FileHolds
<1> QED
  BY <1>1, <1>2, <1>3, <1>4 DEF IInv

LEMMA AddKeeps == IInv /\ Add => IInv'
<1> SUFFICES ASSUME IInv, Add PROVE IInv'
  OBVIOUS
<1>0. Types /\ PickerSound /\ RecordsSound /\ FileHolds
  BY DEF IInv
<1>1. /\ transfer' = "running" /\ handed = NoRecord
      /\ pieces' = CreateBitField(NumPieces) /\ blocks' = NoBlocks
      /\ lastBlocks' = LastPieceBlocks /\ handed' = Record(pieces', blocks')
      /\ UNCHANGED <<verified, opened, file, written, torn, errors>>
  BY DEF Add
<1>2. Sound(pieces', blocks', verified') /\ pieces'.bits = NumPieces
  <2>1. NumPieces \in 0..NumPieces
    BY ConstantFacts
  <2>2. /\ Sound(CreateBitField(NumPieces), NoBlocks, verified)
        /\ CreateBitField(NumPieces).bits = NumPieces
    BY <2>1, StartIsSound
  <2> QED
    BY <1>1, <2>2
<1>3. RecordSound(handed', verified')
  BY <1>1, <1>2, RecordIsSound
<1>4. RecordsSound' /\ FileHolds'
  BY <1>0, <1>1, <1>3, HandKeeps
<1>5. Types'
  BY <1>0, <1>1 DEF Types
<1>6. PickerSound'
  BY <1>1, <1>2 DEF PickerSound
<1> QED
  BY <1>4, <1>5, <1>6 DEF IInv

LEMMA ChoosePieceKeeps == IInv /\ ChoosePiece => IInv'
<1> SUFFICES ASSUME IInv, ChoosePiece PROVE IInv'
  OBVIOUS
<1>0. Types /\ PickerSound /\ RecordsSound /\ FileHolds
  BY DEF IInv
<1>1. PICK p \in Pieces :
        /\ transfer = "running"
        /\ blocks' = WithEntry(blocks, p, CreateBitField(BlocksInPiece(p)))
        /\ pieces' = SetBit(pieces, p)
        /\ UNCHANGED <<transfer, lastBlocks, verified, session>>
  BY DEF ChoosePiece
<1>2. Sound(pieces, blocks, verified) /\ pieces.bits = NumPieces
  BY <1>0, <1>1 DEF PickerSound
<1>3. p \in Nat /\ p < pieces.bits
  BY <1>2, ConstantFacts
<1>4. IsField(CreateBitField(BlocksInPiece(p)))
  <2> DEFINE n == BlocksInPiece(p)
  <2>1. n \in Nat /\ n < CountLimit
    BY <1>0, ConstantFacts DEF BlocksInPiece, Types
  <2> HIDE DEF n
  <2>2. WellFormed(CreateBitField(n)) /\ CreateBitField(n).bits = n
    BY <2>1, CreateFacts
  <2> QED
    BY <2>1, <2>2 DEF IsField, n
<1>5. Sound(pieces', blocks', verified') /\ pieces'.bits = NumPieces
  <2> DEFINE bf == CreateBitField(BlocksInPiece(p))
  <2>1. IsField(bf)
    BY <1>4
  <2> HIDE DEF bf
  <2>2. /\ Sound(SetBit(pieces, p), WithEntry(blocks, p, bf), verified)
        /\ SetBit(pieces, p).bits = pieces.bits
    BY <1>2, <1>3, <2>1, ChosenIsSound
  <2> QED
    BY <1>1, <1>2, <2>2 DEF bf
<1>6. Types'
  BY <1>0, <1>1 DEF Types, session
<1>7. PickerSound'
  BY <1>1, <1>5 DEF PickerSound
<1>8. RecordsSound'
  BY <1>0, <1>1 DEF RecordsSound, session
<1>9. FileHolds'
  BY <1>0, <1>1 DEF FileHolds, session
<1> QED
  BY <1>6, <1>7, <1>8, <1>9 DEF IInv

LEMMA FinishBlockKeeps ==
  ASSUME NEW p \in Pieces, NEW b \in 0..(BlocksPerPiece - 1), IInv, FinishBlock(p, b)
  PROVE  IInv'
<1>0. Types /\ PickerSound /\ RecordsSound /\ FileHolds
  BY DEF IInv
<1>1. /\ transfer = "running" /\ p \in DOMAIN blocks /\ b < blocks[p].bits
      /\ blocks' = [blocks EXCEPT ![p] = SetBit(@, b)]
      /\ handed = NoRecord /\ handed' = Record(pieces, blocks')
      /\ UNCHANGED <<transfer, pieces, lastBlocks, verified>>
      /\ UNCHANGED <<opened, file, written, torn, errors>>
  BY DEF FinishBlock, Hand, DownloadedBlocks
<1>2. Sound(pieces, blocks, verified) /\ pieces.bits = NumPieces
  BY <1>0, <1>1 DEF PickerSound
<1>3. Sound(pieces, [blocks EXCEPT ![p] = SetBit(@, b)], verified)
  <2>1. b \in Nat
    BY ConstantFacts
  <2> QED
    BY <1>1, <1>2, <2>1, FinishedIsSound
<1>4. Sound(pieces, blocks', verified)
  BY <1>1, <1>3
<1>5. RecordSound(handed', verified')
  BY <1>1, <1>2, <1>4, RecordIsSound
<1>6. RecordsSound' /\ FileHolds'
  BY <1>0, <1>1, <1>5, HandKeeps
<1>7. Types'
  BY <1>0, <1>1 DEF Types
<1>8. PickerSound'
  BY <1>1, <1>2, <1>4 DEF PickerSound
<1> QED
  BY <1>6, <1>7, <1>8 DEF IInv

LEMMA SetHaveKeeps ==
  ASSUME NEW p \in Pieces, IInv, SetHave(p)
  PROVE  IInv'
<1>0. Types /\ PickerSound /\ RecordsSound /\ FileHolds
  BY DEF IInv
<1>1. /\ transfer = "running" /\ p \in DOMAIN blocks
      /\ blocks' = Restrict(blocks, DOMAIN blocks \ {p})
      /\ verified' = verified \cup {p}
      /\ handed = NoRecord /\ handed' = Record(pieces, blocks')
      /\ UNCHANGED <<transfer, pieces, lastBlocks>>
      /\ UNCHANGED <<opened, file, written, torn, errors>>
  BY DEF SetHave, IsFull, Hand, DownloadedBlocks
<1>2. Sound(pieces, blocks, verified) /\ pieces.bits = NumPieces
  BY <1>0, <1>1 DEF PickerSound
<1>3. Sound(pieces, Restrict(blocks, DOMAIN blocks \ {p}), verified \cup {p})
  <2>1. p \in Nat /\ p < pieces.bits
    BY <1>2, ConstantFacts
  <2> QED
    BY <1>1, <1>2, <2>1, LeftIsSound
<1>4. Sound(pieces, blocks', verified')
  BY <1>1, <1>3
<1>5. RecordSound(handed', verified')
  BY <1>1, <1>2, <1>4, RecordIsSound
<1>6. RecordsSound' /\ FileHolds'
  <2>1. verified \subseteq verified'
    BY <1>1
  <2> QED
    BY <1>0, <1>1, <1>5, <2>1, HandKeeps
<1>7. Types'
  BY <1>0, <1>1 DEF Types
<1>8. PickerSound'
  BY <1>1, <1>2, <1>4 DEF PickerSound
<1> QED
  BY <1>6, <1>7, <1>8 DEF IInv

LEMMA RemoveKeeps ==
  ASSUME NEW p \in Pieces, IInv, RemoveDownloadingPiece(p)
  PROVE  IInv'
<1>0. Types /\ PickerSound /\ RecordsSound /\ FileHolds
  BY DEF IInv
<1>1. /\ transfer = "running" /\ transfer' = "panicked" /\ p \in DOMAIN blocks
      /\ blocks' = Restrict(blocks, DOMAIN blocks \ {p})
      /\ pieces' = ClearBit(pieces, p)
      /\ handed = NoRecord /\ handed' = Record(pieces', blocks')
      /\ UNCHANGED <<lastBlocks, verified>>
      /\ UNCHANGED <<opened, file, written, torn, errors>>
  BY DEF RemoveDownloadingPiece, IsFull, Hand, DownloadedBlocks
<1>2. Sound(pieces, blocks, verified) /\ pieces.bits = NumPieces
  BY <1>0, <1>1 DEF PickerSound
<1>3. /\ Sound(ClearBit(pieces, p), Restrict(blocks, DOMAIN blocks \ {p}), verified)
      /\ ClearBit(pieces, p).bits = pieces.bits
  <2>1. p \in Nat /\ p < pieces.bits
    BY <1>2, ConstantFacts
  <2> QED
    BY <1>1, <1>2, <2>1, LeftIsSound
<1>4. Sound(pieces', blocks', verified) /\ pieces'.bits = NumPieces
  BY <1>1, <1>2, <1>3
<1>5. RecordSound(handed', verified')
  BY <1>1, <1>4, RecordIsSound
<1>6. RecordsSound' /\ FileHolds'
  BY <1>0, <1>1, <1>5, HandKeeps
<1>7. Types'
  BY <1>0, <1>1 DEF Types
<1>8. PickerSound'
  BY <1>1, <1>4 DEF PickerSound
<1> QED
  BY <1>6, <1>7, <1>8 DEF IInv

LEMMA OpenKeeps == IInv /\ OpenResumeFile => IInv'
<1> SUFFICES ASSUME IInv, OpenResumeFile PROVE IInv'
  OBVIOUS
<1>0. Types /\ PickerSound /\ RecordsSound /\ FileHolds
  BY DEF IInv
<1>1. /\ handed # NoRecord /\ opened' = TRUE
      /\ file' = IF file = NoFile THEN <<>> ELSE file
      /\ UNCHANGED <<handed, written, torn, errors>> /\ UNCHANGED picker
  BY DEF OpenResumeFile
<1>2. Types'
  BY <1>0, <1>1 DEF Types, picker
<1>3. PickerSound'
  BY <1>0, <1>1 DEF PickerSound, picker
<1>4. RecordsSound'
  BY <1>0, <1>1 DEF RecordsSound, picker
<1>5. FileHolds'
  <2>1. <<>> \in Seq(Units)
    BY EmptySeq
  <2>2. CASE file = NoFile
    <3>1. file' = <<>> /\ file \notin Seq(Units)
      BY <1>1, <2>2, ResumeAssumption
    <3> QED
      BY <1>0, <1>1, <2>1, <3>1 DEF FileHolds
  <2>3. CASE file # NoFile
    BY <1>0, <1>1, <2>3 DEF FileHolds
  <2> QED
    BY <2>2, <2>3
<1> QED
  BY <1>2, <1>3, <1>4, <1>5 DEF IInv

\* What the session has opened is a file, and it has a record for it.
LEMMA OpenedFacts ==
  ASSUME IInv, opened
  PROVE  /\ handed # NoRecord /\ file \in Seq(Units) /\ RecordSound(handed, verified)
         /\ \A order \in SetToSeqs(DOMAIN handed.blocks) :
              /\ PutRecord(handed, order) \in Seq(Units)
              /\ Len(PutRecord(handed, order)) = SizeOfRecord(handed)
<1>1. handed # NoRecord /\ file \in Seq(Units) /\ RecordSound(handed, verified)
  BY DEF IInv, FileHolds, RecordsSound
<1>2. IsRecord(handed)
  BY <1>1, RecordSoundFacts
<1>3. ASSUME NEW order \in SetToSeqs(DOMAIN handed.blocks)
      PROVE  /\ PutRecord(handed, order) \in Seq(Units)
             /\ Len(PutRecord(handed, order)) = SizeOfRecord(handed)
  <2>1. IsBlocks(handed.blocks)
    BY <1>2 DEF IsRecord
  <2>2. IsOrder(order, handed.blocks)
    BY <1>3, <2>1, OrderVisitsAll
  <2> QED
    BY <1>2, <2>2, RecordFacts
<1> QED
  BY <1>1, <1>3

LEMMA WriteKeeps == IInv /\ WriteRecord => IInv'
<1> SUFFICES ASSUME IInv, WriteRecord PROVE IInv'
  OBVIOUS
<1>0. Types /\ PickerSound /\ RecordsSound /\ FileHolds
  BY DEF IInv
<1>1. PICK order \in SetToSeqs(DOMAIN handed.blocks) :
        /\ opened
        /\ file' = Overwritten(file, PutRecord(handed, order))
        /\ written' = handed /\ torn' = FALSE
        /\ handed' = NoRecord /\ opened' = FALSE
        /\ UNCHANGED errors /\ UNCHANGED picker
  BY DEF WriteRecord
<1>2. /\ handed # NoRecord /\ RecordSound(handed, verified)
      /\ file \in Seq(Units) /\ PutRecord(handed, order) \in Seq(Units)
  BY <1>1, OpenedFacts
<1>3. file' \in Seq(Units) /\ LiesAt(file', 1, PutRecord(handed, order))
  BY <1>1, <1>2, OverwrittenFacts
<1>4. Types'
  BY <1>0, <1>1 DEF Types, picker
<1>5. PickerSound'
  BY <1>0, <1>1 DEF PickerSound, picker
<1>6. RecordsSound'
  BY <1>1, <1>2 DEF RecordsSound, picker
<1>7. FileHolds'
  BY <1>1, <1>2, <1>3 DEF FileHolds
<1> QED
  BY <1>4, <1>5, <1>6, <1>7 DEF IInv

LEMMA WriteFailsKeeps == IInv /\ WriteFails => IInv'
<1> SUFFICES ASSUME IInv, WriteFails PROVE IInv'
  OBVIOUS
<1>0. Types /\ PickerSound /\ RecordsSound /\ FileHolds
  BY DEF IInv
<1>1. PICK order \in SetToSeqs(DOMAIN handed.blocks), k \in CutAt :
        /\ opened /\ errors < MaxWriteErrors /\ k < SizeOfRecord(handed)
        /\ file' = Overwritten(file, SubSeq(PutRecord(handed, order), 1, k))
        /\ torn' = (torn \/ k > 0)
        /\ handed' = NoRecord /\ opened' = FALSE /\ errors' = errors + 1
        /\ UNCHANGED written /\ UNCHANGED picker
  BY DEF WriteFails
<1> DEFINE data == PutRecord(handed, order)
           cut == SubSeq(data, 1, k)
<1>2. /\ handed # NoRecord /\ file \in Seq(Units)
      /\ data \in Seq(Units) /\ Len(data) = SizeOfRecord(handed)
  BY <1>1, OpenedFacts
<1>3. k \in Nat
  BY ConstantFacts
<1> HIDE DEF data
<1>4. cut \in Seq(Units) /\ (k = 0 => Len(cut) = 0)
  <2>1. k < Len(data) /\ Len(data) \in Nat
    BY <1>1, <1>2, LenProperties
  <2>2. \A i \in 1..k : data[i] \in Units
    BY <1>2, <1>3, <2>1
  <2>3. /\ SubSeq(data, 1, k) \in Seq(Units)
        /\ Len(SubSeq(data, 1, k)) = IF 1 <= k THEN k - 1 + 1 ELSE 0
    BY <1>3, <2>2, SubSeqProperties
  <2> QED
    BY <2>3
<1> HIDE DEF cut
<1>5. file' = Overwritten(file, cut)
  BY <1>1 DEF cut, data
<1>6. file' \in Seq(Units) /\ (k = 0 => file' = file)
  BY <1>2, <1>4, <1>5, OverwrittenFacts
<1>7. Types'
  <2>1. errors' \in 0..MaxWriteErrors
    BY <1>0, <1>1, ResumeAssumption DEF Types
  <2>2. torn' \in BOOLEAN
    BY <1>1
  <2> QED
    BY <1>0, <1>1, <2>1, <2>2 DEF Types, picker
<1>8. PickerSound'
  BY <1>0, <1>1 DEF PickerSound, picker
<1>9. RecordsSound'
  BY <1>0, <1>1 DEF RecordsSound, picker
<1>10. FileHolds'
  <2>1. CASE k = 0
    <3>1. ~(k > 0) /\ file' = file
      BY <1>6, <2>1
    <3>2. torn' = (torn \/ FALSE)
      BY <1>1, <3>1, Zenon
    <3>3. torn' = torn
      BY <1>0, <3>2, Zenon DEF Types
    <3> QED
      BY <1>0, <1>1, <3>1, <3>3, Zenon DEF FileHolds
  <2>2. CASE k # 0
    <3>1. k > 0
      BY <1>3, <2>2
    <3>2. torn' = (torn \/ TRUE)
      BY <1>1, <3>1, Zenon
    <3>3. torn' = TRUE
      BY <3>2, Zenon
    <3> QED
      BY <1>1, <1>6, <3>3, Zenon DEF FileHolds
  <2> QED
    BY <2>1, <2>2
<1> QED
  BY <1>7, <1>8, <1>9, <1>10 DEF IInv

LEMMA CrashKeeps == IInv /\ Crash => IInv'
<1> SUFFICES ASSUME IInv, Crash PROVE IInv'
  OBVIOUS
<1>0. Types /\ PickerSound /\ RecordsSound /\ FileHolds
  BY DEF IInv
<1>1. /\ transfer' = "none"
      /\ pieces' = CreateBitField(0) /\ blocks' = NoBlocks /\ lastBlocks' = 0
      /\ handed' = NoRecord /\ opened' = FALSE
      /\ UNCHANGED <<verified, file, written, torn, errors>>
  BY DEF Crash
<1>2. Types'
  BY <1>0, <1>1 DEF Types
<1>3. PickerSound'
  <2>1. 0 \in 0..NumPieces
    BY ConstantFacts
  <2>2. Sound(CreateBitField(0), NoBlocks, verified) /\ CreateBitField(0).bits = 0
    BY <2>1, StartIsSound
  <2> QED
    BY <1>1, <2>2 DEF PickerSound
<1>4. RecordsSound'
  BY <1>0, <1>1 DEF RecordsSound
<1>5. FileHolds'
  BY <1>0, <1>1 DEF FileHolds
<1> QED
  BY <1>2, <1>3, <1>4, <1>5 DEF IInv

\* What a file that is not torn is read as.
LEMMA WrittenReadsBack ==
  ASSUME IInv, written # NoRecord, ~torn
  PROVE  IF Cardinality(DOMAIN written.blocks) > MaxElems THEN ~GetRecord(file).ok
         ELSE GetRecord(file).ok /\ GetRecord(file).record = written
<1>1. file \in Seq(Units) /\ RecordSound(written, verified)
  BY DEF IInv, FileHolds, RecordsSound
<1>2. PICK order \in SetToSeqs(DOMAIN written.blocks) : LiesAt(file, 1, PutRecord(written, order))
  BY DEF IInv, FileHolds
<1>3. IsRecord(written) /\ IsBlocks(written.blocks)
  BY <1>1, RecordSoundFacts DEF IsRecord
<1>4. IsOrder(order, written.blocks)
  BY <1>3, OrderVisitsAll
<1>5. Len(file) \in Nat
  BY <1>1, LenProperties
<1> QED
  BY <1>2, <1>3, <1>4, <1>5, RecordReadsBack

\* A record with nothing more to get has every piece.
LEMMA NothingMissing ==
  ASSUME NEW r, NEW good, RecordSound(r, good), ~WantMoreData(r)
  PROVE  Pieces \subseteq good
<1> DEFINE E == Elements(r.pieces)
<1>1. r.pieces.bits = NumPieces /\ DOMAIN r.blocks = {} /\ Count(r.pieces) = NumPieces
  BY DEF RecordSound, WantMoreData
<1>2. IsField(r.pieces) /\ Complete(r) \subseteq good
  BY RecordSoundFacts
<1>3. /\ E \subseteq 0..(NumPieces - 1) /\ WellFormed(r.pieces)
  BY <1>1, <1>2, ElementsInRange
<1>4. Cardinality(E) = NumPieces
  <2>1. Count(r.pieces) = Cardinality(E)
    BY <1>3, CountFacts
  <2> QED
    BY <1>1, <2>1
<1> HIDE DEF E
<1>5. E = 0..(NumPieces - 1)
  <2>1. NumPieces \in Nat \ {0}
    BY ConstantFacts
  <2>2. /\ IsFiniteSet(0..(NumPieces - 1))
        /\ Cardinality(0..(NumPieces - 1))
             = IF 0 > NumPieces - 1 THEN 0 ELSE (NumPieces - 1) - 0 + 1
    BY <2>1, FS_Interval
  <2>3. Cardinality(0..(NumPieces - 1)) = NumPieces
    BY <2>1, <2>2
  <2> QED
    BY <1>3, <1>4, <2>2, <2>3, FS_Subset
<1>6. Complete(r) = E
  BY <1>1 DEF Complete, E
<1> QED
  BY <1>2, <1>5, <1>6, ConstantFacts

LEMMA RestoreKeeps == IInv /\ Restore => IInv'
<1> SUFFICES ASSUME IInv, Restore PROVE IInv'
  OBVIOUS
<1>0. Types /\ PickerSound /\ RecordsSound /\ FileHolds
  BY DEF IInv
<1> DEFINE g == GetRecord(file)
<1>1. /\ transfer = "none" /\ file # NoFile /\ ~torn /\ g.ok
      /\ transfer' = IF WantMoreData(g.record) THEN "running" ELSE "finished"
      /\ pieces' = g.record.pieces /\ blocks' = g.record.blocks
      /\ lastBlocks' = 0 /\ UNCHANGED verified /\ UNCHANGED session
  BY DEF Restore
<1>2. written # NoRecord
  <2> SUFFICES ASSUME written = NoRecord PROVE FALSE
    OBVIOUS
  <2>1. file = <<>>
    BY <1>0, <1>1 DEF FileHolds
  <2>2. g = [ok |-> FALSE]
    BY <2>1, Zenon DEF GetRecord
  <2> QED
    BY <1>1, <2>2
<1>3. g.record = written
  BY <1>1, <1>2, WrittenReadsBack
<1> HIDE DEF g
<1>4. RecordSound(written, verified)
  BY <1>0, <1>2 DEF RecordsSound
<1>5. Sound(pieces', blocks', verified') /\ pieces'.bits = NumPieces
  BY <1>1, <1>3, <1>4 DEF RecordSound
<1>6. Types'
  <2>1. CASE WantMoreData(written)
    BY <1>0, <1>1, <1>3, <2>1 DEF Types, session
  <2>2. CASE ~WantMoreData(written)
    <3>1. verified = Pieces
      BY <1>0, <1>4, <2>2, NothingMissing DEF Types
    <3> QED
      BY <1>0, <1>1, <1>3, <2>2, <3>1 DEF Types, session
  <2> QED
    BY <2>1, <2>2
<1>7. PickerSound'
  BY <1>1, <1>5 DEF PickerSound
<1>8. RecordsSound'
  BY <1>0, <1>1 DEF RecordsSound, session
<1>9. FileHolds'
  BY <1>0, <1>1 DEF FileHolds, session
<1> QED
  BY <1>6, <1>7, <1>8, <1>9 DEF IInv

LEMMA StepHolds == IInv /\ [Next]_vars => IInv'
<1> SUFFICES ASSUME IInv, [Next]_vars PROVE IInv'
  OBVIOUS
<1>1. CASE Add
  BY <1>1, AddKeeps
<1>2. CASE Restore
  BY <1>2, RestoreKeeps
<1>3. CASE ChoosePiece
  BY <1>3, ChoosePieceKeeps
<1>4. CASE \E p \in Pieces : \E b \in 0..(BlocksPerPiece - 1) : FinishBlock(p, b)
  BY <1>4, FinishBlockKeeps
<1>5. CASE \E p \in Pieces : SetHave(p)
  BY <1>5, SetHaveKeeps
<1>6. CASE \E p \in Pieces : RemoveDownloadingPiece(p)
  BY <1>6, RemoveKeeps
<1>7. CASE OpenResumeFile
  BY <1>7, OpenKeeps
<1>8. CASE WriteRecord
  BY <1>8, WriteKeeps
<1>9. CASE WriteFails
  BY <1>9, WriteFailsKeeps
<1>10. CASE Crash
  BY <1>10, CrashKeeps
<1>11. CASE UNCHANGED vars
  BY <1>11 DEF vars, IInv, Types, PickerSound, RecordsSound, FileHolds
<1> QED
  BY <1>1, <1>2, <1>3, <1>4, <1>5, <1>6, <1>7, <1>8, <1>9, <1>10, <1>11 DEF Next

\* What the invariant says of every reachable state.
LEMMA Invariance == Spec => []IInv
<1>1. Init => IInv
  BY InitHolds
<1>2. IInv /\ [Next]_vars => IInv'
  BY StepHolds
<1> QED
  BY <1>1, <1>2, PTL DEF Spec

----------------------------------------------------------------------------
(* The theorems.                                                            *)

\* Every variable has its type, and no bit at the end of a last byte is set.
THEOREM TypeCorrect == Spec => []TypeOK_ResumeFile
<1>1. IInv => TypeOK_ResumeFile
  <2> SUFFICES ASSUME IInv PROVE TypeOK_ResumeFile
    OBVIOUS
  <2>0. Types /\ PickerSound /\ RecordsSound
    BY DEF IInv
  <2>1. \A bf \in {pieces} \cup {blocks[p] : p \in DOMAIN blocks} : WellFormed(bf)
    BY <2>0 DEF PickerSound, Sound, IsField
  <2>2. DOMAIN blocks \subseteq Elements(pieces)
    BY <2>0 DEF PickerSound, Sound
  <2>3. handed # NoRecord => DOMAIN handed.blocks \subseteq Elements(handed.pieces)
    BY <2>0, RecordSoundFacts DEF RecordsSound
  <2> QED
    BY <2>0, <2>1, <2>2, <2>3 DEF Types, TypeOK_ResumeFile
<1> QED
  BY <1>1, Invariance, PTL

\* A reader of the file gets the record that was written last, in whatever order its
\* blocks were written and whatever an earlier record left behind it, over crashes
\* and failed writes; or refuses it for its number of pieces.
THEOREM RecordsReadBack == Spec => []ReadsBack
<1>1. IInv => ReadsBack
  <2> SUFFICES ASSUME IInv, written # NoRecord, ~torn
               PROVE  LET g == GetRecord(file) IN
                      IF Cardinality(DOMAIN written.blocks) > MaxElems THEN ~g.ok
                      ELSE g.ok /\ g.record = written
    BY DEF ReadsBack
  <2> QED
    BY WrittenReadsBack
<1> QED
  BY <1>1, Invariance, PTL

\* The buffer made for a record is as long as what is written to it.
THEOREM BuffersAreFilled == Spec => []FillsBuffer
<1>1. IInv => FillsBuffer
  <2> SUFFICES ASSUME IInv, handed # NoRecord, NEW order \in SetToSeqs(DOMAIN handed.blocks)
               PROVE  Len(PutRecord(handed, order)) = SizeOfRecord(handed)
    BY DEF FillsBuffer
  <2>1. IsRecord(handed) /\ IsBlocks(handed.blocks)
    BY RecordSoundFacts DEF IInv, RecordsSound, IsRecord
  <2>2. IsOrder(order, handed.blocks)
    BY <2>1, OrderVisitsAll
  <2> QED
    BY <2>1, <2>2, RecordFacts
<1> QED
  BY <1>1, Invariance, PTL

\* A piece that a record has as complete was found right, and a transfer that is
\* restored as finished has every piece, however often the process ended meanwhile.
THEOREM CompletePiecesAreVerified == Spec => []CompleteIsVerified
<1>1. IInv => CompleteIsVerified
  <2> SUFFICES ASSUME IInv PROVE CompleteIsVerified
    OBVIOUS
  <2>1. \A r \in {handed, written} \ {NoRecord} : Complete(r) \subseteq verified
    BY RecordSoundFacts DEF IInv, RecordsSound
  <2>2. transfer = "finished" => verified = Pieces
    BY DEF IInv, Types
  <2> QED
    BY <2>1, <2>2 DEF CompleteIsVerified
<1> QED
  BY <1>1, Invariance, PTL

LEMMA ThreeBytes ==
  ASSUME NEW n \in 0..(2 * ByteBits + 1)
  PROVE  BitsToBytes(n) <= 3 /\ n \in Nat
<1> DEFINE q == n \div ByteBits
           r == n % ByteBits
<1>1. n \in Nat /\ n <= 2 * ByteBits + 1 /\ ByteBits \in Nat /\ 1 <= ByteBits
  BY ByteFacts
<1>2. /\ q \in Nat /\ r \in Nat /\ n = ByteBits * q + r
      /\ BitsToBytes(n) = q + (IF r = 0 THEN 0 ELSE 1)
  BY <1>1, BytesOfBits
<1> HIDE DEF q, r
<1>3. CASE q <= 2
  BY <1>2, <1>3
<1>4. CASE q >= 3
  <2>1. ByteBits * 3 <= ByteBits * q /\ ByteBits * q \in Int
    BY <1>1, <1>2, <1>4, MulMonotone
  <2>2. ByteBits * 3 + r <= 2 * ByteBits + 1
    BY <1>1, <1>2, <2>1
  <2>3. r = 0 /\ ByteBits = 1
    BY <1>1, <1>2, <2>2
  <2>4. q = n /\ n <= 3
    BY <1>1, <1>2, <2>3
  <2> QED
    BY <1>1, <1>2, <2>3, <2>4
<1> QED
  BY <1>1, <1>2, <1>3, <1>4

\* On every bit field of a record that is being saved, counting, filling, clearing,
\* changing the size and taking bytes are the operations of sets.
THEOREM BitFieldsAreSets == Spec => []BitsAreASet
<1>1. IInv => BitsAreASet
  <2> SUFFICES ASSUME IInv PROVE BitsAreASet
    OBVIOUS
  <2> DEFINE Resized(bf, n, val) ==
               (Elements(bf) \cap 0..(n - 1)) \cup IF val THEN bf.bits..(n - 1) ELSE {}
             Is(bf, n, S) == bf.bits = n /\ WellFormed(bf) /\ Elements(bf) = S
             Fields == IF opened
                       THEN {handed.pieces} \cup {handed.blocks[p] : p \in DOMAIN handed.blocks}
                       ELSE {}
             all == [i \in 0..2 |-> Positions]
  <2>1. ASSUME NEW bf \in Fields PROVE WellFormed(bf)
    <3>1. opened
      BY <2>1
    <3>2. RecordSound(handed, verified)
      BY <3>1, OpenedFacts
    <3>3. IsField(handed.pieces) /\ \A p \in DOMAIN handed.blocks : IsField(handed.blocks[p])
      BY <3>2, RecordSoundFacts
    <3> QED
      BY <2>1, <3>1, <3>3 DEF IsField
  <2> HIDE DEF Fields
  <2>2. ASSUME NEW bf \in Fields
        PROVE  /\ Count(bf) = Cardinality(Elements(bf))
               /\ Is(SetAll(bf), bf.bits, 0..(bf.bits - 1)) /\ Is(ClearAll(bf), bf.bits, {})
    BY <2>1, <2>2, CountFacts, SetAllFacts, ClearAllFacts
  <2>3. ASSUME NEW bf \in Fields, NEW n \in 0..(2 * ByteBits + 1)
        PROVE  /\ Is(Resize(bf, n), n, Resized(bf, n, FALSE))
               /\ \A val \in BOOLEAN : Is(ResizeVal(bf, n, val), n, Resized(bf, n, val))
               /\ Is(Assign(bf, all, n), n, 0..(n - 1))
    <3>1. WellFormed(bf) /\ n \in Nat /\ BitsToBytes(n) <= 3
      BY <2>1, <2>3, ThreeBytes
    <3>2. Is(Resize(bf, n), n, Resized(bf, n, FALSE))
      BY <3>1, ResizeFacts
    <3>3. \A val \in BOOLEAN : Is(ResizeVal(bf, n, val), n, Resized(bf, n, val))
      BY <3>1, ResizeValFacts
    <3>4. \A i \in ByteRange(n) : all[i] = Positions
      <4>1. ByteRange(n) \subseteq 0..2
        BY <3>1, ByteRangeFacts DEF ByteRange
      <4> QED
        BY <4>1
    <3> HIDE DEF all
    <3>5. Is(Assign(bf, all, n), n, 0..(n - 1))
      BY <3>1, <3>4, AssignFacts
    <3> QED
      BY <3>2, <3>3, <3>5
  <2> HIDE DEF Is, Resized, all
  <2>4. \A bf \in Fields :
          /\ Count(bf) = Cardinality(Elements(bf))
          /\ Is(SetAll(bf), bf.bits, 0..(bf.bits - 1)) /\ Is(ClearAll(bf), bf.bits, {})
          /\ \A n \in 0..(2 * ByteBits + 1) :
               /\ Is(Resize(bf, n), n, Resized(bf, n, FALSE))
               /\ \A val \in BOOLEAN : Is(ResizeVal(bf, n, val), n, Resized(bf, n, val))
               /\ Is(Assign(bf, all, n), n, 0..(n - 1))
    BY <2>2, <2>3, Zenon
  <2> QED
    BY <2>4, Zenon DEF BitsAreASet, Is, Resized, all, Fields
<1> QED
  BY <1>1, Invariance, PTL
=============================================================================
