------------------------------ MODULE BitField ------------------------------
(***************************************************************************)
(* The bit field of proto/bitfield.go: a number of bits and the bytes that *)
(* hold them, the first bit in the highest position of the first byte.     *)
(* Eight bits make a byte in the program, ByteBits here.  A byte is the    *)
(* set of its positions that are 1, counted from the highest.              *)
(***************************************************************************)
EXTENDS Integers, Sequences, FiniteSets

CONSTANTS
  ByteBits,    \* bits of a byte
  CountLimit   \* a count is written with this modulus (uint16)

BitFieldAssumption == ByteBits \in Nat \ {0} /\ CountLimit \in Nat \ {0}

Positions == 0..(ByteBits - 1)
BitsToBytes(count) == (count + ByteBits - 1) \div ByteBits

\* A few bits at the end of the last byte stand for nothing; they are kept 0.
ClearTrailingBits(bf) ==
  LET rest == bf.bits % ByteBits IN
  IF rest = 0 THEN bf
  ELSE [bf EXCEPT !.bytes[BitsToBytes(bf.bits) - 1] = @ \cap 0..(rest - 1)]

CreateBitField(n) ==
  ClearTrailingBits([bits |-> n, bytes |-> [i \in 0..(BitsToBytes(n) - 1) |-> {}]])

GetBit(bf, i)   == (i % ByteBits) \in bf.bytes[i \div ByteBits]
SetBit(bf, i)   == [bf EXCEPT !.bytes[i \div ByteBits] = @ \cup {i % ByteBits}]
ClearBit(bf, i) == [bf EXCEPT !.bytes[i \div ByteBits] = @ \ {i % ByteBits}]

\* Whole bytes first, then the bits of the last one that count.
Count(bf) ==
  LET whole == bf.bits \div ByteBits
      rest  == bf.bits - whole * ByteBits
  IN  Cardinality({x \in (0..(whole - 1)) \X Positions : x[2] \in bf.bytes[x[1]]})
        + Cardinality({k \in 0..(rest - 1) : k \in bf.bytes[whole]})

\* Mutant: the bits that fall off are left in the last byte.
ResizeKeepsTail(bf, n) ==
  [bits |-> n, bytes |-> [i \in 0..(BitsToBytes(n) - 1) |->
     IF i \in DOMAIN bf.bytes THEN bf.bytes[i] ELSE {}]]
Resize(bf, n) ==
  ClearTrailingBits(
    [bits |-> n, bytes |-> [i \in 0..(BitsToBytes(n) - 1) |->
       IF i \in DOMAIN bf.bytes THEN bf.bytes[i] ELSE {}]])

\* New bits get the value: those of the byte that was last, then whole bytes.
ResizeVal(bf, n, val) ==
  LET old  == BitsToBytes(bf.bits)
      rest == bf.bits % ByteBits
      r    == Resize(bf, n)
      grown == [r EXCEPT !.bytes = [i \in DOMAIN @ |->
        IF i >= old THEN IF val THEN Positions ELSE {}
        ELSE IF val /\ rest # 0 /\ i = old - 1 THEN @[i] \cup rest..(ByteBits - 1)
        ELSE @[i]]]
  IN  IF bf.bits >= r.bits THEN r
      ELSE IF val THEN ClearTrailingBits(grown) ELSE grown

SetAll(bf)   == ClearTrailingBits([bf EXCEPT !.bytes = [i \in DOMAIN @ |-> Positions]])
ClearAll(bf) == [bf EXCEPT !.bytes = [i \in DOMAIN @ |-> {}]]

\* Takes n bits from bytes that need not be clean.
Assign(bf, bytes, n) ==
  LET r == Resize(bf, n)
  IN  ClearTrailingBits([r EXCEPT !.bytes = [i \in DOMAIN @ |-> bytes[i]]])

(* On the wire and in files: the count, then the bytes.  A unit of a file is  *)
(* a number or a byte.                                                        *)
Number(n) == [is |-> "number", value |-> n]
Byte(b)   == [is |-> "byte", value |-> b]
Units     == [is : {"number"}, value : Nat] \cup [is : {"byte"}, value : SUBSET Positions]

Size(bf) == 1 + Cardinality(DOMAIN bf.bytes)
Put(bf) ==
  <<Number(bf.bits % CountLimit)>>
    \o [k \in 1..Cardinality(DOMAIN bf.bytes) |-> Byte(bf.bytes[k - 1])]

\* Read at a place of a file: whether it could be read, and the place after it.
Get(file, at) ==
  LET n == file[at].value
      end == at + 1 + BitsToBytes(n)
      ok == at <= Len(file) /\ file[at].is = "number" /\ end - 1 <= Len(file)
  IN  IF ~ok THEN [ok |-> FALSE]
      ELSE [ok |-> TRUE, next |-> end,
            bf |-> [bits |-> n,
                    bytes |-> [i \in 0..(BitsToBytes(n) - 1) |-> file[at + 1 + i].value]]]

----------------------------------------------------------------------------
\* The set a bit field stands for.
Elements(bf) == {i \in 0..(bf.bits - 1) : GetBit(bf, i)}

WellFormed(bf) ==
  /\ bf.bits \in Nat
  /\ bf = [bits |-> bf.bits, bytes |-> bf.bytes]
  /\ bf.bytes \in [0..(BitsToBytes(bf.bits) - 1) -> SUBSET Positions]
  /\ bf.bits % ByteBits # 0 =>
       bf.bytes[BitsToBytes(bf.bits) - 1] \subseteq 0..((bf.bits % ByteBits) - 1)
=============================================================================
