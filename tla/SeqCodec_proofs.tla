--------------------------- MODULE SeqCodec_proofs ---------------------------
(***************************************************************************)
(* Proofs about the sequential codec and the header with the code table,   *)
(* for every width of a byte and of the header's fields, every file and    *)
(* every code table that they can hold (Parameters).                       *)
(*                                                                         *)
(* The inductive invariant SeqInv has a part for every stage.  While the   *)
(* file is written, it says how far the cursor is: get_out_size has added  *)
(* up the header and the codes of k symbols (Measuring), the entries of    *)
(* the symbols before i are in the buffer (WritingHeader, HeaderThere),    *)
(* behind them lie the bits of k codes and of a part of the next one       *)
(* (Encoding).  While it is read, it says that each byte was left there by *)
(* the writer: the tree has the paths of the entries that were read        *)
(* (ReadingHeader, TreeOf), and the decoder stands on the way to the leaf  *)
(* of its next symbol, with all bits before it used (Decoding).  An access *)
(* to the buffer that does not fit (AccessFits) is one of the decoder of a *)
(* file whose only code has no bit.                                        *)
(*                                                                         *)
(* The specification is that of the driver, Huffcode; the theorems about   *)
(* it are in Huffcode_proofs.                                              *)
(***************************************************************************)
EXTENDS SeqCodec, OperatorLemmas

(* The operators of the header's module are the same as those of this one.   *)
LEMMA SameOperators ==
  ASSUME NEW f, NEW S, NEW n, NEW w
  PROVE  /\ Table!SumFunctionOnSet(f, S) = SumFunctionOnSet(f, S)
         /\ Table!UPDIV(n, w) = UPDIV(n, w)
         /\ Table!PackBits(f, w) = PackBits(f, w)
         /\ Table!Prefixes(f) = Prefixes(f)
         /\ Table!Cardinality(S) = Cardinality(S)
<1>1. Table!SumFunctionOnSet(f, S) = SumFunctionOnSet(f, S)
  BY DEF Table!SumFunctionOnSet, SumFunctionOnSet, Table!FoldFunctionOnSet, FoldFunctionOnSet,
         Table!MapThenFoldSet, MapThenFoldSet
<1>2. Table!UPDIV(n, w) = UPDIV(n, w)
  BY DEF Table!UPDIV, UPDIV
<1>3. Table!PackBits(f, w) = PackBits(f, w)
  BY <1>2 DEF Table!PackBits, PackBits, Table!UPDIV, UPDIV
<1>4. Table!Prefixes(f) = Prefixes(f)
  BY DEF Table!Prefixes, Prefixes
<1>5. Table!Cardinality(S) = Cardinality(S)
  BY DEF Table!Cardinality, Cardinality
<1>. QED
  BY <1>1, <1>2, <1>3, <1>4, <1>5

-------------------------------------------------------------------------------
(* Numbers and codes as bytes. *)

(* The widths of the header's fields are enough for what they hold.          *)
Widths == /\ ByteBits \in Nat \ {0} /\ CountBytes \in Nat \ {0} /\ SizeBytes \in Nat \ {0}
          /\ MaxSymbols \in Nat /\ MaxSymbols <= 2 ^ ByteBits
          /\ MaxSymbols < 2 ^ (CountBytes * ByteBits)

(* A code table whose entries fit into the header.                           *)
Fitting(c) == /\ DOMAIN c \subseteq 0 .. MaxSymbols - 1
              /\ \A s \in DOMAIN c : c[s] \in Seq({0, 1}) /\ Len(c[s]) < 2 ^ ByteBits

Parameters == /\ Widths
              /\ \A c \in Codes : Fitting(c)
              /\ \A n \in Sizes : n \in Nat \ {0} /\ n < 2 ^ (SizeBytes * ByteBits)

(* The bytes of a number hold its digits, ...                                *)
LEMMA BytesAreDigits ==
  ASSUME Widths, NEW v \in Nat, NEW width \in Nat
  PROVE  /\ Table!NumberBytes(v, width) \in [1 .. width -> SUBSET (0 .. ByteBits - 1)]
         /\ \A q \in 1 .. width : Table!NumberBytes(v, width)[q] = Digits(v, (q - 1) * ByteBits, ByteBits)
BY DEF Table!NumberBytes, Digits

(* ... and are as many as the width says.                                    *)
LEMMA BytesAreMany ==
  ASSUME Widths, NEW v \in Nat, NEW width \in Nat
  PROVE  /\ Table!NumberBytes(v, width) \in Seq(SUBSET (0 .. ByteBits - 1))
         /\ Len(Table!NumberBytes(v, width)) = width
<1>. DEFINE f == Table!NumberBytes(v, width)
<1>1. DOMAIN f = 1 .. width
  BY BytesAreDigits
<1>2. f \in Seq(SUBSET (0 .. ByteBits - 1))
  BY BytesAreDigits, IsASeq
<1>. HIDE DEF f
<1>3. Len(f) \in Nat /\ 1 .. Len(f) = 1 .. width
  BY <1>1, <1>2, LenProperties
<1>. DEFINE n == Len(f)
<1>. HIDE DEF n
<1>4. n = width
  BY <1>3 DEF n
<1>. QED
  BY <1>2, <1>4 DEF n, f

(* A number that fits is read back from its bytes.                           *)
LEMMA NumberRead ==
  ASSUME Widths, NEW v \in Nat, NEW width \in Nat, v < 2 ^ (width * ByteBits)
  PROVE  Table!NumberIn(Table!NumberBytes(v, width)) = v
<1>. DEFINE bs == Table!NumberBytes(v, width)
            m(q) == (q - 1) * ByteBits
            in(q) == [x \in bs[q] |-> 2 ^ (m(q) + x)]
            f == [q \in DOMAIN bs |-> SumFunctionOnSet(in(q), bs[q])]
            g == [q \in 0 .. width |-> HighPart(v, q * ByteBits)]
<1>1. DOMAIN bs = 1 .. width /\ \A q \in 1 .. width : bs[q] = Digits(v, m(q), ByteBits)
  BY BytesAreDigits
<1>2. Table!NumberIn(bs) = SumFunctionOnSet(f, DOMAIN bs)
  BY SameOperators DEF Table!NumberIn
<1>3. ByteBits \in Nat /\ \A q \in 0 .. width : q * ByteBits \in Nat
  BY SMT DEF Widths
<1>4. g \in [0 .. width -> Int]
  <2>1. ASSUME NEW q \in 0 .. width PROVE HighPart(v, q * ByteBits) \in Int
    <3>. DEFINE n == q * ByteBits
    <3>1. n \in Nat
      BY <1>3
    <3>. HIDE DEF n
    <3>2. HighPart(v, n) \in Nat
      BY <3>1, DigitValue
    <3>. QED
      BY <3>2 DEF n
  <2>. QED
    BY <2>1
<1>5. ASSUME NEW q \in 1 .. width
      PROVE  f[q] = g[q - 1] - g[q]
  <2>. DEFINE c == m(q)
  <2>1. q - 1 \in 0 .. width /\ q \in 0 .. width /\ q \in DOMAIN bs
    BY <1>1
  <2>2. c \in Nat
    BY <1>3, <2>1
  <2>3. c + ByteBits = q * ByteBits
    <3>1. (q - 1) * ByteBits + ByteBits = q * ByteBits
      BY <1>3, SMT
    <3>. QED
      BY <3>1
  <2>4. f[q] = SumFunctionOnSet(in(q), bs[q]) /\ bs[q] = Digits(v, c, ByteBits)
    BY <1>1, <2>1
  <2>5. g[q - 1] = HighPart(v, c) /\ g[q] = HighPart(v, q * ByteBits)
    BY <2>1
  <2>. DEFINE h == in(q)
  <2>6. \A x \in Digits(v, c, ByteBits) : h[x] = 2 ^ (c + x)
    BY <2>4
  <2>. HIDE DEF h, c, f, g, bs
  <2>7. SumFunctionOnSet(h, Digits(v, c, ByteBits)) = HighPart(v, c) - HighPart(v, c + ByteBits)
    BY <1>3, <2>2, <2>6, DigitsSum
  <2>. QED
    BY <2>3, <2>4, <2>5, <2>7 DEF h
<1>6. g[0] = v /\ g[width] = 0
  <2>. DEFINE n == width * ByteBits
  <2>1. n \in Nat /\ 0 * ByteBits = 0 /\ 0 \in 0 .. width /\ width \in 0 .. width
    BY <1>3
  <2>2. g[0] = HighPart(v, 0) /\ g[width] = HighPart(v, n)
    BY <2>1
  <2>. HIDE DEF n, g
  <2>3. HighPart(v, 0) = v /\ HighPart(v, n) = 0
    BY <2>1, HighPartEnds DEF n
  <2>. QED
    BY <2>2, <2>3
<1>. HIDE DEF f, g, bs
<1>7. SumFunctionOnSet(f, 1 .. width) = g[0] - g[width]
  BY <1>4, <1>5, Telescope
<1>8. SumFunctionOnSet(f, 1 .. width) = v
  BY <1>6, <1>7
<1>. QED
  BY <1>1, <1>2, <1>8 DEF bs

(* The bits of a code are read back from its bytes.                          *)
LEMMA CodeRead ==
  ASSUME Widths, NEW bits \in Seq({0, 1})
  PROVE  /\ Table!NumBytesOf(Len(bits)) = UPDIV(Len(bits), ByteBits)
         /\ UPDIV(Len(bits), ByteBits) \in Nat
         /\ DOMAIN Table!CodeBytes(bits) = 1 .. UPDIV(Len(bits), ByteBits)
         /\ Table!CodeBytes(bits) \in Seq(SUBSET (0 .. ByteBits - 1))
         /\ Table!BitsIn(Table!CodeBytes(bits), Len(bits)) = bits
<1>. DEFINE n == Len(bits)
            w == UPDIV(n, ByteBits)
            bs == Table!CodeBytes(bits)
<1>1. n \in Nat /\ ByteBits \in Nat \ {0}
  BY LenProperties DEF Widths
<1>2. Table!NumBytesOf(n) = w /\ w \in Nat
  BY <1>1, SameOperators, UPDIVRoundsUp DEF Table!NumBytesOf
<1>3. \A q \in 0 .. w - 1 :
        PackBits(bits, ByteBits)[q] = {x \in 0 .. ByteBits - 1 : q * ByteBits + x < n /\ bits[q * ByteBits + x + 1] = 1}
  BY <1>1, PackParts
<1>4. bs = [q \in 1 .. w |-> PackBits(bits, ByteBits)[q - 1]]
  BY <1>2, SameOperators DEF Table!CodeBytes
<1>. HIDE DEF w
<1>5. \A q \in 1 .. w : bs[q] = {x \in 0 .. ByteBits - 1 : (q - 1) * ByteBits + x < n
                                                          /\ bits[(q - 1) * ByteBits + x + 1] = 1}
  <2>. SUFFICES ASSUME NEW q \in 1 .. w
                PROVE  bs[q] = {x \in 0 .. ByteBits - 1 : (q - 1) * ByteBits + x < n
                                                          /\ bits[(q - 1) * ByteBits + x + 1] = 1}
    OBVIOUS
  <2>. DEFINE r == q - 1
  <2>1. r \in 0 .. w - 1
    BY <1>2
  <2>2. bs[q] = PackBits(bits, ByteBits)[r]
    BY <1>4
  <2>. HIDE DEF r
  <2>3. bs[q] = {x \in 0 .. ByteBits - 1 : r * ByteBits + x < n /\ bits[r * ByteBits + x + 1] = 1}
    BY <1>3, <2>1, <2>2
  <2>. QED
    BY <2>3 DEF r
<1>6. bs \in Seq(SUBSET (0 .. ByteBits - 1)) /\ DOMAIN bs = 1 .. w
  <2>1. \A q \in 1 .. w : PackBits(bits, ByteBits)[q - 1] \in SUBSET (0 .. ByteBits - 1)
    <3>1. \A q \in 1 .. w : bs[q] = PackBits(bits, ByteBits)[q - 1]
      BY <1>4
    <3>2. \A q \in 1 .. w : bs[q] \in SUBSET (0 .. ByteBits - 1)
      BY <1>5
    <3>. QED
      BY <3>1, <3>2
  <2>. QED
    BY <1>2, <1>4, <2>1, IsASeq
<1>. DEFINE r == Table!BitsIn(bs, n)
<1>7. r = [x \in 1 .. n |-> IF (x - 1) % ByteBits \in bs[(x - 1) \div ByteBits + 1] THEN 1 ELSE 0]
  BY DEF Table!BitsIn
<1>8. ASSUME NEW x \in 1 .. n PROVE r[x] = bits[x]
  <2>. DEFINE y == x - 1
              q == y \div ByteBits
              z == y % ByteBits
  <2>1. y \in Nat /\ y < n
    BY <1>1
  <2>. HIDE DEF y
  <2>2. q \in Nat /\ z \in 0 .. ByteBits - 1 /\ y = ByteBits * q + z
    BY <1>1, <2>1, Division
  <2>. HIDE DEF q, z
  <2>3. ByteBits * q = q * ByteBits /\ q * ByteBits \in Nat
    BY <1>1, <2>2, SMT
  <2>4. q * ByteBits + z = y /\ q * ByteBits + z < n
    BY <2>1, <2>2, <2>3
  <2>5. q < w
    BY <1>1, <2>2, <2>4, BitHasByte DEF w
  <2>6. q + 1 \in 1 .. w /\ (q + 1) - 1 = q
    BY <1>2, <2>2, <2>5
  <2>7. bs[q + 1] = {u \in 0 .. ByteBits - 1 : q * ByteBits + u < n /\ bits[q * ByteBits + u + 1] = 1}
    <3>. HIDE DEF bs
    <3>. DEFINE t == q + 1
    <3>1. t \in 1 .. w /\ t - 1 = q
      BY <2>6
    <3>. HIDE DEF t
    <3>2. bs[t] = {u \in 0 .. ByteBits - 1 : (t - 1) * ByteBits + u < n /\ bits[(t - 1) * ByteBits + u + 1] = 1}
      BY <1>5, <3>1
    <3>3. bs[t] = {u \in 0 .. ByteBits - 1 : q * ByteBits + u < n /\ bits[q * ByteBits + u + 1] = 1}
      BY <3>1, <3>2
    <3>. QED
      BY <3>3 DEF t
  <2>8. z \in bs[q + 1] <=> bits[q * ByteBits + z + 1] = 1
    <3>. HIDE DEF bs
    <3>. QED
      BY <2>2, <2>4, <2>7
  <2>9. q * ByteBits + z + 1 = x
    <3>1. y + 1 = x
      BY DEF y
    <3>. QED
      BY <2>4, <3>1
  <2>10. r[x] = IF z \in bs[q + 1] THEN 1 ELSE 0
    <3>. HIDE DEF r, bs
    <3>. QED
      BY <1>7 DEF z, q, y
  <2>11. bits[x] \in {0, 1}
    BY <1>1
  <2>. QED
    BY <2>8, <2>9, <2>10, <2>11
<1>9. r = bits
  <2>1. r \in Seq({0, 1}) /\ Len(r) = n
    <3>1. \A x \in 1 .. n : (IF (x - 1) % ByteBits \in bs[(x - 1) \div ByteBits + 1] THEN 1 ELSE 0) \in {0, 1}
      OBVIOUS
    <3>. HIDE DEF r, bs
    <3>2. r \in Seq({0, 1}) /\ DOMAIN r = 1 .. n
      BY <1>1, <1>7, <3>1, IsASeq
    <3>. QED
      BY <1>1, <3>2
  <2>. HIDE DEF r
  <2>. QED
    BY <1>8, <2>1, SeqEqual
<1>. HIDE DEF bs, r
<1>. QED
  BY <1>2, <1>6, <1>9 DEF bs, r, w

-------------------------------------------------------------------------------
(* What is compressed, and where its parts lie. *)

(* The input is one of the considered ones.                                  *)
Given == /\ code \in Codes
         /\ symbolCount \in Sizes
         /\ data \in [0 .. symbolCount - 1 -> DOMAIN code]

(* The bits of the file and the bytes that they fill.                        *)
Whole == Bits(code, data, 0, symbolCount)
Payload == PackBits(Whole, ByteBits)
PayloadSize == UPDIV(Len(Whole), ByteBits)
HeaderEnd == Table!HeaderSize(code)

(* The entries of the symbols before n, and where the next one starts.       *)
Before(n) == {s \in DOMAIN code : s < n}
EntrySize(s) == 2 + UPDIV(Len(code[s]), ByteBits)
EntryStart(n) ==
  CountBytes + SizeBytes + SumFunctionOnSet([s \in DOMAIN code |-> EntrySize(s)], Before(n))

(* What is known of the input.                                               *)
LEMMA GivenFacts ==
  ASSUME Parameters, Given
  PROVE  /\ Widths
         /\ DOMAIN code \subseteq 0 .. MaxSymbols - 1
         /\ IsFiniteSet(DOMAIN code)
         /\ Cardinality(DOMAIN code) \in Nat
         /\ Cardinality(DOMAIN code) < 2 ^ (CountBytes * ByteBits)
         /\ \A s \in DOMAIN code :
              /\ code[s] \in Seq({0, 1}) /\ Len(code[s]) \in Nat
              /\ Len(code[s]) < 2 ^ ByteBits /\ s < 2 ^ ByteBits /\ s \in Nat
              /\ UPDIV(Len(code[s]), ByteBits) \in Nat /\ EntrySize(s) \in Nat
         /\ symbolCount \in Nat \ {0} /\ symbolCount < 2 ^ (SizeBytes * ByteBits)
         /\ Coded(code, data, 0, symbolCount)
         /\ Whole \in Seq({0, 1}) /\ Len(Whole) \in Nat
         /\ PayloadSize \in Nat
<1>1. Widths /\ Fitting(code) /\ symbolCount \in Nat \ {0} /\ symbolCount < 2 ^ (SizeBytes * ByteBits)
  BY DEF Parameters, Given
<1>2. /\ ByteBits \in Nat \ {0} /\ MaxSymbols \in Nat /\ MaxSymbols <= 2 ^ ByteBits
      /\ MaxSymbols < 2 ^ (CountBytes * ByteBits) /\ DOMAIN code \subseteq 0 .. MaxSymbols - 1
  BY <1>1 DEF Widths, Fitting
<1>3. /\ 2 ^ ByteBits \in Nat /\ CountBytes * ByteBits \in Nat
      /\ 2 ^ (CountBytes * ByteBits) \in Nat
  <2>1. CountBytes * ByteBits \in Nat
    BY <1>1, SMT DEF Widths
  <2>. QED
    BY <1>2, <2>1, PowersPositive
<1>4. /\ IsFiniteSet(DOMAIN code) /\ Cardinality(DOMAIN code) \in Nat
      /\ Cardinality(DOMAIN code) <= MaxSymbols
  <2>1. /\ IsFiniteSet(0 .. MaxSymbols - 1)
        /\ Cardinality(0 .. MaxSymbols - 1) = MaxSymbols
    <3>1. 0 \in Int /\ MaxSymbols - 1 \in Int
      BY <1>2
    <3>2. /\ IsFiniteSet(0 .. MaxSymbols - 1)
          /\ Cardinality(0 .. MaxSymbols - 1)
               = IF 0 > MaxSymbols - 1 THEN 0 ELSE (MaxSymbols - 1) - 0 + 1
      BY <3>1, FS_Interval
    <3>. QED
      BY <1>2, <3>2
  <2>. QED
    BY <1>2, <2>1, FS_Subset, FS_CardinalityType
<1>5. Cardinality(DOMAIN code) < 2 ^ (CountBytes * ByteBits)
  <2>. DEFINE a == 2 ^ (CountBytes * ByteBits)
              c == Cardinality(DOMAIN code)
  <2>1. a \in Nat /\ c \in Nat /\ c <= MaxSymbols /\ MaxSymbols < a /\ MaxSymbols \in Nat
    BY <1>2, <1>3, <1>4
  <2>. HIDE DEF a, c
  <2>2. c < a
    BY <2>1
  <2>. QED
    BY <2>2 DEF a, c
<1>6. ASSUME NEW s \in DOMAIN code
      PROVE  /\ code[s] \in Seq({0, 1}) /\ Len(code[s]) \in Nat
             /\ Len(code[s]) < 2 ^ ByteBits /\ s < 2 ^ ByteBits /\ s \in Nat
             /\ UPDIV(Len(code[s]), ByteBits) \in Nat /\ EntrySize(s) \in Nat
  <2>1. code[s] \in Seq({0, 1}) /\ Len(code[s]) < 2 ^ ByteBits /\ s \in 0 .. MaxSymbols - 1
    BY <1>1, <1>2 DEF Fitting
  <2>2. Len(code[s]) \in Nat
    BY <2>1, LenProperties
  <2>3. UPDIV(Len(code[s]), ByteBits) \in Nat
    BY <1>2, <2>2, UPDIVRoundsUp
  <2>4. s < 2 ^ ByteBits /\ s \in Nat
    <3>. DEFINE a == 2 ^ ByteBits
    <3>1. a \in Nat /\ MaxSymbols <= a
      BY <1>2, <1>3
    <3>. HIDE DEF a
    <3>2. s < a /\ s \in Nat
      BY <1>2, <2>1, <3>1
    <3>. QED
      BY <3>2 DEF a
  <2>5. EntrySize(s) \in Nat
    BY <2>3 DEF EntrySize
  <2>. QED
    BY <2>1, <2>2, <2>3, <2>4, <2>5
<1>7. Coded(code, data, 0, symbolCount)
  BY <1>6 DEF Coded, Given
<1>8. Whole \in Seq({0, 1}) /\ Len(Whole) \in Nat
  <2>1. Bits(code, data, 0, symbolCount) \in Seq({0, 1})
    BY <1>1, <1>7, BitsSteps
  <2>. QED
    BY <2>1, LenProperties DEF Whole
<1>9. PayloadSize \in Nat
  BY <1>2, <1>8, UPDIVRoundsUp DEF PayloadSize
<1>. QED
  BY <1>1, <1>2, <1>4, <1>5, <1>6, <1>7, <1>8, <1>9

(* The entries lie one behind the other, the last one at the header's end.   *)
LEMMA EntryStarts ==
  ASSUME Parameters, Given
  PROVE  /\ EntryStart(0) = CountBytes + SizeBytes
         /\ HeaderEnd \in Nat
         /\ \A n \in Nat : EntryStart(n) \in Nat /\ CountBytes + SizeBytes <= EntryStart(n)
         /\ \A n \in Nat : n \notin DOMAIN code => EntryStart(n + 1) = EntryStart(n)
         /\ \A n \in DOMAIN code : EntryStart(n + 1) = EntryStart(n) + EntrySize(n)
         /\ \A n \in Nat : Before(n) = DOMAIN code => EntryStart(n) = HeaderEnd
<1>. DEFINE f == [s \in DOMAIN code |-> EntrySize(s)]
<1>1. /\ IsFiniteSet(DOMAIN code) /\ DOMAIN code \subseteq Nat
      /\ CountBytes \in Nat /\ SizeBytes \in Nat
      /\ \A s \in DOMAIN code : f[s] \in Nat /\ f[s] = EntrySize(s)
  BY GivenFacts DEF Widths
<1>2. \A n \in Nat : EntryStart(n) = CountBytes + SizeBytes + SumFunctionOnSet(f, Before(n))
  BY DEF EntryStart
<1>3. HeaderEnd = CountBytes + SizeBytes + SumFunctionOnSet(f, DOMAIN code)
  <2>1. \A s \in DOMAIN code : 2 + Table!NumBytesOf(Len(code[s])) = EntrySize(s)
    BY SameOperators DEF Table!NumBytesOf, EntrySize
  <2>. QED
    BY <2>1, SameOperators DEF HeaderEnd, Table!HeaderSize
<1>. HIDE DEF f
<1>4. \A S \in SUBSET DOMAIN code : IsFiniteSet(S) /\ SumFunctionOnSet(f, S) \in Nat
  <2>. SUFFICES ASSUME NEW S \in SUBSET DOMAIN code
                PROVE  IsFiniteSet(S) /\ SumFunctionOnSet(f, S) \in Nat
    OBVIOUS
  <2>1. IsFiniteSet(S) /\ \A s \in S : f[s] \in Nat
    BY <1>1, FS_Subset
  <2>. QED
    BY <2>1, SumIsNatural
<1>5. \A n \in Nat : Before(n) \in SUBSET DOMAIN code
  BY DEF Before
<1>6. SumFunctionOnSet(f, {}) = 0
  BY FS_EmptySet, SumChosen
<1>7. Before(0) = {}
  BY <1>1 DEF Before
<1>8. ASSUME NEW n \in Nat, n \notin DOMAIN code PROVE EntryStart(n + 1) = EntryStart(n)
  <2>1. \A s \in DOMAIN code : s < n + 1 <=> s < n
    BY <1>1, <1>8
  <2>2. Before(n + 1) = Before(n)
    BY <2>1 DEF Before
  <2>. QED
    BY <2>2 DEF EntryStart
<1>9. ASSUME NEW n \in DOMAIN code PROVE EntryStart(n + 1) = EntryStart(n) + EntrySize(n)
  <2>0. n \in Nat /\ n + 1 \in Nat
    BY <1>1
  <2>1. \A s \in DOMAIN code : s < n + 1 <=> s < n \/ s = n
    BY <1>1, <2>0
  <2>2. Before(n + 1) = Before(n) \cup {n} /\ n \notin Before(n)
    BY <1>1, <2>0, <2>1 DEF Before
  <2>. DEFINE A == Before(n + 1)
              B == Before(n)
  <2>3. /\ n \in A /\ A \ {n} = B
    BY <2>2
  <2>4. IsFiniteSet(A) /\ \A s \in A : f[s] \in Int
    <3>1. A \in SUBSET DOMAIN code
      BY <1>5, <2>0
    <3>2. IsFiniteSet(A)
      BY <1>4, <3>1
    <3>. QED
      BY <1>1, <3>1, <3>2
  <2>5. EntryStart(n + 1) = CountBytes + SizeBytes + SumFunctionOnSet(f, A)
    BY <1>2, <2>0
  <2>6. /\ EntryStart(n) = CountBytes + SizeBytes + SumFunctionOnSet(f, B)
        /\ SumFunctionOnSet(f, B) \in Nat
    BY <1>2, <1>4, <1>5, <2>0
  <2>. HIDE DEF A, B
  <2>7. SumFunctionOnSet(f, A) = f[n] + SumFunctionOnSet(f, A \ {n})
    BY <2>3, <2>4, SumRemove
  <2>8. SumFunctionOnSet(f, A) = EntrySize(n) + SumFunctionOnSet(f, B) /\ EntrySize(n) \in Nat
    BY <1>1, <2>3, <2>7
  <2>. QED
    BY <1>1, <2>5, <2>6, <2>8
<1>. QED
  <2>1. EntryStart(0) = CountBytes + SizeBytes
    BY <1>1, <1>2, <1>6, <1>7
  <2>2. HeaderEnd \in Nat
    <3>1. SumFunctionOnSet(f, DOMAIN code) \in Nat
      BY <1>4
    <3>. QED
      BY <1>1, <1>3, <3>1
  <2>3. \A n \in Nat : EntryStart(n) \in Nat /\ CountBytes + SizeBytes <= EntryStart(n)
    <3>. SUFFICES ASSUME NEW n \in Nat
                  PROVE  EntryStart(n) \in Nat /\ CountBytes + SizeBytes <= EntryStart(n)
      OBVIOUS
    <3>1. SumFunctionOnSet(f, Before(n)) \in Nat
      BY <1>4, <1>5
    <3>. QED
      BY <1>1, <1>2, <3>1
  <2>4. \A n \in Nat : Before(n) = DOMAIN code => EntryStart(n) = HeaderEnd
    BY <1>2, <1>3
  <2>. QED
    BY <1>8, <1>9, <2>1, <2>2, <2>3, <2>4

(* An entry is a byte for the symbol, one for the length of its code, and    *)
(* the bytes of its code.                                                    *)
LEMMA EntryParts ==
  ASSUME Parameters, Given, NEW s \in DOMAIN code
  PROVE  /\ Len(Table!Entry(s)) = EntrySize(s)
         /\ Table!Entry(s)[1] = Table!NumberBytes(s, 1)[1]
         /\ Table!Entry(s)[2] = Table!NumberBytes(Len(code[s]), 1)[1]
         /\ \A q \in 1 .. UPDIV(Len(code[s]), ByteBits) :
              Table!Entry(s)[2 + q] = Table!CodeBytes(code[s])[q]
<1>. DEFINE u == Table!NumberBytes(s, 1)
            v == Table!NumberBytes(Len(code[s]), 1)
            c == Table!CodeBytes(code[s])
            w == UPDIV(Len(code[s]), ByteBits)
            S == SUBSET (0 .. ByteBits - 1)
<1>1. Widths /\ s \in Nat /\ Len(code[s]) \in Nat /\ code[s] \in Seq({0, 1}) /\ w \in Nat
  BY GivenFacts
<1>2. u \in Seq(S) /\ Len(u) = 1
  BY <1>1, BytesAreMany
<1>3. v \in Seq(S) /\ Len(v) = 1
  BY <1>1, BytesAreMany
<1>4. c \in Seq(S) /\ Len(c) = w
  <2>1. c \in Seq(S) /\ DOMAIN c = 1 .. w
    BY <1>1, CodeRead
  <2>. HIDE DEF c, S, w
  <2>. QED
    BY <1>1, <2>1, LenProperties
<1>5. Table!Entry(s) = (u \o v) \o c
  BY DEF Table!Entry
<1>. HIDE DEF u, v, c, w, S
<1>6. (u \o v) \in Seq(S) /\ Len(u \o v) = 2 /\ (u \o v)[1] = u[1] /\ (u \o v)[2] = v[1]
  <2>1. /\ u \o v \in Seq(S) /\ Len(u \o v) = Len(u) + Len(v)
        /\ \A x \in 1 .. Len(u) : (u \o v)[x] = u[x]
        /\ \A x \in 1 .. Len(v) : (u \o v)[Len(u) + x] = v[x]
    BY <1>2, <1>3, ConcatProperties, SMTT(30)
  <2>2. 1 \in 1 .. Len(u) /\ 1 \in 1 .. Len(v) /\ Len(u) + 1 = 2 /\ Len(u) + Len(v) = 2
    BY <1>2, <1>3
  <2>. QED
    BY <2>1, <2>2
<1>. DEFINE h == u \o v
            e == h \o c
<1>. HIDE DEF h
<1>7. /\ Len(e) = 2 + w /\ e[1] = h[1] /\ e[2] = h[2]
      /\ \A q \in 1 .. w : e[2 + q] = c[q]
  <2>1. /\ Len(e) = Len(h) + Len(c)
        /\ \A x \in 1 .. Len(h) : e[x] = h[x]
        /\ \A x \in 1 .. Len(c) : e[Len(h) + x] = c[x]
        /\ Len(h) = 2
    BY <1>4, <1>6, ConcatProperties, SMTT(30) DEF h
  <2>2. 1 \in 1 .. 2 /\ 2 \in 1 .. 2
    OBVIOUS
  <2>. HIDE DEF e
  <2>. QED
    BY <1>4, <2>1, <2>2
<1>8. EntrySize(s) = 2 + w
  BY DEF EntrySize, w
<1>9. Table!Entry(s) = e
  BY <1>5 DEF h
<1>. HIDE DEF e
<1>. QED
  BY <1>6, <1>7, <1>8, <1>9 DEF u, v, c, w, h

-------------------------------------------------------------------------------
(* The buffer. *)

(* The bytes are in the buffer, from position a on.                          *)
Stored(bs, a) == \A q \in 1 .. Len(bs) : buf[a + q - 1] = bs[q]

(* The buffer is written up to the cursor, without a gap.                    *)
WrittenTo(n) == DOMAIN buf = 0 .. n - 1

(* What was written before is still there, also after another write.         *)
Kept == \A a \in 0 .. cursor - 1 : buf'[a] = buf[a]

(* A write puts its bytes behind what is there.                              *)
LEMMA WriteAppends ==
  ASSUME NEW bs, Len(bs) \in Nat, cursor \in Nat, WrittenTo(cursor), Table!WriteData(bs)
  PROVE  /\ cursor' = cursor + Len(bs)
         /\ WrittenTo(cursor)'
         /\ Kept
         /\ \A q \in 1 .. Len(bs) : buf'[cursor + q - 1] = bs[q]
<1>. DEFINE n == Len(bs)
            D == DOMAIN buf \cup cursor .. cursor + n - 1
<1>1. /\ cursor' = cursor + n
      /\ buf' = [a \in D |-> IF a >= cursor /\ a < cursor + n THEN bs[a - cursor + 1] ELSE buf[a]]
  BY DEF Table!WriteData
<1>2. DOMAIN buf = 0 .. cursor - 1
  BY DEF WrittenTo
<1>. HIDE DEF n
<1>3. D = 0 .. cursor + n - 1
  BY <1>2 DEF n
<1>4. WrittenTo(cursor)'
  <2>. HIDE DEF D
  <2>1. DOMAIN buf' = D /\ n \in Nat
    BY <1>1 DEF n
  <2>. QED
    BY <1>1, <1>3, <2>1 DEF WrittenTo
<1>5. ASSUME NEW a \in 0 .. cursor - 1 PROVE buf'[a] = buf[a]
  <2>1. a \in D /\ ~ (a >= cursor)
    BY <1>2
  <2>. HIDE DEF D
  <2>. QED
    BY <1>1, <2>1
<1>6. ASSUME NEW q \in 1 .. n PROVE buf'[cursor + q - 1] = bs[q]
  <2>. DEFINE a == cursor + q - 1
  <2>1. a \in D /\ a >= cursor /\ a < cursor + n /\ a - cursor + 1 = q
    BY <1>3 DEF n
  <2>. HIDE DEF D, a
  <2>2. buf'[a] = bs[a - cursor + 1]
    BY <1>1, <2>1
  <2>3. bs[a - cursor + 1] = bs[q]
    BY <2>1
  <2>. QED
    BY <2>2, <2>3 DEF a
<1>. QED
  BY <1>1, <1>4, <1>5, <1>6 DEF Kept, n

(* So what was stored stays stored.                                          *)
LEMMA StoredStays ==
  ASSUME NEW bs, Len(bs) \in Nat, NEW a \in Nat, cursor \in Nat, Kept, Stored(bs, a),
         a + Len(bs) <= cursor
  PROVE  \A q \in 1 .. Len(bs) : buf'[a + q - 1] = bs[q]
<1>. SUFFICES ASSUME NEW q \in 1 .. Len(bs) PROVE buf'[a + q - 1] = bs[q]
  OBVIOUS
<1>. DEFINE x == a + q - 1
<1>1. x \in 0 .. cursor - 1
  OBVIOUS
<1>2. buf[x] = bs[q]
  BY DEF Stored
<1>. HIDE DEF x
<1>3. buf'[x] = bs[q]
  BY <1>1, <1>2 DEF Kept
<1>. QED
  BY <1>3 DEF x

(* A number that is stored is read.                                          *)
LEMMA StoredNumber ==
  ASSUME Widths, NEW v \in Nat, NEW width \in Nat, v < 2 ^ (width * ByteBits), NEW a \in Nat,
         Stored(Table!NumberBytes(v, width), a)
  PROVE  Table!NumberIn(Table!DataAt(a, width)) = v
<1>. DEFINE bs == Table!NumberBytes(v, width)
            ds == Table!DataAt(a, width)
<1>1. bs \in Seq(SUBSET (0 .. ByteBits - 1)) /\ Len(bs) = width
  BY BytesAreMany
<1>2. bs = [q \in 1 .. width |-> bs[q]]
  <2>. HIDE DEF bs
  <2>. QED
    BY <1>1
<1>3. ds = [q \in 1 .. width |-> buf[a + q - 1]]
  BY DEF Table!DataAt
<1>4. \A q \in 1 .. width : buf[a + q - 1] = bs[q]
  BY <1>1 DEF Stored
<1>5. ds = bs
  <2>. HIDE DEF bs, ds
  <2>. QED
    BY <1>2, <1>3, <1>4
<1>6. Table!NumberIn(bs) = v
  BY NumberRead
<1>. HIDE DEF bs, ds
<1>. QED
  BY <1>5, <1>6 DEF ds

(* An entry that is stored is read.                                          *)
LEMMA StoredEntry ==
  ASSUME Parameters, Given, NEW s \in DOMAIN code, cursor \in Nat, Stored(Table!Entry(s), cursor)
  PROVE  /\ Table!NumberIn(Table!DataAt(cursor, 1)) = s
         /\ Table!CodeLength = Len(code[s])
         /\ 2 + Table!NumBytesOf(Table!CodeLength) = EntrySize(s)
         /\ Table!BitsIn(Table!DataAt(cursor + 2, Table!NumBytesOf(Table!CodeLength)),
                         Table!CodeLength) = code[s]
<1>. DEFINE e == Table!Entry(s)
            w == UPDIV(Len(code[s]), ByteBits)
            u == Table!NumberBytes(s, 1)
            v == Table!NumberBytes(Len(code[s]), 1)
            c == Table!CodeBytes(code[s])
<1>1. /\ Widths /\ s \in Nat /\ s < 2 ^ ByteBits /\ code[s] \in Seq({0, 1})
      /\ Len(code[s]) \in Nat /\ Len(code[s]) < 2 ^ ByteBits /\ w \in Nat
      /\ 1 * ByteBits = ByteBits
  BY GivenFacts DEF Widths
<1>2. /\ Len(e) = EntrySize(s) /\ EntrySize(s) = 2 + w /\ e[1] = u[1] /\ e[2] = v[1]
      /\ \A q \in 1 .. w : e[2 + q] = c[q]
  BY EntryParts DEF EntrySize
<1>3. Len(u) = 1 /\ Len(v) = 1
  BY <1>1, BytesAreMany
<1>4. \A q \in 1 .. 2 + w : buf[cursor + q - 1] = e[q]
  BY <1>2 DEF Stored
<1>. HIDE DEF e, u, v, c, w
<1>5. Stored(u, cursor)
  <2>1. 1 \in 1 .. 2 + w /\ 1 .. Len(u) = {1}
    BY <1>1, <1>3
  <2>. QED
    BY <1>2, <1>4, <2>1 DEF Stored
<1>6. Stored(v, cursor + 1)
  <2>1. 2 \in 1 .. 2 + w /\ 1 .. Len(v) = {1} /\ cursor + 1 + 1 - 1 = cursor + 2 - 1
    BY <1>1, <1>3
  <2>2. buf[cursor + 2 - 1] = v[1]
    BY <1>2, <1>4, <2>1
  <2>. QED
    BY <2>1, <2>2 DEF Stored
<1>7. Table!NumberIn(Table!DataAt(cursor, 1)) = s
  BY <1>1, <1>5, StoredNumber DEF u
<1>8. Table!CodeLength = Len(code[s])
  <2>. DEFINE a == cursor + 1
              l == Len(code[s])
  <2>1. a \in Nat /\ l \in Nat /\ Stored(Table!NumberBytes(l, 1), a) /\ l < 2 ^ (1 * ByteBits)
    BY <1>1, <1>6 DEF v
  <2>. HIDE DEF a, l
  <2>2. Table!NumberIn(Table!DataAt(a, 1)) = l
    BY <1>1, <2>1, StoredNumber
  <2>. QED
    BY <2>2 DEF a, l, Table!CodeLength
<1>9. /\ Table!NumBytesOf(Len(code[s])) = w /\ DOMAIN c = 1 .. w
      /\ Table!BitsIn(c, Len(code[s])) = code[s]
      /\ c \in Seq(SUBSET (0 .. ByteBits - 1))
  BY <1>1, CodeRead DEF w, c
<1>10. Table!DataAt(cursor + 2, w) = c
  <2>1. \A q \in 1 .. w : buf[cursor + 2 + q - 1] = c[q]
    <3>. SUFFICES ASSUME NEW q \in 1 .. w PROVE buf[cursor + 2 + q - 1] = c[q]
      OBVIOUS
    <3>. DEFINE r == 2 + q
    <3>1. r \in 1 .. 2 + w /\ cursor + r - 1 = cursor + 2 + q - 1 /\ e[r] = c[q]
      <4>1. e[2 + q] = c[q]
        BY <1>2
      <4>2. w \in Nat /\ q \in 1 .. w
        BY <1>1
      <4>3. 2 + q \in 1 .. 2 + w /\ cursor + (2 + q) - 1 = cursor + 2 + q - 1
        BY <4>2
      <4>. QED
        BY <4>1, <4>3
    <3>. HIDE DEF r
    <3>2. buf[cursor + r - 1] = e[r]
      BY <1>4, <3>1
    <3>. QED
      BY <3>1, <3>2
  <2>2. c = [q \in 1 .. w |-> c[q]]
    BY <1>9
  <2>. QED
    BY <2>1, <2>2 DEF Table!DataAt
<1>. QED
  BY <1>2, <1>7, <1>8, <1>9, <1>10

-------------------------------------------------------------------------------
(* The inductive invariant. *)

(* The fields of the header, with the entries before n, are in the buffer.   *)
HeaderThere(n) ==
  /\ Stored(Table!NumberBytes(Cardinality(DOMAIN code), CountBytes), 0)
  /\ Stored(Table!NumberBytes(symbolCount, SizeBytes), CountBytes)
  /\ \A s \in Before(n) : Stored(Table!Entry(s), EntryStart(s))

(* Behind it lie the bytes of the reference.                                 *)
PayloadThere == \A q \in 0 .. PayloadSize - 1 : buf[HeaderEnd + q] = Payload[q]

(* The bits that stand for the first x symbols.                              *)
BitsOf(x) == Len(Bits(code, data, 0, x))

(* The first n bits of byte d of the whole.                                  *)
FirstBits(d, n) == {x \in 0 .. n - 1 : Whole[d * ByteBits + x + 1] = 1}

(* The bytes behind the header.                                              *)
Beyond == cursor - HeaderEnd

Fresh == b = 0 /\ byte = {} /\ bit = 0

(* get_out_size has added up the header and the codes of k symbols.          *)
Measuring ==
  /\ Fresh /\ pc = "writeCount" /\ cursor = 0 /\ buf = << >> /\ i = 0 /\ bufSize = 0
  /\ k \in 0 .. symbolCount
  /\ res \in Nat /\ HeaderEnd <= res
  /\ cnt \in 0 .. ByteBits - 1
  /\ (res - HeaderEnd) * ByteBits + cnt = BitsOf(k)

WritingHeader ==
  /\ Fresh /\ k = 0
  /\ cursor \in Nat /\ WrittenTo(cursor)
  /\ \/ pc = "writeCount" /\ cursor = 0 /\ i = 0
     \/ /\ pc = "writeSize" /\ cursor = CountBytes /\ i = 0
        /\ Stored(Table!NumberBytes(Cardinality(DOMAIN code), CountBytes), 0)
     \/ pc = "writeEntries" /\ i \in 0 .. MaxSymbols /\ cursor = EntryStart(i) /\ HeaderThere(i)

(* do_encode has put the codes of k symbols and b bits of the next one       *)
(* behind the header.                                                        *)
Encoding ==
  /\ pc = "written" /\ HeaderThere(MaxSymbols)
  /\ cursor \in Nat /\ HeaderEnd <= cursor /\ WrittenTo(cursor)
  /\ k \in 0 .. symbolCount /\ b \in Nat
  /\ bit \in 0 .. ByteBits - 1
  /\ IF HasSymbol THEN b <= Len(CodeHere) ELSE b = 0
  /\ Beyond * ByteBits + bit = BitsOf(k) + b
  /\ \A q \in 0 .. Beyond - 1 : buf[HeaderEnd + q] = FirstBits(q, ByteBits)
  /\ byte = FirstBits(Beyond, bit)

(* The file as the decoder finds it.                                         *)
Complete == HeaderThere(MaxSymbols) /\ PayloadThere

Encoded == pc = "written" /\ Complete /\ cursor = bufSize

(* The tree has the paths of the codes of S and nothing else.                *)
TreeOf(S) ==
  /\ DOMAIN tree = {<< >>} \cup UNION {Prefixes(code[s]) : s \in S}
  /\ \A s \in S : code[s] # << >> => tree[code[s]] = s
  /\ \A q \in DOMAIN tree : tree[q] # Table!NonLeaf => tree[q] \in S /\ code[tree[q]] = q

ReadingHeader ==
  /\ Complete
  /\ \/ pc = "readCount" /\ cursor = 0
     \/ pc = "readSize" /\ cursor = CountBytes /\ left = Cardinality(DOMAIN code)
     \/ /\ pc = "readEntries" /\ numBytes = symbolCount
        /\ \E n \in 0 .. MaxSymbols :
             /\ cursor = EntryStart(n)
             /\ left = Cardinality(DOMAIN code \ Before(n))
             /\ TreeOf(Before(n))

NoEmptyCode == \A s \in DOMAIN code : code[s] # << >>

(* n symbols are decoded, and the decoder is on the way to the next one's    *)
(* leaf.                                                                     *)
Walked(n) == BitsOf(n) + Len(p)

Fetching(n) ==
  /\ OnWay(p, code[data[n]])
  /\ Len(p) < Len(code[data[n]]) \/ code[data[n]] = << >>
  /\ HeaderEnd <= cursor
  /\ Beyond * ByteBits = Walked(n)

WalkingDown(n) ==
  /\ OnWay(p, code[data[n]])
  /\ Len(p) < Len(code[data[n]])
  /\ HeaderEnd < cursor
  /\ bit \in 0 .. ByteBits
  /\ (Beyond - 1) * ByteBits + bit = Walked(n)
  /\ byte = Payload[Beyond - 1]

(* The output is what the walks so far have led to.                          *)
Decoded(n) == out = [x \in 0 .. n - 1 |-> data[x]]

Decoding ==
  /\ pc = "read" /\ Complete /\ cursor \in Nat /\ cursor <= bufSize
  /\ \E n \in 0 .. symbolCount :
       /\ Decoded(n)
       /\ n < symbolCount =>
            /\ stage = "fetch" => Fetching(n)
            /\ stage = "walk" => NoEmptyCode /\ WalkingDown(n)
            /\ stage # "done"

SeqInv ==
  /\ Given
  /\ stage \in {"measure", "header", "encode", "encoded", "reread", "fetch", "walk",
                "done", "aborted"}
  /\ stage \notin {"measure", "aborted"} => bufSize = HeaderEnd + PayloadSize
  /\ stage \in {"measure", "header", "encode", "encoded", "reread"} => p = << >> /\ out = << >>
  /\ stage = "measure" => Measuring
  /\ stage = "header" => WritingHeader
  /\ stage = "encode" => Encoding
  /\ stage = "encoded" => Encoded
  /\ stage = "reread" => ReadingHeader
  /\ pc = "read" => numBytes = symbolCount /\ TreeOf(DOMAIN code)
  /\ stage \in {"fetch", "walk", "done"} => Decoding
  /\ stage = "aborted" => ~ NoEmptyCode

-------------------------------------------------------------------------------
(* What a step leaves alone. *)

(* The input does not change, and neither does what depends on it alone.     *)
LEMMA SameInput ==
  ASSUME UNCHANGED input
  PROVE  /\ Given' = Given /\ Whole' = Whole /\ Payload' = Payload
         /\ PayloadSize' = PayloadSize /\ HeaderEnd' = HeaderEnd /\ NoEmptyCode' = NoEmptyCode
         /\ UNCHANGED <<data, code, symbolCount>>
         /\ \A n : Before(n)' = Before(n) /\ EntryStart(n)' = EntryStart(n)
         /\ \A x : BitsOf(x)' = BitsOf(x)
         /\ \A d, n : FirstBits(d, n)' = FirstBits(d, n)
         /\ \A s : Table!Entry(s)' = Table!Entry(s)
<1>1. UNCHANGED <<data, code, symbolCount>>
  BY DEF input
<1>2. Given' = Given /\ Whole' = Whole /\ NoEmptyCode' = NoEmptyCode
  BY <1>1 DEF Given, Whole, NoEmptyCode
<1>3. Payload' = Payload /\ PayloadSize' = PayloadSize
  BY <1>2 DEF Payload, PayloadSize
<1>4. HeaderEnd' = HeaderEnd
  BY <1>1 DEF HeaderEnd
<1>5. ASSUME NEW n PROVE Before(n)' = Before(n) /\ EntryStart(n)' = EntryStart(n)
  BY <1>1 DEF Before, EntryStart, EntrySize
<1>6. ASSUME NEW x PROVE BitsOf(x)' = BitsOf(x)
  BY <1>1 DEF BitsOf
<1>7. ASSUME NEW d, NEW n PROVE FirstBits(d, n)' = FirstBits(d, n)
  BY <1>2 DEF FirstBits
<1>8. ASSUME NEW s PROVE Table!Entry(s)' = Table!Entry(s)
  BY <1>1 DEF Table!Entry
<1>. QED
  BY <1>1, <1>2, <1>3, <1>4, <1>5, <1>6, <1>7, <1>8

(* The entries lie in the order of their symbols.                            *)
LEMMA StartsAscend ==
  ASSUME Parameters, Given, NEW m \in Nat, NEW n \in Nat, m <= n
  PROVE  EntryStart(m) <= EntryStart(n)
<1>. DEFINE K == {d \in Nat : EntryStart(m) <= EntryStart(m + d)}
<1>1. \A x \in Nat : EntryStart(x) \in Nat
  BY EntryStarts
<1>2. 0 \in K
  <2>1. m + 0 = m /\ EntryStart(m) \in Nat
    BY <1>1
  <2>. QED
    BY <2>1
<1>3. ASSUME NEW d \in Nat, d \in K PROVE d + 1 \in K
  <2>. DEFINE x == m + d
  <2>1. x \in Nat /\ x + 1 \in Nat /\ m + (d + 1) = x + 1
    OBVIOUS
  <2>2. EntryStart(m) <= EntryStart(x)
    BY <1>3
  <2>. HIDE DEF x
  <2>3. EntryStart(x) <= EntryStart(x + 1)
    <3>1. CASE x \in DOMAIN code
      <4>1. EntryStart(x + 1) = EntryStart(x) + EntrySize(x)
        BY <3>1, EntryStarts
      <4>2. EntrySize(x) \in Nat
        BY <3>1, GivenFacts
      <4>. QED
        BY <1>1, <2>1, <4>1, <4>2
    <3>2. CASE x \notin DOMAIN code
      <4>1. EntryStart(x + 1) = EntryStart(x)
        BY <2>1, <3>2, EntryStarts
      <4>. QED
        BY <1>1, <2>1, <4>1
    <3>. QED
      BY <3>1, <3>2
  <2>4. EntryStart(m) <= EntryStart(x + 1)
    <3>1. EntryStart(m) \in Nat /\ EntryStart(x) \in Nat /\ EntryStart(x + 1) \in Nat
      BY <1>1, <2>1
    <3>. QED
      BY <2>2, <2>3, <3>1
  <2>. QED
    BY <2>1, <2>4
<1>. HIDE DEF K
<1>4. n - m \in K
  <2>1. n - m \in Nat
    OBVIOUS
  <2>. QED
    BY <1>2, <1>3, <2>1, AllNumbers
<1>5. m + (n - m) = n
  OBVIOUS
<1>. QED
  BY <1>4, <1>5 DEF K

(* An entry ends before the ones of the greater symbols start.               *)
LEMMA EntriesAscend ==
  ASSUME Parameters, Given, NEW s \in DOMAIN code, NEW n \in Nat, s < n
  PROVE  EntryStart(s) + EntrySize(s) <= EntryStart(n)
<1>1. s + 1 \in Nat /\ s + 1 <= n
  BY GivenFacts
<1>2. EntryStart(s + 1) <= EntryStart(n)
  BY <1>1, StartsAscend
<1>. QED
  BY <1>2, EntryStarts

(* The header stays as it is if the buffer is only written behind it.        *)
LEMMA HeaderStays ==
  ASSUME Parameters, Given, UNCHANGED input, NEW n \in Nat, HeaderThere(n),
         UNCHANGED buf \/ (cursor \in Nat /\ EntryStart(n) <= cursor /\ Kept)
  PROVE  HeaderThere(n)'
<1>. DEFINE u == Table!NumberBytes(Cardinality(DOMAIN code), CountBytes)
            v == Table!NumberBytes(symbolCount, SizeBytes)
<1>1. /\ Stored(u, 0) /\ Stored(v, CountBytes)
      /\ \A s \in Before(n) : Stored(Table!Entry(s), EntryStart(s))
  BY DEF HeaderThere
<1>2. /\ UNCHANGED <<code, symbolCount>> /\ Before(n)' = Before(n)
      /\ \A s : Table!Entry(s)' = Table!Entry(s) /\ EntryStart(s)' = EntryStart(s)
  BY SameInput
<1>3. u' = u /\ v' = v
  BY <1>2
<1>4. CASE UNCHANGED buf
  <2>. HIDE DEF u, v
  <2>1. Stored(u, 0)' /\ Stored(v, CountBytes)'
    BY <1>1, <1>3, <1>4 DEF Stored
  <2>2. ASSUME NEW s \in Before(n) PROVE Stored(Table!Entry(s), EntryStart(s))'
    BY <1>1, <1>2, <1>4 DEF Stored
  <2>. QED
    BY <1>2, <2>1, <2>2 DEF HeaderThere, u, v
<1>5. CASE cursor \in Nat /\ EntryStart(n) <= cursor /\ Kept
  <2>1. /\ CountBytes \in Nat /\ SizeBytes \in Nat /\ Len(u) = CountBytes /\ Len(v) = SizeBytes
        /\ CountBytes + SizeBytes <= EntryStart(n) /\ EntryStart(n) \in Nat
    <3>1. Widths /\ Cardinality(DOMAIN code) \in Nat /\ symbolCount \in Nat
      BY GivenFacts
    <3>2. CountBytes \in Nat /\ SizeBytes \in Nat
      BY <3>1 DEF Widths
    <3>. QED
      BY <3>1, <3>2, BytesAreMany, EntryStarts
  <2>. HIDE DEF u, v
  <2>2. \A q \in 1 .. Len(u) : buf'[0 + q - 1] = u[q]
    <3>1. 0 + Len(u) <= cursor
      BY <1>5, <2>1
    <3>. QED
      BY <1>1, <1>5, <2>1, <3>1, StoredStays
  <2>3. \A q \in 1 .. Len(v) : buf'[CountBytes + q - 1] = v[q]
    <3>1. CountBytes + Len(v) <= cursor
      BY <1>5, <2>1
    <3>. QED
      BY <1>1, <1>5, <2>1, <3>1, StoredStays
  <2>4. ASSUME NEW s \in Before(n)
        PROVE  \A q \in 1 .. Len(Table!Entry(s)) : buf'[EntryStart(s) + q - 1] = Table!Entry(s)[q]
    <3>1. s \in DOMAIN code /\ s < n
      BY DEF Before
    <3>2. /\ Len(Table!Entry(s)) = EntrySize(s) /\ EntrySize(s) \in Nat /\ s \in Nat
          /\ EntryStart(s) \in Nat /\ EntryStart(s) + EntrySize(s) <= EntryStart(n)
      BY <3>1, GivenFacts, EntryParts, EntryStarts, EntriesAscend
    <3>. DEFINE e == Table!Entry(s)
                a == EntryStart(s)
    <3>3. Len(e) \in Nat /\ a \in Nat /\ Stored(e, a) /\ a + Len(e) <= cursor
      BY <1>1, <1>5, <2>1, <3>2
    <3>. HIDE DEF e, a
    <3>4. \A q \in 1 .. Len(e) : buf'[a + q - 1] = e[q]
      BY <1>5, <3>3, StoredStays
    <3>. QED
      BY <3>4 DEF e, a
  <2>5. Stored(u, 0)' /\ Stored(v, CountBytes)'
    BY <1>3, <2>2, <2>3 DEF Stored
  <2>6. ASSUME NEW s \in Before(n) PROVE Stored(Table!Entry(s), EntryStart(s))'
    BY <1>2, <2>4 DEF Stored
  <2>. QED
    BY <1>2, <2>5, <2>6 DEF HeaderThere, u, v
<1>. QED
  BY <1>4, <1>5

(* Neither does the file that the decoder reads.                             *)
LEMMA FileStays ==
  ASSUME Parameters, Given, UNCHANGED <<input, buf>>, Complete
  PROVE  Complete'
<1>1. HeaderThere(MaxSymbols)'
  BY GivenFacts, HeaderStays DEF Complete, Widths
<1>2. PayloadThere'
  BY SameInput DEF Complete, PayloadThere
<1>. QED
  BY <1>1, <1>2 DEF Complete

-------------------------------------------------------------------------------
(* get_out_size *)

(* The bits of one symbol more.                                              *)
LEMMA NextBits ==
  ASSUME Parameters, Given
  PROVE  /\ BitsOf(0) = 0
         /\ BitsOf(symbolCount) = Len(Whole)
         /\ \A x \in 0 .. symbolCount : BitsOf(x) \in Nat /\ BitsOf(x) <= Len(Whole)
         /\ \A x \in 0 .. symbolCount - 1 :
              /\ data[x] \in DOMAIN code
              /\ LiesIn(code, data, 0, x, symbolCount)
              /\ BitsOf(x + 1) = BitsOf(x) + Len(code[data[x]])
<1>1. symbolCount \in Nat /\ Coded(code, data, 0, symbolCount)
  BY GivenFacts
<1>2. BitsOf(symbolCount) = Len(Whole)
  BY DEF BitsOf, Whole
<1>3. BitsOf(0) = 0
  BY BitsSteps DEF BitsOf
<1>4. ASSUME NEW x \in 0 .. symbolCount PROVE BitsOf(x) \in Nat /\ BitsOf(x) <= Len(Whole)
  BY <1>1, BitsGrow DEF BitsOf, Whole
<1>5. ASSUME NEW x \in 0 .. symbolCount - 1
      PROVE  /\ data[x] \in DOMAIN code
             /\ LiesIn(code, data, 0, x, symbolCount)
             /\ BitsOf(x + 1) = BitsOf(x) + Len(code[data[x]])
  <2>1. data[x] \in DOMAIN code
    BY DEF Given
  <2>2. LiesIn(code, data, 0, x, symbolCount)
    BY <1>1, CodeInside
  <2>3. BitsOf(x + 1) = BitsOf(x) + Len(code[data[x]])
    BY <2>2 DEF LiesIn, BitsOf
  <2>. QED
    BY <2>1, <2>2, <2>3
<1>. QED
  BY <1>2, <1>3, <1>4, <1>5

(* Whole bytes and the bits beyond them, of one number more.                 *)
LEMMA AddUp ==
  ASSUME NEW w \in Nat \ {0}, NEW d \in Nat, NEW c \in 0 .. w - 1, NEW l \in Nat
  PROVE  /\ (c + l) \div w \in Nat
         /\ (c + l) % w \in 0 .. w - 1
         /\ ((d + (c + l) \div w) * w) + ((c + l) % w) = d * w + c + l
<1>. DEFINE q == (c + l) \div w
            r == (c + l) % w
<1>1. c + l \in Nat
  OBVIOUS
<1>2. q \in Nat /\ r \in 0 .. w - 1 /\ c + l = w * q + r
  BY <1>1, Division
<1>. HIDE DEF q, r
<1>3. (d + q) * w = d * w + w * q /\ d * w \in Nat /\ w * q \in Nat
  BY <1>2, SMT
<1>4. (d + q) * w + r = d * w + c + l
  <2>. DEFINE x == d * w
              y == w * q
              z == (d + q) * w
  <2>1. z = x + y /\ x \in Nat /\ y \in Nat /\ c + l = y + r
    BY <1>2, <1>3
  <2>. HIDE DEF x, y, z
  <2>2. z + r = x + c + l
    BY <1>2, <2>1
  <2>. QED
    BY <2>2 DEF x, z
<1>. QED
  BY <1>2, <1>4 DEF q, r

(* A byte more is needed if and only if there are bits beyond whole bytes.   *)
LEMMA RoundUp ==
  ASSUME NEW w \in Nat \ {0}, NEW d \in Nat, NEW c \in 0 .. w - 1, NEW n \in Nat, w * d + c = n
  PROVE  UPDIV(n, w) = IF c = 0 THEN d ELSE d + 1
<1>1. n \div w = d
  BY DivisionUnique
<1>2. n % w = c
  <2>. DEFINE x == w * d
              r == n % w
  <2>1. n = w * (n \div w) + (n % w) /\ n % w \in 0 .. w - 1
    BY Division
  <2>2. n = x + r /\ r \in Int /\ x + c = n
    BY <1>1, <2>1
  <2>3. x \in Int
    BY SMT
  <2>. HIDE DEF x, r
  <2>4. r = c
    BY <2>2, <2>3
  <2>. QED
    BY <2>4 DEF r
<1>3. UPDIV(n, w) = IF n % w = 0 THEN n \div w ELSE (n \div w) + 1
  BY UPDIVValue
<1>. QED
  BY <1>1, <1>2, <1>3

(* What is counted is what the reference has for these symbols.              *)
LEMMA MeasureByteKeeps ==
  ASSUME Parameters, Given, Measuring, MeasureByte
  PROVE  Measuring'
<1>1. /\ stage = "measure" /\ k < symbolCount
      /\ res' = res + (cnt + Len(code[data[k]])) \div ByteBits
      /\ cnt' = (cnt + Len(code[data[k]])) % ByteBits
      /\ k' = k + 1
      /\ UNCHANGED <<input, buf, bufSize, cursor, pc, i, b, byte, bit>>
  BY DEF MeasureByte, HasSymbol, CodeHere, header, coding
<1>2. /\ Fresh /\ pc = "writeCount" /\ cursor = 0 /\ buf = << >> /\ i = 0 /\ bufSize = 0
      /\ k \in 0 .. symbolCount /\ res \in Nat /\ HeaderEnd <= res /\ cnt \in 0 .. ByteBits - 1
      /\ (res - HeaderEnd) * ByteBits + cnt = BitsOf(k)
  BY DEF Measuring
<1>3. symbolCount \in Nat /\ ByteBits \in Nat \ {0} /\ HeaderEnd \in Nat
  BY GivenFacts, EntryStarts DEF Widths
<1>4. k \in 0 .. symbolCount - 1 /\ k + 1 \in 0 .. symbolCount
  BY <1>1, <1>2, <1>3
<1>. DEFINE l == Len(code[data[k]])
            d == res - HeaderEnd
            q == (cnt + l) \div ByteBits
<1>5. l \in Nat /\ BitsOf(k + 1) = BitsOf(k) + l
  BY <1>4, NextBits, GivenFacts
<1>6. d \in Nat
  BY <1>2, <1>3
<1>. HIDE DEF l, d
<1>7. /\ q \in Nat /\ cnt' \in 0 .. ByteBits - 1
      /\ (d + q) * ByteBits + cnt' = d * ByteBits + cnt + l
  <2>. DEFINE c == cnt
              w == ByteBits
  <2>1. cnt' = (c + l) % w /\ q = (c + l) \div w
    BY <1>1 DEF l
  <2>2. c \in 0 .. w - 1 /\ w \in Nat \ {0}
    BY <1>2, <1>3
  <2>. HIDE DEF c, w, q
  <2>3. /\ (c + l) \div w \in Nat /\ (c + l) % w \in 0 .. w - 1
        /\ (d + (c + l) \div w) * w + ((c + l) % w) = d * w + c + l
    BY <1>5, <1>6, <2>2, AddUp
  <2>. QED
    BY <2>1, <2>3 DEF c, w
<1>8. res' = res + q
  BY <1>1 DEF l
<1>. HIDE DEF q
<1>9. res' \in Nat /\ HeaderEnd <= res' /\ res' - HeaderEnd = d + q
  BY <1>2, <1>3, <1>7, <1>8 DEF d
<1>10. (res' - HeaderEnd) * ByteBits + cnt' = BitsOf(k + 1)
  <2>1. d * ByteBits + cnt = BitsOf(k)
    BY <1>2 DEF d
  <2>2. d * ByteBits \in Nat
    BY <1>3, <1>6, SMT
  <2>. DEFINE x == d * ByteBits
  <2>. HIDE DEF x
  <2>3. x + cnt + l = BitsOf(k) + l
    BY <1>2, <1>5, <2>1, <2>2 DEF x
  <2>. QED
    BY <1>5, <1>7, <1>9, <2>3 DEF x
<1>11. HeaderEnd' = HeaderEnd /\ symbolCount' = symbolCount /\ BitsOf(k)' = BitsOf(k + 1)
  <2>1. BitsOf(k)' = BitsOf(k + 1)
    BY <1>1, SameInput DEF BitsOf
  <2>. QED
    BY <1>1, <2>1, SameInput
<1>. QED
  BY <1>1, <1>2, <1>4, <1>7, <1>9, <1>10, <1>11 DEF Measuring, Fresh

(* What was measured is the size of the header and of the reference.         *)
LEMMA AllocateKeeps ==
  ASSUME Parameters, Given, Measuring, Allocate
  PROVE  WritingHeader' /\ bufSize' = HeaderEnd + PayloadSize
<1>1. /\ ~ (k < symbolCount) /\ bufSize' = OutSize /\ k' = 0
      /\ UNCHANGED <<input, buf, cursor, pc, i, b, byte, bit>>
  BY DEF Allocate, HasSymbol, header, coding
<1>2. /\ Fresh /\ pc = "writeCount" /\ cursor = 0 /\ buf = << >> /\ i = 0
      /\ k \in 0 .. symbolCount /\ res \in Nat /\ HeaderEnd <= res /\ cnt \in 0 .. ByteBits - 1
      /\ (res - HeaderEnd) * ByteBits + cnt = BitsOf(k)
  BY DEF Measuring
<1>3. symbolCount \in Nat /\ ByteBits \in Nat \ {0} /\ HeaderEnd \in Nat /\ Len(Whole) \in Nat
  BY GivenFacts, EntryStarts DEF Widths
<1>4. k = symbolCount /\ BitsOf(k) = Len(Whole)
  <2>1. k = symbolCount
    BY <1>1, <1>2, <1>3
  <2>. QED
    BY <2>1, NextBits
<1>. DEFINE d == res - HeaderEnd
            n == Len(Whole)
<1>5. d \in Nat
  BY <1>2, <1>3
<1>. HIDE DEF d, n
<1>6. ByteBits * d + cnt = n /\ n \in Nat
  <2>1. d * ByteBits + cnt = n
    BY <1>2, <1>4 DEF d, n
  <2>2. d * ByteBits = ByteBits * d
    BY <1>3, <1>5, SMT
  <2>. QED
    BY <1>3, <2>1, <2>2 DEF n
<1>9. UPDIV(n, ByteBits) = IF cnt = 0 THEN d ELSE d + 1
  BY <1>2, <1>3, <1>5, <1>6, RoundUp
<1>10. OutSize = HeaderEnd + UPDIV(n, ByteBits)
  BY <1>2, <1>3, <1>9 DEF OutSize, d
<1>11. bufSize' = HeaderEnd + PayloadSize
  BY <1>1, <1>10 DEF PayloadSize, n
<1>12. WritingHeader'
  <2>1. DOMAIN buf = {} /\ 0 .. 0 - 1 = {}
    BY <1>2
  <2>. QED
    BY <1>1, <1>2, <2>1 DEF WritingHeader, WrittenTo, Fresh
<1>. QED
  BY <1>11, <1>12

-------------------------------------------------------------------------------
(* write_code_table_memory *)

(* The symbols before the next number.                                       *)
LEMMA BeforeSteps ==
  ASSUME Parameters, Given
  PROVE  /\ Before(0) = {}
         /\ Before(MaxSymbols) = DOMAIN code
         /\ \A n \in DOMAIN code : Before(n + 1) = Before(n) \cup {n}
         /\ \A n \in Nat \ DOMAIN code : Before(n + 1) = Before(n)
         /\ EntryStart(MaxSymbols) = HeaderEnd
<1>1. DOMAIN code \subseteq 0 .. MaxSymbols - 1 /\ MaxSymbols \in Nat
  BY GivenFacts DEF Widths
<1>2. ASSUME NEW n \in DOMAIN code PROVE Before(n + 1) = Before(n) \cup {n}
  <2>1. \A s \in DOMAIN code : s < n + 1 <=> s < n \/ s = n
    BY <1>1
  <2>. QED
    BY <2>1 DEF Before
<1>3. ASSUME NEW n \in Nat \ DOMAIN code PROVE Before(n + 1) = Before(n)
  <2>1. \A s \in DOMAIN code : s < n + 1 <=> s < n
    BY <1>1
  <2>. QED
    BY <2>1 DEF Before
<1>4. Before(0) = {}
  BY <1>1 DEF Before
<1>5. Before(MaxSymbols) = DOMAIN code
  BY <1>1 DEF Before
<1>6. EntryStart(MaxSymbols) = HeaderEnd
  BY <1>1, <1>5, EntryStarts
<1>. QED
  BY <1>2, <1>3, <1>4, <1>5, <1>6

(* Each field is put behind the ones before it.                              *)
LEMMA WriteHeaderKeeps ==
  ASSUME Parameters, Given, WritingHeader, WriteHeader
  PROVE  \/ stage' = "header" /\ WritingHeader'
         \/ stage' = "encode" /\ Encoding'
<1>. DEFINE u == Table!NumberBytes(Cardinality(DOMAIN code), CountBytes)
            v == Table!NumberBytes(symbolCount, SizeBytes)
<1>1. /\ Fresh /\ k = 0 /\ cursor \in Nat /\ WrittenTo(cursor)
      /\ \/ pc = "writeCount" /\ cursor = 0 /\ i = 0
         \/ pc = "writeSize" /\ cursor = CountBytes /\ i = 0 /\ Stored(u, 0)
         \/ pc = "writeEntries" /\ i \in 0 .. MaxSymbols /\ cursor = EntryStart(i) /\ HeaderThere(i)
  BY DEF WritingHeader
<1>2. /\ stage = "header" /\ stage' = (IF pc' = "written" THEN "encode" ELSE stage)
      /\ UNCHANGED <<data, k, b, byte, bit>>
      /\ Table!WriteStep
  BY DEF WriteHeader, coding
<1>3. UNCHANGED <<code, symbolCount>>
  BY <1>2 DEF Table!WriteStep, Table!WriteCount, Table!WriteSize, Table!WriteEntry,
              Table!EndOfWriting, Table!given
<1>4. UNCHANGED input /\ Fresh' /\ k' = 0
  BY <1>1, <1>2, <1>3 DEF input, Fresh
<1>5. /\ Widths /\ CountBytes \in Nat /\ SizeBytes \in Nat /\ Cardinality(DOMAIN code) \in Nat
      /\ symbolCount \in Nat \ {0} /\ MaxSymbols \in Nat /\ ByteBits \in Nat \ {0}
  BY GivenFacts DEF Widths
<1>6. Len(u) = CountBytes /\ Len(v) = SizeBytes
  BY <1>5, BytesAreMany
<1>7. u' = u /\ v' = v
  BY <1>3
<1>8. CASE Table!WriteCount
  <2>1. /\ pc = "writeCount" /\ pc' = "writeSize" /\ i' = i /\ Table!WriteData(u)
    BY <1>8, SameOperators DEF Table!WriteCount, Table!Cardinality
  <2>2. cursor = 0 /\ i = 0
    BY <1>1, <2>1
  <2>. HIDE DEF u
  <2>3. /\ cursor' = cursor + CountBytes /\ WrittenTo(cursor)'
        /\ \A q \in 1 .. Len(u) : buf'[cursor + q - 1] = u[q]
    BY <1>1, <1>5, <1>6, <2>1, WriteAppends
  <2>4. Stored(u, 0)'
    BY <1>7, <2>2, <2>3 DEF Stored
  <2>5. cursor' = CountBytes /\ cursor' \in Nat
    BY <1>5, <2>2, <2>3
  <2>6. WritingHeader'
    BY <1>4, <2>1, <2>2, <2>3, <2>4, <2>5 DEF WritingHeader, u
  <2>. QED
    BY <1>2, <2>1, <2>6
<1>9. CASE Table!WriteSize
  <2>1. /\ pc = "writeSize" /\ pc' = "writeEntries" /\ i' = i /\ Table!WriteData(v)
    BY <1>9 DEF Table!WriteSize
  <2>2. cursor = CountBytes /\ i = 0 /\ Stored(u, 0)
    BY <1>1, <2>1
  <2>. HIDE DEF u, v
  <2>3. /\ cursor' = cursor + SizeBytes /\ WrittenTo(cursor)' /\ Kept
        /\ \A q \in 1 .. Len(v) : buf'[cursor + q - 1] = v[q]
    BY <1>1, <1>5, <1>6, <2>1, WriteAppends
  <2>4. Stored(v, CountBytes)'
    BY <1>7, <2>2, <2>3, SameInput DEF Stored
  <2>5. Stored(u, 0)'
    <3>1. 0 + Len(u) <= cursor /\ Len(u) \in Nat
      BY <1>5, <1>6, <2>2
    <3>2. \A q \in 1 .. Len(u) : buf'[0 + q - 1] = u[q]
      BY <1>1, <2>2, <2>3, <3>1, StoredStays
    <3>. QED
      BY <1>7, <3>2 DEF Stored
  <2>6. HeaderThere(0)'
    <3>1. Before(0)' = {}
      BY <1>4, BeforeSteps, SameInput
    <3>. QED
      BY <2>4, <2>5, <3>1 DEF HeaderThere, u, v
  <2>7. cursor' = EntryStart(0)' /\ cursor' \in Nat
    <3>1. EntryStart(0)' = CountBytes + SizeBytes
      BY <1>4, EntryStarts, SameInput
    <3>. QED
      BY <1>5, <2>2, <2>3, <3>1
  <2>8. WritingHeader'
    BY <1>4, <1>5, <2>1, <2>2, <2>3, <2>6, <2>7 DEF WritingHeader
  <2>. QED
    BY <1>2, <2>1, <2>8
<1>10. CASE Table!WriteEntry
  <2>1. /\ pc = "writeEntries" /\ pc' = pc /\ i < MaxSymbols /\ i' = i + 1
        /\ IF i \in DOMAIN code THEN Table!WriteData(Table!Entry(i)) ELSE UNCHANGED <<buf, cursor>>
    BY <1>10 DEF Table!WriteEntry
  <2>2. i \in 0 .. MaxSymbols /\ cursor = EntryStart(i) /\ HeaderThere(i)
    BY <1>1, <2>1
  <2>3. i \in Nat /\ i + 1 \in 0 .. MaxSymbols
    BY <1>5, <2>1, <2>2
  <2>4. \A n : /\ Before(n)' = Before(n) /\ EntryStart(n)' = EntryStart(n)
               /\ Table!Entry(n)' = Table!Entry(n)
    BY <1>4, SameInput
  <2>5. CASE i \in DOMAIN code
    <3>. DEFINE e == Table!Entry(i)
    <3>1. Len(e) = EntrySize(i) /\ EntrySize(i) \in Nat /\ Table!WriteData(e)
      BY <2>1, <2>5, EntryParts, GivenFacts
    <3>. HIDE DEF e
    <3>2. /\ cursor' = cursor + EntrySize(i) /\ WrittenTo(cursor)' /\ Kept
          /\ \A q \in 1 .. Len(e) : buf'[cursor + q - 1] = e[q]
      BY <1>1, <3>1, WriteAppends
    <3>3. cursor' = EntryStart(i + 1)
      BY <2>2, <2>5, <3>2, EntryStarts
    <3>4. PICK n \in Nat : n = i
      BY <2>3
    <3>5. HeaderThere(n)'
      <4>1. HeaderThere(n) /\ EntryStart(n) <= cursor
        BY <1>1, <2>2, <3>4
      <4>. QED
        BY <1>1, <1>4, <3>2, <4>1, HeaderStays
    <3>6. Stored(Table!Entry(n), EntryStart(n))'
      BY <2>2, <2>4, <3>2, <3>4 DEF Stored, e
    <3>7. Before(n + 1) = Before(n) \cup {n}
      BY <2>5, <3>4, BeforeSteps
    <3>8. HeaderThere(n + 1)'
      BY <2>4, <3>5, <3>6, <3>7 DEF HeaderThere
    <3>9. HeaderThere(i)'
      BY <2>1, <3>4, <3>8 DEF HeaderThere, Before
    <3>10. cursor' = EntryStart(i)' /\ cursor' \in Nat
      <4>1. EntryStart(n + 1)' = EntryStart(n + 1)
        BY <2>4
      <4>2. EntryStart(n + 1) \in Nat
        BY EntryStarts
      <4>. QED
        BY <2>1, <3>3, <3>4, <4>1, <4>2 DEF EntryStart, Before
    <3>11. WritingHeader'
      BY <1>4, <1>5, <2>1, <2>3, <3>2, <3>9, <3>10 DEF WritingHeader
    <3>. QED
      BY <1>2, <2>1, <3>11
  <2>6. CASE i \notin DOMAIN code
    <3>1. UNCHANGED <<buf, cursor>>
      BY <2>1, <2>6
    <3>2. PICK n \in Nat : n = i
      BY <2>3
    <3>3. HeaderThere(n)'
      BY <1>4, <2>2, <3>1, <3>2, HeaderStays
    <3>4. Before(n + 1) = Before(n) /\ EntryStart(n + 1) = EntryStart(n)
      BY <2>6, <3>2, BeforeSteps, EntryStarts
    <3>5. HeaderThere(n + 1)'
      BY <2>4, <3>3, <3>4 DEF HeaderThere
    <3>6. HeaderThere(i)'
      BY <2>1, <3>2, <3>5 DEF HeaderThere, Before
    <3>7. cursor' = EntryStart(i)'
      <4>1. EntryStart(n + 1)' = EntryStart(n + 1)
        BY <2>4
      <4>. QED
        BY <2>1, <2>2, <3>1, <3>2, <3>4, <4>1 DEF EntryStart, Before
    <3>8. WrittenTo(cursor)'
      BY <1>1, <3>1 DEF WrittenTo
    <3>9. WritingHeader'
      BY <1>1, <1>4, <1>5, <2>1, <2>3, <3>1, <3>6, <3>7, <3>8 DEF WritingHeader
    <3>. QED
      BY <1>2, <2>1, <3>9
  <2>. QED
    BY <2>5, <2>6
<1>11. CASE Table!EndOfWriting
  <2>1. /\ pc = "writeEntries" /\ i = MaxSymbols /\ pc' = "written"
        /\ UNCHANGED <<buf, cursor, i>>
    BY <1>11 DEF Table!EndOfWriting
  <2>2. cursor = EntryStart(MaxSymbols) /\ HeaderThere(MaxSymbols)
    BY <1>1, <2>1
  <2>3. cursor = HeaderEnd
    BY <2>2, BeforeSteps
  <2>4. HeaderThere(MaxSymbols)'
    BY <1>4, <1>5, <2>1, <2>2, HeaderStays
  <2>5. HeaderEnd' = HeaderEnd /\ HeaderEnd \in Nat /\ Beyond = 0 /\ Beyond' = 0
    BY <1>4, <2>1, <2>3, SameInput, EntryStarts DEF Beyond
  <2>6. WrittenTo(cursor)'
    BY <1>1, <2>1 DEF WrittenTo
  <2>7. FirstBits(Beyond, bit)' = {}
    BY <1>4 DEF FirstBits, Fresh
  <2>8. BitsOf(k)' = 0
    <3>1. BitsOf(k)' = BitsOf(0)
      BY <1>3, <1>4, <1>2 DEF BitsOf
    <3>. QED
      BY <3>1, NextBits
  <2>9. IF HasSymbol' THEN b' <= Len(CodeHere)' ELSE b' = 0
    <3>1. b' = 0 /\ k' = 0 /\ data' = data /\ code' = code
      BY <1>2, <1>3, <1>4 DEF Fresh
    <3>2. Len(code[data[0]]) \in Nat
      <4>1. 0 \in 0 .. symbolCount - 1
        BY <1>5
      <4>. QED
        BY <4>1, NextBits, GivenFacts
    <3>3. 0 <= Len(code[data[0]])
      BY <3>2
    <3>. QED
      BY <3>1, <3>3 DEF CodeHere
  <2>10. 0 * ByteBits + 0 = 0 + 0 /\ 0 .. 0 - 1 = {} /\ 0 \in 0 .. ByteBits - 1 /\ 0 \in 0 .. symbolCount
    BY <1>5
  <2>11. (Beyond * ByteBits + bit = BitsOf(k) + b)'
    BY <1>4, <2>5, <2>8, <2>10 DEF Fresh
  <2>12. \A q \in 0 .. Beyond' - 1 : buf'[HeaderEnd' + q] = FirstBits(q, ByteBits)'
    BY <2>5, <2>10
  <2>13. cursor' \in Nat /\ HeaderEnd' <= cursor'
    BY <2>1, <2>3, <2>5
  <2>14. bit' = 0 /\ b' = 0 /\ byte' = {} /\ symbolCount' = symbolCount
    BY <1>3, <1>4 DEF Fresh
  <2>15. Encoding'
    BY <1>4, <2>1, <2>4, <2>6, <2>7, <2>9, <2>10, <2>11, <2>12, <2>13, <2>14 DEF Encoding
  <2>. QED
    BY <1>2, <2>1, <2>15
<1>. QED
  BY <1>2, <1>8, <1>9, <1>10, <1>11 DEF Table!WriteStep

-------------------------------------------------------------------------------
(* do_encode *)

(* The bytes of the reference are made of its bits.                          *)
LEMMA PayloadBytes ==
  ASSUME Parameters, Given, NEW q \in 0 .. PayloadSize - 1
  PROVE  /\ Payload[q] = {x \in 0 .. ByteBits - 1 :
                            q * ByteBits + x < Len(Whole) /\ Whole[q * ByteBits + x + 1] = 1}
         /\ (q + 1) * ByteBits <= Len(Whole) => Payload[q] = FirstBits(q, ByteBits)
<1>1. ByteBits \in Nat \ {0} /\ Len(Whole) \in Nat /\ PayloadSize \in Nat
  BY GivenFacts DEF Widths
<1>2. Payload[q] = {x \in 0 .. ByteBits - 1 :
                      q * ByteBits + x < Len(Whole) /\ Whole[q * ByteBits + x + 1] = 1}
  BY <1>1, PackParts DEF Payload, PayloadSize
<1>3. ASSUME (q + 1) * ByteBits <= Len(Whole)
      PROVE  Payload[q] = FirstBits(q, ByteBits)
  <2>. DEFINE y == q * ByteBits
  <2>1. (q + 1) * ByteBits = y + ByteBits /\ y \in Nat
    BY <1>1, SMT
  <2>2. Payload[q] = {x \in 0 .. ByteBits - 1 : y + x < Len(Whole) /\ Whole[y + x + 1] = 1}
    BY <1>2
  <2>3. FirstBits(q, ByteBits) = {x \in 0 .. ByteBits - 1 : Whole[y + x + 1] = 1}
    BY DEF FirstBits
  <2>. HIDE DEF y
  <2>4. \A x \in 0 .. ByteBits - 1 : y + x < Len(Whole)
    BY <1>1, <1>3, <2>1
  <2>. QED
    BY <2>2, <2>3, <2>4
<1>. QED
  BY <1>2, <1>3

(* Where the encoder is in the bits of the file.                             *)
LEMMA EncodingBits ==
  ASSUME Parameters, Given, Encoding
  PROVE  /\ Beyond \in Nat /\ Beyond * ByteBits \in Nat /\ bit \in Nat
         /\ BitsOf(k) \in Nat
         /\ HasBit => /\ Beyond * ByteBits + bit < Len(Whole)
                      /\ NextByte = FirstBits(Beyond, bit + 1)
         /\ ~ HasSymbol => k = symbolCount /\ Beyond * ByteBits + bit = Len(Whole)
<1>1. /\ cursor \in Nat /\ HeaderEnd <= cursor /\ k \in 0 .. symbolCount /\ b \in Nat
      /\ bit \in 0 .. ByteBits - 1
      /\ IF HasSymbol THEN b <= Len(CodeHere) ELSE b = 0
      /\ Beyond * ByteBits + bit = BitsOf(k) + b
      /\ byte = FirstBits(Beyond, bit)
  BY DEF Encoding
<1>2. /\ symbolCount \in Nat /\ ByteBits \in Nat \ {0} /\ HeaderEnd \in Nat
      /\ Len(Whole) \in Nat
  BY GivenFacts, EntryStarts DEF Widths
<1>3. Beyond \in Nat /\ bit \in Nat
  BY <1>1, <1>2 DEF Beyond
<1>4. Beyond * ByteBits \in Nat
  <2>. DEFINE d == Beyond
  <2>1. d \in Nat
    BY <1>3
  <2>. HIDE DEF d
  <2>2. d * ByteBits \in Nat
    BY <1>2, <2>1, SMT
  <2>. QED
    BY <2>2 DEF d
<1>5. BitsOf(k) \in Nat
  BY <1>1, NextBits
<1>. DEFINE e == Beyond * ByteBits
            n == BitsOf(k)
<1>6. ASSUME HasBit
      PROVE  e + bit < Len(Whole) /\ NextByte = FirstBits(Beyond, bit + 1)
  <2>1. k \in 0 .. symbolCount - 1 /\ b < Len(CodeHere)
    BY <1>1, <1>2, <1>6 DEF HasBit, HasSymbol
  <2>. DEFINE c == code[data[k]]
  <2>2. LiesIn(code, data, 0, k, symbolCount)
    BY <2>1, NextBits
  <2>3. /\ c \in Seq({0, 1}) /\ n + Len(c) <= Len(Whole)
        /\ \A z \in 1 .. Len(c) : Whole[n + z] = c[z]
    BY <2>2 DEF LiesIn, BitsOf, Whole
  <2>4. CodeHere = c
    BY DEF CodeHere
  <2>. HIDE DEF c, e, n
  <2>5. Len(c) \in Nat
    BY <2>3, LenProperties
  <2>6. b + 1 \in 1 .. Len(c) /\ n + (b + 1) = e + bit + 1
    BY <1>1, <1>3, <1>4, <1>5, <2>1, <2>4, <2>5 DEF e, n
  <2>7. Whole[e + bit + 1] = CodeHere[b + 1]
    BY <2>3, <2>4, <2>6
  <2>8. e + bit < Len(Whole)
    BY <1>1, <1>2, <1>3, <1>4, <1>5, <2>3, <2>5, <2>6 DEF e, n
  <2>9. NextByte = FirstBits(Beyond, bit + 1)
    <3>1. 0 .. (bit + 1) - 1 = (0 .. bit - 1) \cup {bit}
      BY <1>3
    <3>2. byte = {x \in 0 .. bit - 1 : Whole[e + x + 1] = 1}
      BY <1>1 DEF FirstBits, e
    <3>3. FirstBits(Beyond, bit + 1) = {x \in 0 .. (bit + 1) - 1 : Whole[e + x + 1] = 1}
      BY DEF FirstBits, e
    <3>4. NextByte = IF Whole[e + bit + 1] = 1 THEN byte \cup {bit} ELSE byte
      BY <2>7 DEF NextByte
    <3>5. FirstBits(Beyond, bit + 1)
            = byte \cup {x \in {bit} : Whole[e + x + 1] = 1}
      BY <3>1, <3>2, <3>3
    <3>. QED
      BY <3>4, <3>5
  <2>. QED
    BY <2>8, <2>9
<1>7. ASSUME ~ HasSymbol
      PROVE  k = symbolCount /\ e + bit = Len(Whole)
  <2>1. k = symbolCount /\ b = 0
    BY <1>1, <1>2, <1>7 DEF HasSymbol
  <2>2. n = Len(Whole)
    BY <2>1, NextBits
  <2>. QED
    BY <1>1, <1>2, <2>1, <2>2
<1>. QED
  BY <1>3, <1>4, <1>5, <1>6, <1>7

(* A bit goes to its place in the current byte.                              *)
LEMMA AddBitKeeps ==
  ASSUME Parameters, Given, Encoding, AddBit
  PROVE  Encoding'
<1>1. /\ HasBit /\ bit + 1 < ByteBits /\ byte' = NextByte /\ bit' = bit + 1 /\ b' = b + 1
      /\ UNCHANGED <<input, buf, cursor, pc, k>>
  BY DEF AddBit, header
<1>2. /\ pc = "written" /\ HeaderThere(MaxSymbols)
      /\ cursor \in Nat /\ HeaderEnd <= cursor /\ WrittenTo(cursor)
      /\ k \in 0 .. symbolCount /\ b \in Nat /\ bit \in 0 .. ByteBits - 1
      /\ Beyond * ByteBits + bit = BitsOf(k) + b
      /\ \A q \in 0 .. Beyond - 1 : buf[HeaderEnd + q] = FirstBits(q, ByteBits)
  BY DEF Encoding
<1>3. /\ ByteBits \in Nat \ {0} /\ MaxSymbols \in Nat
      /\ \A s \in DOMAIN code : Len(code[s]) \in Nat
  BY GivenFacts DEF Widths
<1>4. /\ Beyond * ByteBits \in Nat /\ bit \in Nat /\ BitsOf(k) \in Nat
      /\ NextByte = FirstBits(Beyond, bit + 1)
  BY <1>1, EncodingBits
<1>5. /\ UNCHANGED <<data, code, symbolCount>> /\ HeaderEnd' = HeaderEnd
      /\ Beyond' = Beyond /\ BitsOf(k)' = BitsOf(k)
      /\ \A d, n : FirstBits(d, n)' = FirstBits(d, n)
  <2>1. BitsOf(k)' = BitsOf(k)
    BY <1>1, SameInput DEF BitsOf
  <2>. QED
    BY <1>1, <2>1, SameInput DEF Beyond
<1>6. HeaderThere(MaxSymbols)'
  BY <1>1, <1>2, <1>3, HeaderStays
<1>7. WrittenTo(cursor)'
  BY <1>1, <1>2 DEF WrittenTo
<1>8. HasSymbol' /\ b' \in Nat /\ b' <= Len(CodeHere')
  <2>1. HasSymbol /\ b < Len(CodeHere)
    BY <1>1 DEF HasBit
  <2>2. HasSymbol' /\ CodeHere' = CodeHere
    BY <1>1, <1>5, <2>1 DEF HasSymbol, CodeHere
  <2>3. Len(CodeHere) \in Nat
    <3>1. symbolCount \in Nat
      BY GivenFacts
    <3>2. k \in 0 .. symbolCount - 1
      BY <1>2, <2>1, <3>1 DEF HasSymbol
    <3>. QED
      BY <1>3, <3>2, NextBits DEF CodeHere
  <2>. QED
    BY <1>1, <1>2, <2>1, <2>2, <2>3
<1>9. (Beyond * ByteBits + bit = BitsOf(k) + b)'
  <2>. DEFINE e == Beyond * ByteBits
  <2>1. e \in Nat /\ e + bit = BitsOf(k) + b
    BY <1>2, <1>4
  <2>. HIDE DEF e
  <2>2. e + (bit + 1) = BitsOf(k) + (b + 1)
    BY <1>2, <1>4, <2>1
  <2>3. (Beyond * ByteBits)' = e
    BY <1>5 DEF e
  <2>. QED
    BY <1>1, <1>5, <2>2, <2>3
<1>10. byte' = FirstBits(Beyond, bit)'
  <2>1. FirstBits(Beyond, bit)' = FirstBits(Beyond, bit + 1)
    BY <1>1, <1>5, SameInput DEF FirstBits
  <2>. QED
    BY <1>1, <1>4, <2>1
<1>11. \A q \in 0 .. Beyond' - 1 : buf'[HeaderEnd' + q] = FirstBits(q, ByteBits)'
  BY <1>1, <1>2, <1>5
<1>12. bit' \in 0 .. ByteBits - 1
  BY <1>1, <1>3, <1>4
<1>. QED
  BY <1>1, <1>2, <1>5, <1>6, <1>7, <1>8, <1>9, <1>10, <1>11, <1>12 DEF Encoding

(* A byte that is full is written, and the next one starts empty.            *)
LEMMA FillByteKeeps ==
  ASSUME Parameters, Given, Encoding, FillByte
  PROVE  Encoding'
<1>1. /\ HasBit /\ bit + 1 = ByteBits /\ byte' = {} /\ bit' = 0 /\ b' = b + 1
      /\ Table!WriteData(<<NextByte>>)
      /\ UNCHANGED <<input, pc, k>>
  BY DEF FillByte, header, ByteAfterWrite
<1>2. /\ pc = "written" /\ HeaderThere(MaxSymbols)
      /\ cursor \in Nat /\ HeaderEnd <= cursor /\ WrittenTo(cursor)
      /\ k \in 0 .. symbolCount /\ b \in Nat /\ bit \in 0 .. ByteBits - 1
      /\ Beyond * ByteBits + bit = BitsOf(k) + b
      /\ \A q \in 0 .. Beyond - 1 : buf[HeaderEnd + q] = FirstBits(q, ByteBits)
  BY DEF Encoding
<1>3. /\ ByteBits \in Nat \ {0} /\ MaxSymbols \in Nat /\ HeaderEnd \in Nat /\ symbolCount \in Nat
      /\ \A s \in DOMAIN code : Len(code[s]) \in Nat
  BY GivenFacts, EntryStarts DEF Widths
<1>4. /\ Beyond \in Nat /\ Beyond * ByteBits \in Nat /\ bit \in Nat /\ BitsOf(k) \in Nat
      /\ NextByte = FirstBits(Beyond, ByteBits)
  BY <1>1, EncodingBits
<1>5. /\ cursor' = cursor + 1 /\ WrittenTo(cursor)' /\ Kept
      /\ buf'[cursor] = NextByte
  <2>. DEFINE bs == <<NextByte>>
  <2>1. Len(bs) = 1 /\ bs[1] = NextByte /\ Len(bs) \in Nat /\ 1 .. 1 = {1} /\ cursor + 1 - 1 = cursor
    BY <1>2
  <2>2. Table!WriteData(bs)
    BY <1>1
  <2>. HIDE DEF bs
  <2>3. /\ cursor' = cursor + Len(bs) /\ WrittenTo(cursor)' /\ Kept
        /\ \A q \in 1 .. Len(bs) : buf'[cursor + q - 1] = bs[q]
    BY <1>2, <2>1, <2>2, WriteAppends
  <2>. QED
    BY <2>1, <2>3
<1>6. /\ UNCHANGED <<data, code, symbolCount>> /\ HeaderEnd' = HeaderEnd
      /\ BitsOf(k)' = BitsOf(k)
      /\ \A d, n : FirstBits(d, n)' = FirstBits(d, n)
  <2>1. BitsOf(k)' = BitsOf(k)
    BY <1>1, SameInput DEF BitsOf
  <2>. QED
    BY <1>1, <2>1, SameInput
<1>7. Beyond' = Beyond + 1 /\ cursor' \in Nat /\ HeaderEnd' <= cursor' /\ HeaderEnd + Beyond = cursor
  BY <1>2, <1>3, <1>5, <1>6 DEF Beyond
<1>8. HeaderThere(MaxSymbols)'
  <2>1. EntryStart(MaxSymbols) <= cursor
    BY <1>2, BeforeSteps
  <2>. QED
    BY <1>1, <1>2, <1>3, <1>5, <2>1, HeaderStays
<1>9. HasSymbol' /\ b' \in Nat /\ b' <= Len(CodeHere')
  <2>1. HasSymbol /\ b < Len(CodeHere)
    BY <1>1 DEF HasBit
  <2>2. HasSymbol' /\ CodeHere' = CodeHere
    BY <1>1, <1>6, <2>1 DEF HasSymbol, CodeHere
  <2>3. Len(CodeHere) \in Nat
    <3>1. k \in 0 .. symbolCount - 1
      BY <1>2, <1>3, <2>1 DEF HasSymbol
    <3>. QED
      BY <1>3, <3>1, NextBits DEF CodeHere
  <2>. QED
    BY <1>1, <1>2, <2>1, <2>2, <2>3
<1>10. (Beyond * ByteBits + bit = BitsOf(k) + b)'
  <2>. DEFINE d == Beyond
              e == d * ByteBits
  <2>1. e \in Nat /\ e + bit = BitsOf(k) + b /\ d \in Nat
    BY <1>2, <1>4
  <2>2. (d + 1) * ByteBits = e + ByteBits
    <3>. HIDE DEF d
    <3>. QED
      BY <1>3, <2>1, SMT
  <2>3. (Beyond * ByteBits)' = (d + 1) * ByteBits
    BY <1>7
  <2>. HIDE DEF e, d
  <2>4. (d + 1) * ByteBits + 0 = BitsOf(k) + (b + 1)
    BY <1>1, <1>2, <1>3, <1>4, <2>1, <2>2
  <2>. QED
    BY <1>1, <1>6, <2>3, <2>4
<1>11. byte' = FirstBits(Beyond, bit)'
  <2>1. FirstBits(Beyond, bit)' = {}
    BY <1>1 DEF FirstBits
  <2>. QED
    BY <1>1, <2>1
<1>12. ASSUME NEW q \in 0 .. Beyond' - 1
       PROVE  buf'[HeaderEnd' + q] = FirstBits(q, ByteBits)'
  <2>1. FirstBits(q, ByteBits)' = FirstBits(q, ByteBits)
    BY <1>6
  <2>2. CASE q = Beyond
    BY <1>4, <1>5, <1>6, <1>7, <2>1, <2>2
  <2>3. CASE q # Beyond
    <3>1. q \in 0 .. Beyond - 1
      BY <1>4, <1>7, <2>3
    <3>2. HeaderEnd + q \in 0 .. cursor - 1
      BY <1>2, <1>3, <1>4, <1>7, <3>1
    <3>. DEFINE a == HeaderEnd + q
    <3>3. buf[a] = FirstBits(q, ByteBits) /\ a \in 0 .. cursor - 1
      BY <1>2, <3>1, <3>2
    <3>. HIDE DEF a
    <3>4. buf'[a] = buf[a]
      BY <1>5, <3>3 DEF Kept
    <3>. QED
      BY <1>6, <2>1, <3>3, <3>4 DEF a
  <2>. QED
    BY <2>2, <2>3
<1>13. bit' \in 0 .. ByteBits - 1
  BY <1>1, <1>3
<1>. QED
  BY <1>1, <1>2, <1>5, <1>6, <1>7, <1>8, <1>9, <1>10, <1>11, <1>12, <1>13 DEF Encoding

(* The next symbol starts where the code of this one ends.                   *)
LEMMA NextSymbolKeeps ==
  ASSUME Parameters, Given, Encoding, NextSymbol
  PROVE  Encoding'
<1>1. /\ HasSymbol /\ ~ HasBit /\ k' = k + 1 /\ b' = 0
      /\ UNCHANGED <<input, buf, cursor, pc, byte, bit>>
  BY DEF NextSymbol, header
<1>2. /\ pc = "written" /\ HeaderThere(MaxSymbols)
      /\ cursor \in Nat /\ HeaderEnd <= cursor /\ WrittenTo(cursor)
      /\ k \in 0 .. symbolCount /\ b \in Nat /\ bit \in 0 .. ByteBits - 1
      /\ IF HasSymbol THEN b <= Len(CodeHere) ELSE b = 0
      /\ Beyond * ByteBits + bit = BitsOf(k) + b
      /\ \A q \in 0 .. Beyond - 1 : buf[HeaderEnd + q] = FirstBits(q, ByteBits)
      /\ byte = FirstBits(Beyond, bit)
  BY DEF Encoding
<1>3. /\ MaxSymbols \in Nat /\ symbolCount \in Nat
      /\ \A s \in DOMAIN code : Len(code[s]) \in Nat
  BY GivenFacts DEF Widths
<1>4. k \in 0 .. symbolCount - 1 /\ k + 1 \in 0 .. symbolCount
  BY <1>1, <1>2, <1>3 DEF HasSymbol
<1>5. b = Len(CodeHere) /\ CodeHere = code[data[k]]
  <2>1. Len(CodeHere) \in Nat
    BY <1>3, <1>4, NextBits DEF CodeHere
  <2>2. ~ (b < Len(CodeHere)) /\ b <= Len(CodeHere)
    BY <1>1, <1>2 DEF HasBit
  <2>. QED
    BY <1>2, <2>1, <2>2 DEF CodeHere
<1>6. BitsOf(k + 1) = BitsOf(k) + b /\ BitsOf(k + 1) \in Nat
  BY <1>4, <1>5, NextBits
<1>7. /\ UNCHANGED <<data, code, symbolCount>> /\ HeaderEnd' = HeaderEnd /\ Beyond' = Beyond
      /\ BitsOf(k)' = BitsOf(k + 1)
      /\ \A d, n : FirstBits(d, n)' = FirstBits(d, n)
  <2>1. BitsOf(k)' = BitsOf(k + 1)
    BY <1>1, SameInput DEF BitsOf
  <2>. QED
    BY <1>1, <2>1, SameInput DEF Beyond
<1>8. HeaderThere(MaxSymbols)'
  BY <1>1, <1>2, <1>3, HeaderStays
<1>9. WrittenTo(cursor)'
  BY <1>1, <1>2 DEF WrittenTo
<1>10. b' \in Nat /\ IF HasSymbol' THEN b' <= Len(CodeHere') ELSE b' = 0
  <2>1. ASSUME HasSymbol' PROVE 0 <= Len(CodeHere')
    <3>1. k + 1 \in 0 .. symbolCount - 1
      BY <1>1, <1>3, <1>4, <1>7, <2>1 DEF HasSymbol
    <3>2. CodeHere' = code[data[k + 1]]
      BY <1>1, <1>7 DEF CodeHere
    <3>3. Len(code[data[k + 1]]) \in Nat
      BY <1>3, <3>1, NextBits
    <3>. QED
      BY <3>2, <3>3
  <2>. QED
    BY <1>1, <2>1
<1>11. (Beyond * ByteBits + bit = BitsOf(k) + b)'
  BY <1>1, <1>2, <1>6, <1>7
<1>12. byte' = FirstBits(Beyond, bit)'
  <2>1. UNCHANGED <<Beyond, bit, byte, Whole>>
    BY <1>1, <1>7, SameInput
  <2>2. FirstBits(Beyond, bit)' = FirstBits(Beyond, bit)
    BY <2>1 DEF FirstBits
  <2>. QED
    BY <1>2, <2>1, <2>2
<1>. QED
  BY <1>1, <1>2, <1>4, <1>7, <1>8, <1>9, <1>10, <1>11, <1>12 DEF Encoding

(* The rest of the last byte is filled up with zeros, and the buffer is full.*)
LEMMA FlushKeeps ==
  ASSUME Parameters, Given, Encoding, bufSize = HeaderEnd + PayloadSize, Flush
  PROVE  Encoded'
<1>1. /\ ~ HasSymbol
      /\ IF bit > 0 THEN Table!WriteData(<<byte>>) ELSE UNCHANGED <<buf, cursor>>
      /\ UNCHANGED <<input, bufSize, pc>>
  BY DEF Flush, header
<1>2. /\ pc = "written" /\ HeaderThere(MaxSymbols)
      /\ cursor \in Nat /\ HeaderEnd <= cursor /\ WrittenTo(cursor)
      /\ bit \in 0 .. ByteBits - 1
      /\ \A q \in 0 .. Beyond - 1 : buf[HeaderEnd + q] = FirstBits(q, ByteBits)
      /\ byte = FirstBits(Beyond, bit)
  BY DEF Encoding
<1>3. /\ ByteBits \in Nat \ {0} /\ MaxSymbols \in Nat /\ HeaderEnd \in Nat
      /\ Len(Whole) \in Nat /\ PayloadSize \in Nat
  BY GivenFacts, EntryStarts DEF Widths
<1>. DEFINE d == Beyond
            e == d * ByteBits
            n == Len(Whole)
<1>4. d \in Nat /\ e \in Nat /\ bit \in Nat /\ e + bit = n
  BY <1>1, EncodingBits
<1>5. HeaderEnd + d = cursor
  BY <1>2, <1>3 DEF Beyond
<1>6. PayloadSize = IF bit = 0 THEN d ELSE d + 1
  <2>. HIDE DEF d
  <2>1. ByteBits * d = e
    BY <1>3, <1>4, SMT
  <2>. HIDE DEF e, n
  <2>2. ByteBits * d + bit = n /\ n \in Nat
    BY <1>3, <1>4, <2>1 DEF n
  <2>4. ByteBits \in Nat \ {0} /\ d \in Nat /\ bit \in 0 .. ByteBits - 1
    BY <1>2, <1>3, <1>4
  <2>3. UPDIV(n, ByteBits) = IF bit = 0 THEN d ELSE d + 1
    BY <2>2, <2>4, RoundUp
  <2>. QED
    BY <2>3 DEF PayloadSize, n
<1>7. ASSUME NEW q \in 0 .. d - 1
      PROVE  Payload[q] = FirstBits(q, ByteBits)
  <2>1. q \in 0 .. PayloadSize - 1
    BY <1>3, <1>4, <1>6
  <2>2. (q + 1) * ByteBits <= n
    <3>. HIDE DEF d, n
    <3>1. ByteBits * (q + 1) <= ByteBits * d
      <4>1. q + 1 \in Nat /\ q + 1 <= d /\ d \in Nat
        BY <1>4
      <4>. HIDE DEF e
      <4>2. ByteBits \in Nat
        BY <1>3
      <4>. QED
        BY <4>1, <4>2, ProductMonotonic
    <3>2. ByteBits * (q + 1) = (q + 1) * ByteBits /\ ByteBits * d = d * ByteBits
      BY <1>3, <1>4, SMT
    <3>3. (q + 1) * ByteBits \in Nat
      BY <1>3, <1>4, SMT
    <3>. QED
      BY <1>4, <3>1, <3>2, <3>3
  <2>. QED
    BY <2>1, <2>2, PayloadBytes
<1>8. ASSUME bit > 0
      PROVE  Payload[d] = byte
  <2>1. d \in 0 .. PayloadSize - 1
    BY <1>3, <1>4, <1>6, <1>8
  <2>2. Payload[d] = {x \in 0 .. ByteBits - 1 : e + x < n /\ Whole[e + x + 1] = 1}
    BY <2>1, PayloadBytes
  <2>3. byte = {x \in 0 .. bit - 1 : Whole[e + x + 1] = 1}
    BY <1>2 DEF FirstBits
  <2>. HIDE DEF d, e, n
  <2>4. \A x \in 0 .. ByteBits - 1 : e + x < n <=> x \in 0 .. bit - 1
    BY <1>3, <1>4
  <2>5. 0 .. bit - 1 \subseteq 0 .. ByteBits - 1
    BY <1>2, <1>3
  <2>. QED
    BY <2>2, <2>3, <2>4, <2>5
<1>9. /\ HeaderEnd' = HeaderEnd /\ PayloadSize' = PayloadSize /\ Payload' = Payload
      /\ pc' = "written" /\ bufSize' = HeaderEnd + PayloadSize
  BY <1>1, <1>2, SameInput
<1>10. EntryStart(MaxSymbols) <= cursor
  BY <1>2, BeforeSteps
<1>11. CASE bit > 0
  <2>1. /\ cursor' = cursor + 1 /\ Kept /\ buf'[cursor] = byte
    <3>. DEFINE bs == <<byte>>
    <3>1. Len(bs) = 1 /\ bs[1] = byte /\ Len(bs) \in Nat /\ 1 .. 1 = {1} /\ cursor + 1 - 1 = cursor
      BY <1>2
    <3>2. Table!WriteData(bs)
      BY <1>1, <1>11
    <3>. HIDE DEF bs
    <3>3. /\ cursor' = cursor + Len(bs) /\ Kept
          /\ \A q \in 1 .. Len(bs) : buf'[cursor + q - 1] = bs[q]
      BY <1>2, <3>1, <3>2, WriteAppends
    <3>. QED
      BY <3>1, <3>3
  <2>2. HeaderThere(MaxSymbols)'
    BY <1>1, <1>2, <1>3, <1>10, <2>1, HeaderStays
  <2>3. PayloadSize = d + 1
    BY <1>4, <1>6, <1>11
  <2>. HIDE DEF d
  <2>4. ASSUME NEW q \in 0 .. PayloadSize - 1 PROVE buf'[HeaderEnd + q] = Payload[q]
    <3>1. CASE q = d
      BY <1>5, <1>8, <1>11, <2>1, <3>1
    <3>2. CASE q # d
      <4>. DEFINE a == HeaderEnd + q
      <4>1. q \in 0 .. d - 1 /\ a \in 0 .. cursor - 1
        BY <1>2, <1>3, <1>4, <1>5, <2>3, <3>2
      <4>2. buf[a] = FirstBits(q, ByteBits)
        BY <1>2, <4>1 DEF d
      <4>. HIDE DEF a
      <4>3. buf'[a] = buf[a]
        BY <2>1, <4>1 DEF Kept
      <4>. QED
        BY <1>7, <4>1, <4>2, <4>3 DEF a
    <3>. QED
      BY <3>1, <3>2
  <2>5. cursor' = bufSize'
    BY <1>2, <1>3, <1>4, <1>5, <1>9, <2>1, <2>3
  <2>6. PayloadThere'
    BY <1>9, <2>4 DEF PayloadThere
  <2>. QED
    BY <1>9, <2>2, <2>5, <2>6 DEF Encoded, Complete
<1>12. CASE ~ (bit > 0)
  <2>1. UNCHANGED <<buf, cursor>> /\ bit = 0
    BY <1>1, <1>4, <1>12
  <2>2. HeaderThere(MaxSymbols)'
    BY <1>1, <1>2, <1>3, <2>1, HeaderStays
  <2>3. PayloadSize = d
    BY <1>6, <2>1
  <2>4. PayloadThere'
    <3>1. \A q \in 0 .. PayloadSize - 1 : buf'[HeaderEnd + q] = Payload[q]
      BY <1>2, <1>7, <2>1, <2>3
    <3>. QED
      BY <1>9, <3>1 DEF PayloadThere
  <2>5. cursor' = bufSize'
    BY <1>5, <1>9, <2>1, <2>3
  <2>. QED
    BY <1>9, <2>2, <2>4, <2>5 DEF Encoded, Complete
<1>. QED
  BY <1>11, <1>12

(* The decoder starts at the front of the buffer.                            *)
LEMMA RewindKeeps ==
  ASSUME Parameters, Given, Encoded, Rewind
  PROVE  ReadingHeader'
<1>1. /\ cursor' = 0 /\ pc' = "readCount" /\ UNCHANGED <<input, buf>>
  BY DEF Rewind, Table!Rewind, Table!given, input
<1>2. Complete'
  BY <1>1, FileStays DEF Encoded
<1>. QED
  BY <1>1, <1>2 DEF ReadingHeader

-------------------------------------------------------------------------------
(* read_code_table_memory *)

(* The prefixes of a code.                                                   *)
LEMMA PrefixFacts ==
  ASSUME NEW e \in Seq({0, 1})
  PROVE  /\ e \in Prefixes(e) /\ << >> \in Prefixes(e)
         /\ \A q \in Prefixes(e) : IsPrefix(q, e)
         /\ \A q : OnWay(q, e) => q \in Prefixes(e)
<1>. DEFINE n == Len(e)
<1>1. n \in Nat
  BY LenProperties
<1>2. SubSeq(e, 1, n) = e /\ SubSeq(e, 1, 0) = << >>
  OBVIOUS
<1>3. e \in Prefixes(e) /\ << >> \in Prefixes(e)
  <2>1. n \in 0 .. n /\ 0 \in 0 .. n
    BY <1>1
  <2>. QED
    BY <1>2, <2>1 DEF Prefixes
<1>4. ASSUME NEW q \in Prefixes(e) PROVE IsPrefix(q, e)
  <2>1. PICK l \in 0 .. n : q = SubSeq(e, 1, l)
    BY DEF Prefixes
  <2>2. q \in Seq({0, 1}) /\ Len(q) = l /\ l <= n /\ \A x \in 1 .. l : q[x] = e[x]
    <3>1. l \in Nat /\ l <= n
      BY <1>1
    <3>2. \A x \in 1 .. l : e[x] \in {0, 1}
      BY <1>1, <3>1
    <3>. QED
      BY <1>1, <2>1, <3>1, <3>2
  <2>. QED
    BY <2>2, AgreesPrefix
<1>5. ASSUME NEW q, OnWay(q, e) PROVE q \in Prefixes(e)
  <2>1. q \in Seq({0, 1}) /\ Len(q) <= n /\ \A x \in 1 .. Len(q) : q[x] = e[x]
    BY <1>5 DEF OnWay
  <2>2. q = SubSeq(e, 1, Len(q))
    BY <2>1, AgreesPrefix
  <2>3. Len(q) \in 0 .. n
    BY <1>1, <2>1, LenProperties
  <2>. QED
    BY <2>2, <2>3 DEF Prefixes
<1>. QED
  BY <1>3, <1>4, <1>5

(* The path of one more code is added to the tree: its last node is a leaf   *)
(* because no other code leads there.                                        *)
LEMMA PathAdded ==
  ASSUME Parameters, Given, IsPrefixCode(code), NEW S \in SUBSET DOMAIN code, TreeOf(S),
         NEW n \in DOMAIN code, n \notin S, tree' = Table!WithPath(code[n], n), UNCHANGED code
  PROVE  TreeOf(S \cup {n})'
<1>. DEFINE T == DOMAIN tree \cup Prefixes(code[n])
<1>1. tree' = [q \in T |-> IF q \in DOMAIN tree THEN tree[q]
                           ELSE IF q = code[n] THEN n ELSE Table!NonLeaf]
  BY SameOperators DEF Table!WithPath
<1>2. /\ DOMAIN tree = {<< >>} \cup UNION {Prefixes(code[s]) : s \in S}
      /\ \A s \in S : code[s] # << >> => tree[code[s]] = s
      /\ \A q \in DOMAIN tree : tree[q] # Table!NonLeaf => tree[q] \in S /\ code[tree[q]] = q
  BY DEF TreeOf
<1>3. \A s \in DOMAIN code : /\ code[s] \in Prefixes(code[s])
                             /\ \A q \in Prefixes(code[s]) : IsPrefix(q, code[s])
  BY GivenFacts, PrefixFacts
<1>. HIDE DEF T
<1>4. DOMAIN tree' = T
  BY <1>1
<1>5. T = {<< >>} \cup UNION {Prefixes(code[s]) : s \in S \cup {n}}
  BY <1>2 DEF T
<1>6. code[n] # << >> => code[n] \notin DOMAIN tree
  <2>1. ASSUME NEW s \in S, code[n] \in Prefixes(code[s]) PROVE FALSE
    BY <1>3, <2>1 DEF IsPrefixCode
  <2>. QED
    BY <1>2, <2>1
<1>7. ASSUME NEW s \in S \cup {n}, code[s] # << >> PROVE tree'[code[s]] = s
  <2>1. CASE s = n
    <3>1. code[n] \in T
      BY <1>3 DEF T
    <3>. QED
      BY <1>1, <1>6, <1>7, <2>1, <3>1
  <2>2. CASE s \in S
    <3>1. code[s] \in DOMAIN tree
      BY <1>2, <1>3, <2>2
    <3>2. code[s] \in T
      BY <3>1 DEF T
    <3>. QED
      BY <1>1, <1>2, <1>7, <2>2, <3>1, <3>2
  <2>. QED
    BY <2>1, <2>2
<1>8. ASSUME NEW q \in DOMAIN tree', tree'[q] # Table!NonLeaf
      PROVE  tree'[q] \in S \cup {n} /\ code[tree'[q]] = q
  <2>1. CASE q \in DOMAIN tree
    BY <1>1, <1>2, <1>4, <1>8, <2>1
  <2>2. CASE q \notin DOMAIN tree
    BY <1>1, <1>4, <1>8, <2>2
  <2>. QED
    BY <2>1, <2>2
<1>. QED
  BY <1>4, <1>5, <1>7, <1>8 DEF TreeOf

(* While entries are left there is a next one, and it lies under the cursor. *)
LEMMA NextEntry ==
  ASSUME Parameters, Given, NEW n \in Nat, Cardinality(DOMAIN code \ Before(n)) # 0
  PROVE  \E s \in DOMAIN code :
           /\ s \notin Before(n) /\ EntryStart(s) = EntryStart(n)
           /\ Before(s + 1) = Before(n) \cup {s}
           /\ Cardinality(DOMAIN code \ Before(s + 1)) = Cardinality(DOMAIN code \ Before(n)) - 1
<1>. DEFINE T == DOMAIN code \ Before(n)
            s == Min(T)
<1>1. /\ IsFiniteSet(DOMAIN code) /\ MaxSymbols \in Nat
      /\ DOMAIN code \subseteq 0 .. MaxSymbols - 1 /\ DOMAIN code \subseteq Nat
  BY GivenFacts DEF Widths
<1>2. IsFiniteSet(T) /\ T \in SUBSET Nat /\ T # {}
  <2>1. IsFiniteSet(T)
    BY <1>1, FS_Subset
  <2>. QED
    BY <1>1, <2>1, FS_EmptySet
<1>. HIDE DEF T
<1>3. s \in T /\ \A y \in T : s <= y
  BY <1>2, LeastElement
<1>. HIDE DEF s
<1>4. s \in DOMAIN code /\ s \in Nat /\ ~ (s < n) /\ s \notin Before(n)
  BY <1>1, <1>3 DEF T, Before
<1>5. Before(s) = Before(n)
  <2>1. ASSUME NEW x \in DOMAIN code PROVE x < s <=> x < n
    <3>1. x \in Nat
      BY <1>1
    <3>2. x < n => x < s
      BY <1>4, <3>1
    <3>3. ~ (x < n) => s <= x
      BY <1>3 DEF T, Before
    <3>. QED
      BY <1>4, <3>1, <3>2, <3>3
  <2>. QED
    BY <2>1 DEF Before
<1>6. EntryStart(s) = EntryStart(n)
  BY <1>5 DEF EntryStart
<1>7. Before(s + 1) = Before(n) \cup {s}
  BY <1>4, <1>5, BeforeSteps
<1>8. DOMAIN code \ Before(s + 1) = T \ {s}
  BY <1>7 DEF T
<1>9. Cardinality(T \ {s}) = Cardinality(T) - 1
  BY <1>2, <1>3, FS_RemoveElement
<1>. QED
  BY <1>4, <1>6, <1>7, <1>8, <1>9 DEF T

(* The fields are read as they were written.                                 *)
LEMMA ReadHeaderKeeps ==
  ASSUME Parameters, Given, IsPrefixCode(code), bufSize = HeaderEnd + PayloadSize,
         ReadingHeader, p = << >>, out = << >>, ReadHeader
  PROVE  \/ stage' = "reread" /\ pc' # "read" /\ ReadingHeader'
         \/ /\ stage' = "fetch" /\ pc' = "read" /\ Decoding'
            /\ numBytes' = symbolCount' /\ TreeOf(DOMAIN code)'
<1>1. /\ Complete
      /\ \/ pc = "readCount" /\ cursor = 0
         \/ pc = "readSize" /\ cursor = CountBytes /\ left = Cardinality(DOMAIN code)
         \/ /\ pc = "readEntries" /\ numBytes = symbolCount
            /\ \E n \in 0 .. MaxSymbols :
                 /\ cursor = EntryStart(n)
                 /\ left = Cardinality(DOMAIN code \ Before(n))
                 /\ TreeOf(Before(n))
  BY DEF ReadingHeader
<1>2. /\ stage = "reread" /\ stage' = (IF pc' = "read" THEN "fetch" ELSE stage)
      /\ UNCHANGED <<data, out, p>>
      /\ Table!ReadStep
  BY DEF ReadHeader, coding
<1>3. UNCHANGED <<code, symbolCount, buf>>
  BY <1>2 DEF Table!ReadStep, Table!ReadCount, Table!ReadSize, Table!ReadEntry,
              Table!EndOfReading, Table!given
<1>4. UNCHANGED <<input, buf>>
  BY <1>2, <1>3 DEF input
<1>5. Complete'
  BY <1>1, <1>4, FileStays
<1>6. /\ Widths /\ CountBytes \in Nat /\ SizeBytes \in Nat /\ Cardinality(DOMAIN code) \in Nat
      /\ Cardinality(DOMAIN code) < 2 ^ (CountBytes * ByteBits)
      /\ symbolCount < 2 ^ (SizeBytes * ByteBits)
      /\ symbolCount \in Nat \ {0} /\ MaxSymbols \in Nat /\ ByteBits \in Nat \ {0}
  BY GivenFacts DEF Widths
<1>7. /\ Stored(Table!NumberBytes(Cardinality(DOMAIN code), CountBytes), 0)
      /\ Stored(Table!NumberBytes(symbolCount, SizeBytes), CountBytes)
      /\ \A s \in DOMAIN code : Stored(Table!Entry(s), EntryStart(s))
  BY <1>1, BeforeSteps DEF Complete, HeaderThere
<1>8. \A n : Before(n)' = Before(n) /\ EntryStart(n)' = EntryStart(n)
  BY <1>4, SameInput
<1>9. CASE Table!ReadCount
  <2>1. /\ pc = "readCount" /\ pc' = "readSize" /\ cursor' = cursor + CountBytes
        /\ left' = Table!NumberIn(Table!DataAt(cursor, CountBytes))
    BY <1>9 DEF Table!ReadCount
  <2>2. cursor = 0
    BY <1>1, <2>1
  <2>3. left' = Cardinality(DOMAIN code)
    <3>. DEFINE v == Cardinality(DOMAIN code)
                a == 0
    <3>1. /\ v \in Nat /\ v < 2 ^ (CountBytes * ByteBits) /\ a \in Nat
          /\ Stored(Table!NumberBytes(v, CountBytes), a)
      BY <1>6, <1>7
    <3>. HIDE DEF v, a
    <3>2. Table!NumberIn(Table!DataAt(a, CountBytes)) = v
      BY <1>6, <3>1, StoredNumber
    <3>. QED
      BY <2>1, <2>2, <3>2 DEF v, a
  <2>4. cursor' = CountBytes
    BY <1>6, <2>1, <2>2
  <2>5. ReadingHeader'
    BY <1>3, <1>5, <2>1, <2>3, <2>4 DEF ReadingHeader
  <2>. QED
    BY <1>2, <2>1, <2>5
<1>10. CASE Table!ReadSize
  <2>1. /\ pc = "readSize" /\ pc' = "readEntries" /\ cursor' = cursor + SizeBytes
        /\ left' = left
        /\ numBytes' = Table!NumberIn(Table!DataAt(cursor, SizeBytes))
        /\ tree' = [q \in {<< >>} |-> Table!NonLeaf]
    BY <1>10 DEF Table!ReadSize
  <2>2. cursor = CountBytes /\ left = Cardinality(DOMAIN code)
    BY <1>1, <2>1
  <2>3. numBytes' = symbolCount'
    BY <1>3, <1>6, <1>7, <2>1, <2>2, StoredNumber
  <2>4. TreeOf({})'
    <3>1. DOMAIN tree' = {<< >>} /\ tree'[<< >>] = Table!NonLeaf
      BY <2>1
    <3>. QED
      BY <3>1 DEF TreeOf
  <2>5. /\ 0 \in 0 .. MaxSymbols /\ cursor' = EntryStart(0)' /\ Before(0)' = {}
        /\ left' = Cardinality(DOMAIN code' \ Before(0)')
    <3>1. EntryStart(0) = CountBytes + SizeBytes /\ Before(0) = {}
      BY EntryStarts, BeforeSteps
    <3>2. EntryStart(0)' = CountBytes + SizeBytes /\ Before(0)' = {}
      BY <1>8, <3>1
    <3>3. DOMAIN code' \ Before(0)' = DOMAIN code
      BY <1>3, <3>2
    <3>. QED
      BY <1>6, <2>1, <2>2, <3>2, <3>3
  <2>6. ReadingHeader'
    BY <1>5, <2>1, <2>3, <2>4, <2>5 DEF ReadingHeader
  <2>. QED
    BY <1>2, <2>1, <2>6
<1>11. CASE Table!ReadEntry
  <2>1. /\ pc = "readEntries" /\ pc' = pc /\ left > 0 /\ left' = left - 1
        /\ cursor' = cursor + 2 + Table!NumBytesOf(Table!CodeLength)
        /\ tree' = Table!WithPath(Table!BitsIn(Table!DataAt(cursor + 2,
                                                 Table!NumBytesOf(Table!CodeLength)),
                                               Table!CodeLength),
                                  Table!NumberIn(Table!DataAt(cursor, 1)))
        /\ numBytes' = numBytes
    BY <1>11 DEF Table!ReadEntry
  <2>2. numBytes = symbolCount
    BY <1>1, <2>1
  <2>3. PICK n \in 0 .. MaxSymbols : /\ cursor = EntryStart(n)
                                     /\ left = Cardinality(DOMAIN code \ Before(n))
                                     /\ TreeOf(Before(n))
    BY <1>1, <2>1
  <2>4. n \in Nat /\ Cardinality(DOMAIN code \ Before(n)) # 0
    BY <1>6, <2>1, <2>3
  <2>5. PICK s \in DOMAIN code :
          /\ s \notin Before(n) /\ EntryStart(s) = EntryStart(n)
          /\ Before(s + 1) = Before(n) \cup {s}
          /\ Cardinality(DOMAIN code \ Before(s + 1)) = Cardinality(DOMAIN code \ Before(n)) - 1
    BY <2>4, NextEntry
  <2>6. cursor = EntryStart(s) /\ cursor \in Nat /\ Stored(Table!Entry(s), cursor)
    BY <1>7, <2>3, <2>4, <2>5, EntryStarts
  <2>7. /\ Table!NumberIn(Table!DataAt(cursor, 1)) = s
        /\ 2 + Table!NumBytesOf(Table!CodeLength) = EntrySize(s)
        /\ Table!BitsIn(Table!DataAt(cursor + 2, Table!NumBytesOf(Table!CodeLength)),
                        Table!CodeLength) = code[s]
    BY <2>6, StoredEntry
  <2>8. tree' = Table!WithPath(code[s], s)
    BY <2>1, <2>7
  <2>15. PICK S \in SUBSET DOMAIN code : S = Before(n)
    BY DEF Before
  <2>9. TreeOf(S \cup {s})'
    <3>1. TreeOf(S) /\ s \notin S
      BY <2>3, <2>5, <2>15
    <3>. QED
      BY <1>3, <2>8, <3>1, PathAdded
  <2>10. s \in Nat /\ s + 1 \in 0 .. MaxSymbols
    BY <1>6, GivenFacts
  <2>11. cursor' = EntryStart(s + 1)
    <3>1. EntryStart(s + 1) = EntryStart(s) + EntrySize(s)
      BY EntryStarts
    <3>2. Table!NumBytesOf(Table!CodeLength) \in Int
      <4>1. Table!CodeLength = Len(code[s]) /\ Table!NumBytesOf(Len(code[s])) = UPDIV(Len(code[s]), ByteBits)
            /\ UPDIV(Len(code[s]), ByteBits) \in Nat
        BY <1>6, <2>6, StoredEntry, CodeRead, GivenFacts
      <4>. QED
        BY <4>1
    <3>. DEFINE z == Table!NumBytesOf(Table!CodeLength)
    <3>. HIDE DEF z
    <3>3. cursor + 2 + z = cursor + (2 + z)
      BY <2>6, <3>2 DEF z
    <3>. QED
      BY <2>1, <2>6, <2>7, <3>1, <3>3 DEF z
  <2>12. /\ cursor' = EntryStart(s + 1)' /\ Before(s + 1)' = Before(s + 1)
         /\ left' = Cardinality(DOMAIN code' \ Before(s + 1)')
    BY <1>3, <1>8, <2>1, <2>3, <2>5, <2>11
  <2>13. TreeOf(Before(s + 1))'
    <3>1. Before(s + 1)' = S \cup {s}
      BY <2>5, <2>12, <2>15
    <3>. QED
      BY <2>9, <3>1 DEF TreeOf
  <2>14. ReadingHeader'
    <3>. DEFINE j == s + 1
    <3>1. /\ j \in 0 .. MaxSymbols /\ cursor' = EntryStart(j)' /\ TreeOf(Before(j))'
          /\ left' = Cardinality(DOMAIN code' \ Before(j)')
      BY <2>10, <2>12, <2>13
    <3>. HIDE DEF j
    <3>2. pc' = "readEntries" /\ numBytes' = symbolCount'
      BY <1>3, <2>1, <2>2
    <3>. QED
      BY <1>5, <3>1, <3>2 DEF ReadingHeader
  <2>. QED
    BY <1>2, <2>1, <2>14
<1>12. CASE Table!EndOfReading
  <2>1. /\ pc = "readEntries" /\ pc' = "read" /\ left = 0
        /\ UNCHANGED <<cursor, numBytes, tree>>
    BY <1>12 DEF Table!EndOfReading
  <2>2. numBytes = symbolCount
    BY <1>1, <2>1
  <2>3. PICK n \in 0 .. MaxSymbols : /\ cursor = EntryStart(n)
                                     /\ left = Cardinality(DOMAIN code \ Before(n))
                                     /\ TreeOf(Before(n))
    BY <1>1, <2>1
  <2>4. Before(n) = DOMAIN code
    <3>1. IsFiniteSet(DOMAIN code \ Before(n))
      BY GivenFacts, FS_Subset
    <3>2. DOMAIN code \ Before(n) = {}
      BY <2>1, <2>3, <3>1, FS_EmptySet
    <3>. QED
      BY <3>2 DEF Before
  <2>5. cursor = HeaderEnd /\ HeaderEnd \in Nat
    BY <1>6, <2>3, <2>4, EntryStarts
  <2>6. TreeOf(DOMAIN code)'
    BY <1>3, <2>1, <2>3, <2>4 DEF TreeOf
  <2>7. /\ UNCHANGED <<data, code, symbolCount>> /\ HeaderEnd' = HeaderEnd
        /\ \A x : BitsOf(x)' = BitsOf(x)
    BY <1>4, SameInput
  <2>8. Decoded(0)'
    BY <1>2 DEF Decoded
  <2>9. Fetching(0)'
    <3>1. p' = << >> /\ Len(<< >>) = 0
      BY <1>2
    <3>2. code[data[0]] \in Seq({0, 1})
      <4>1. 0 \in 0 .. symbolCount - 1
        BY <1>6
      <4>. QED
        BY <4>1, GivenFacts DEF Given
    <3>3. /\ OnWay(<< >>, code[data[0]])
          /\ Len(<< >>) < Len(code[data[0]]) \/ code[data[0]] = << >>
      <4>. DEFINE e == code[data[0]]
      <4>1. e \in Seq({0, 1})
        BY <3>2
      <4>. HIDE DEF e
      <4>2. Len(e) \in Nat /\ << >> \in Seq({0, 1}) /\ (Len(e) = 0 => e = << >>)
        BY <4>1, LenProperties, EmptySeq
      <4>3. OnWay(<< >>, e) /\ (0 < Len(e) \/ e = << >>)
        BY <3>1, <4>2 DEF OnWay
      <4>. QED
        BY <3>1, <4>3 DEF e
    <3>4. Walked(0)' = 0
      <4>1. BitsOf(0) = 0
        BY <3>1, BitsSteps DEF BitsOf
      <4>2. Walked(0)' = BitsOf(0) + Len(p')
        BY <2>7 DEF Walked
      <4>. QED
        BY <3>1, <4>1, <4>2
    <3>5. Beyond' = 0 /\ 0 * ByteBits = 0 /\ HeaderEnd' <= cursor'
      BY <1>6, <2>1, <2>5, <2>7 DEF Beyond
    <3>. QED
      BY <2>7, <3>1, <3>3, <3>4, <3>5 DEF Fetching
  <2>10. 0 \in 0 .. symbolCount'
    BY <1>6, <2>7
  <2>11. stage' = "fetch" /\ cursor' \in Nat /\ cursor' <= bufSize'
    <3>1. PayloadSize \in Nat /\ bufSize' = bufSize
      BY <1>12, GivenFacts DEF Table!EndOfReading, Table!given
    <3>. QED
      BY <1>2, <2>1, <2>5, <3>1
  <2>12. Decoding'
    BY <1>5, <2>1, <2>8, <2>9, <2>10, <2>11 DEF Decoding
  <2>. QED
    BY <2>1, <2>2, <2>6, <2>7, <2>11, <2>12
<1>. QED
  BY <1>2, <1>9, <1>10, <1>11, <1>12 DEF Table!ReadStep

-------------------------------------------------------------------------------
(* huffman_decode_seq *)

(* The size of the output is the number of symbols that were decoded.        *)
LEMMA OutputSize ==
  ASSUME NEW n \in Nat, Decoded(n)
  PROVE  /\ DOMAIN out = 0 .. n - 1 /\ Cardinality(DOMAIN out) = n
         /\ \A x \in 0 .. n - 1 : out[x] = data[x]
<1>1. DOMAIN out = 0 .. n - 1 /\ \A x \in 0 .. n - 1 : out[x] = data[x]
  BY DEF Decoded
<1>2. Cardinality(0 .. n - 1) = n
  <2>1. 0 \in Int /\ n - 1 \in Int
    OBVIOUS
  <2>2. Cardinality(0 .. n - 1) = IF 0 > n - 1 THEN 0 ELSE (n - 1) - 0 + 1
    BY <2>1, FS_Interval
  <2>. QED
    BY <2>2
<1>. QED
  BY <1>1, <1>2

(* A code without a bit is the only one, and then the file is empty.         *)
LEMMA EmptyFile ==
  ASSUME Parameters, Given, IsPrefixCode(code), ~ NoEmptyCode
  PROVE  Len(Whole) = 0
<1>1. PICK s \in DOMAIN code : code[s] = << >>
  BY DEF NoEmptyCode
<1>2. ASSUME NEW q \in DOMAIN code PROVE q = s
  <2>1. code[q] \in Seq({0, 1})
    BY GivenFacts
  <2>2. IsPrefix(<< >>, code[q])
    BY <2>1, PrefixFacts
  <2>. QED
    BY <1>1, <2>2 DEF IsPrefixCode
<1>. DEFINE K == {x \in Nat : x <= symbolCount => BitsOf(x) = 0}
<1>3. symbolCount \in Nat /\ \A t \in DOMAIN code : Len(code[t]) \in Nat
  BY GivenFacts
<1>4. 0 \in K
  <2>1. BitsOf(0) = 0
    BY BitsSteps DEF BitsOf
  <2>. QED
    BY <2>1
<1>5. ASSUME NEW x \in Nat, x \in K PROVE x + 1 \in K
  <2>1. ASSUME x + 1 <= symbolCount PROVE BitsOf(x + 1) = 0
    <3>1. x \in 0 .. symbolCount - 1 /\ BitsOf(x) = 0
      BY <1>3, <1>5, <2>1
    <3>2. BitsOf(x + 1) = BitsOf(x) + Len(code[data[x]])
      BY <3>1, NextBits
    <3>3. code[data[x]] = << >> /\ Len(<< >>) = 0
      BY <1>1, <1>2, <3>1 DEF Given
    <3>. QED
      BY <3>1, <3>2, <3>3
  <2>. QED
    BY <2>1
<1>. HIDE DEF K
<1>6. symbolCount \in K
  BY <1>3, <1>4, <1>5, AllNumbers
<1>. QED
  BY <1>3, <1>6 DEF K, BitsOf, Whole

(* The bit behind those that were walked is the next one on the way.         *)
LEMMA NextOnWay ==
  ASSUME Parameters, Given, NEW n \in 0 .. symbolCount - 1, OnWay(p, code[data[n]]),
         Len(p) < Len(code[data[n]])
  PROVE  /\ data[n] \in DOMAIN code /\ code[data[n]] \in Seq({0, 1})
         /\ Len(code[data[n]]) \in Nat /\ Len(p) \in Nat /\ BitsOf(n) \in Nat
         /\ Walked(n) \in Nat /\ Walked(n) < Len(Whole)
         /\ Whole[Walked(n) + 1] = code[data[n]][Len(p) + 1]
         /\ Whole[Walked(n) + 1] \in {0, 1}
         /\ BitsOf(n + 1) = BitsOf(n) + Len(code[data[n]])
<1>. DEFINE e == code[data[n]]
            m == BitsOf(n)
            l == Len(p)
<1>1. /\ symbolCount \in Nat /\ Coded(code, data, 0, symbolCount) /\ Len(Whole) \in Nat
      /\ Whole \in Seq({0, 1})
  BY GivenFacts
<1>2. data[n] \in DOMAIN code /\ e \in Seq({0, 1}) /\ Len(e) \in Nat /\ l \in Nat
  <2>1. data[n] \in DOMAIN code
    BY DEF Given
  <2>. QED
    BY <2>1, GivenFacts, LenProperties DEF OnWay
<1>3. LiesIn(code, data, 0, n, symbolCount)
  BY <1>1, CodeInside
<1>4. /\ BitsOf(n + 1) = m + Len(e) /\ m + Len(e) <= Len(Whole)
      /\ \A z \in 1 .. Len(e) : Whole[m + z] = e[z]
  BY <1>3 DEF LiesIn, BitsOf, Whole
<1>5. m \in Nat
  BY <1>1, BitsGrow DEF BitsOf
<1>6. l < Len(e) /\ Walked(n) = m + l
  BY DEF Walked
<1>. HIDE DEF e, m, l
<1>7. l + 1 \in 1 .. Len(e) /\ m + (l + 1) = m + l + 1 /\ m + l + 1 \in 1 .. Len(Whole)
  BY <1>1, <1>2, <1>4, <1>5, <1>6
<1>8. Whole[m + l + 1] = e[l + 1] /\ Whole[m + l + 1] \in {0, 1}
  BY <1>1, <1>4, <1>7
<1>9. m + l \in Nat /\ m + l < Len(Whole)
  BY <1>1, <1>2, <1>5, <1>7
<1>. QED
  BY <1>2, <1>4, <1>5, <1>6, <1>8, <1>9 DEF e, m, l

(* The child that the next bit selects is the next node on the way, ...      *)
LEMMA ChildOnWay ==
  ASSUME Parameters, Given, NEW n \in 0 .. symbolCount - 1, cursor \in Nat, WalkingDown(n),
         bit < ByteBits
  PROVE  OnWay(Child, code[data[n]]) /\ Child # << >> /\ Len(Child) = Len(p) + 1
<1>. DEFINE e == code[data[n]]
            q == Beyond - 1
            z == q * ByteBits + bit
            c == IF bit \in byte THEN 1 ELSE 0
            l == Len(p)
<1>1. /\ HeaderEnd < cursor /\ byte = Payload[q] /\ z = Walked(n)
      /\ OnWay(p, e) /\ l < Len(e) /\ bit \in 0 .. ByteBits
  BY DEF WalkingDown
<1>2. /\ ByteBits \in Nat \ {0} /\ HeaderEnd \in Nat /\ Len(Whole) \in Nat /\ PayloadSize \in Nat
  BY GivenFacts, EntryStarts DEF Widths
<1>3. q \in Nat /\ bit \in 0 .. ByteBits - 1
  BY <1>1, <1>2 DEF Beyond
<1>4. /\ z \in Nat /\ z < Len(Whole) /\ Whole[z + 1] = e[l + 1] /\ Whole[z + 1] \in {0, 1}
      /\ Len(e) \in Nat /\ l \in Nat
  <2>1. /\ Walked(n) \in Nat /\ Walked(n) < Len(Whole) /\ Whole[Walked(n) + 1] = e[l + 1]
        /\ Whole[Walked(n) + 1] \in {0, 1} /\ Len(e) \in Nat /\ l \in Nat
    BY <1>1, NextOnWay
  <2>. HIDE DEF z, e, l
  <2>. QED
    BY <1>1, <2>1
<1>5. q \in 0 .. PayloadSize - 1
  <2>. HIDE DEF q
  <2>. DEFINE m == Len(Whole)
  <2>2. /\ m \in Nat /\ bit \in Nat /\ q \in Nat /\ q * ByteBits + bit < m
        /\ ByteBits \in Nat \ {0}
    BY <1>2, <1>3, <1>4
  <2>. HIDE DEF m
  <2>3. q < UPDIV(m, ByteBits)
    BY <2>2, BitHasByte
  <2>1. q < PayloadSize
    BY <2>3 DEF PayloadSize, m
  <2>. QED
    BY <1>2, <1>3, <2>1
<1>6. c = e[l + 1]
  <2>1. Payload[q] = {x \in 0 .. ByteBits - 1 :
                        q * ByteBits + x < Len(Whole) /\ Whole[q * ByteBits + x + 1] = 1}
    <3>. HIDE DEF q
    <3>. QED
      BY <1>5, PayloadBytes
  <2>2. bit \in byte <=> Whole[z + 1] = 1
    <3>. HIDE DEF q
    <3>. QED
      BY <1>1, <1>3, <1>4, <2>1
  <2>. HIDE DEF q, z, e, l
  <2>. QED
    BY <1>4, <2>2
<1>7. Child = Append(p, c)
  BY DEF Child
<1>8. c \in {0, 1}
  OBVIOUS
<1>. HIDE DEF c, e, l, z, q
<1>9. p \in Seq({0, 1}) /\ \A x \in 1 .. l : p[x] = e[x]
  BY <1>1 DEF OnWay, l
<1>10. /\ Append(p, c) \in Seq({0, 1}) /\ Len(Append(p, c)) = l + 1
       /\ \A x \in 1 .. l : Append(p, c)[x] = p[x]
       /\ Append(p, c)[l + 1] = c
  BY <1>8, <1>9, AppendProperties DEF l
<1>11. \A x \in 1 .. l + 1 : Append(p, c)[x] = e[x]
  BY <1>4, <1>6, <1>9, <1>10
<1>12. l + 1 <= Len(e) /\ l + 1 # 0
  BY <1>1, <1>4
<1>13. Append(p, c) # << >>
  BY <1>10, <1>12
<1>14. OnWay(Child, e)
  BY <1>7, <1>10, <1>11, <1>12 DEF OnWay
<1>. QED
  BY <1>7, <1>10, <1>13, <1>14 DEF e, l

(* ... which is in the tree, and is a leaf when all bits are used.           *)
LEMMA WayToLeaf ==
  ASSUME Parameters, Given, IsPrefixCode(code), TreeOf(DOMAIN code), NEW s \in DOMAIN code,
         NEW node, OnWay(node, code[s]), node # << >>
  PROVE  /\ node \in DOMAIN tree
         /\ tree[node] # Table!NonLeaf => tree[node] = s
         /\ tree[node] # Table!NonLeaf <=> Len(node) = Len(code[s])
<1>. DEFINE e == code[s]
<1>1. e \in Seq({0, 1}) /\ s \in Nat
  BY GivenFacts
<1>2. /\ DOMAIN tree = {<< >>} \cup UNION {Prefixes(code[q]) : q \in DOMAIN code}
      /\ \A q \in DOMAIN code : code[q] # << >> => tree[code[q]] = q
      /\ \A x \in DOMAIN tree : tree[x] # Table!NonLeaf => tree[x] \in DOMAIN code /\ code[tree[x]] = x
  BY DEF TreeOf
<1>3. node \in Prefixes(e) /\ IsPrefix(node, e)
  BY <1>1, PrefixFacts
<1>4. node \in DOMAIN tree
  BY <1>2, <1>3
<1>5. Len(node) = Len(e) => node = e
  <2>1. /\ node \in Seq({0, 1}) /\ Len(node) <= Len(e)
        /\ \A x \in 1 .. Len(node) : node[x] = e[x]
    BY DEF OnWay
  <2>. HIDE DEF e
  <2>. QED
    BY <1>1, <2>1, AgreesPrefix
<1>6. Len(node) = Len(e) => tree[node] # Table!NonLeaf
  BY <1>1, <1>2, <1>5 DEF Table!NonLeaf
<1>7. ASSUME tree[node] # Table!NonLeaf PROVE tree[node] = s /\ Len(node) = Len(e)
  <2>1. tree[node] \in DOMAIN code /\ code[tree[node]] = node
    BY <1>2, <1>4, <1>7
  <2>2. tree[node] = s
    BY <1>3, <2>1 DEF IsPrefixCode
  <2>. QED
    BY <2>1, <2>2
<1>. QED
  BY <1>4, <1>6, <1>7

(* What the steps of the decoder leave alone.                                *)
LEMMA DecodingFrame ==
  ASSUME Parameters, Given, Complete, UNCHANGED <<input, buf, bufSize, header>>
  PROVE  /\ Complete' /\ UNCHANGED <<data, code, symbolCount, bufSize, numBytes, tree, pc>>
         /\ HeaderEnd' = HeaderEnd /\ PayloadSize' = PayloadSize /\ Payload' = Payload
         /\ NoEmptyCode' = NoEmptyCode
         /\ \A x : BitsOf(x)' = BitsOf(x)
         /\ TreeOf(DOMAIN code)' = TreeOf(DOMAIN code)
<1>1. UNCHANGED <<buf, bufSize, numBytes, tree, pc>>
  BY DEF header
<1>2. Complete'
  BY <1>1, FileStays
<1>3. UNCHANGED code
  BY SameInput
<1>4. TreeOf(DOMAIN code)' = TreeOf(DOMAIN code)
  BY <1>1, <1>3 DEF TreeOf
<1>. QED
  BY <1>1, <1>2, <1>4, SameInput

(* A symbol is missing, so there is a byte, the next one of the reference.   *)
LEMMA NextByteThere ==
  ASSUME Parameters, Given, Complete, NEW n \in 0 .. symbolCount - 1, cursor \in Nat,
         Fetching(n), NoEmptyCode
  PROVE  /\ Beyond \in 0 .. PayloadSize - 1 /\ Len(p) < Len(code[data[n]])
         /\ buf[cursor] = Payload[Beyond]
<1>1. /\ OnWay(p, code[data[n]]) /\ HeaderEnd <= cursor /\ Beyond * ByteBits = Walked(n)
      /\ Len(p) < Len(code[data[n]])
  BY DEF Fetching, NoEmptyCode, Given
<1>2. /\ ByteBits \in Nat \ {0} /\ HeaderEnd \in Nat /\ Len(Whole) \in Nat /\ PayloadSize \in Nat
  BY GivenFacts, EntryStarts DEF Widths
<1>3. Walked(n) \in Nat /\ Walked(n) < Len(Whole)
  BY <1>1, NextOnWay
<1>. DEFINE d == Beyond
            m == Len(Whole)
<1>4. d \in Nat /\ HeaderEnd + d = cursor
  BY <1>1, <1>2 DEF Beyond
<1>5. d * ByteBits + 0 < m /\ m \in Nat
  BY <1>1, <1>2, <1>3
<1>. HIDE DEF d, m
<1>6. d < UPDIV(m, ByteBits)
  BY <1>2, <1>4, <1>5, BitHasByte
<1>7. d \in 0 .. PayloadSize - 1
  <2>1. d < PayloadSize
    BY <1>6 DEF m, PayloadSize
  <2>. QED
    BY <1>2, <1>4, <2>1
<1>8. buf[HeaderEnd + d] = Payload[d]
  BY <1>7 DEF Complete, PayloadThere
<1>. QED
  BY <1>1, <1>4, <1>7, <1>8 DEF d

(* What a step does to the output: nothing, or the next position receives    *)
(* the byte of the file.                                                     *)
Copies == \/ UNCHANGED out
          \/ \E x \in DOMAIN data \ DOMAIN out :
               out' = [y \in DOMAIN out \cup {x} |-> data[y]]

(* A byte is fetched where the walk needs its next bit.                      *)
LEMMA FetchByteKeeps ==
  ASSUME Parameters, Given, IsPrefixCode(code), numBytes = symbolCount,
         bufSize = HeaderEnd + PayloadSize, Decoding, FetchByte
  PROVE  Decoding' /\ stage' = "walk" /\ UNCHANGED out
<1>1. /\ stage = "fetch" /\ Missing > 0 /\ cursor + 1 <= bufSize
      /\ byte' = buf[cursor] /\ cursor' = cursor + 1 /\ bit' = 0 /\ stage' = "walk"
      /\ UNCHANGED <<input, buf, bufSize, header, p, out>>
  BY DEF FetchByte, Table!Fits
<1>2. pc = "read" /\ Complete /\ cursor \in Nat /\ cursor <= bufSize
  BY DEF Decoding
<1>3. PICK n \in 0 .. symbolCount : Decoded(n) /\ (n < symbolCount => Fetching(n))
  BY <1>1 DEF Decoding
<1>4. /\ ByteBits \in Nat \ {0} /\ HeaderEnd \in Nat /\ PayloadSize \in Nat
      /\ symbolCount \in Nat /\ Len(Whole) \in Nat
  BY GivenFacts, EntryStarts DEF Widths
<1>5. n \in 0 .. symbolCount - 1 /\ Fetching(n)
  <2>1. n \in Nat /\ Cardinality(DOMAIN out) = n
    BY <1>3, <1>4, OutputSize
  <2>2. symbolCount - n > 0
    BY <1>1, <2>1 DEF Missing
  <2>. QED
    BY <1>3, <1>4, <2>1, <2>2
<1>6. HeaderEnd <= cursor /\ OnWay(p, code[data[n]]) /\ Beyond * ByteBits = Walked(n)
  BY <1>5 DEF Fetching
<1>7. NoEmptyCode
  <2>1. PayloadSize # 0
    BY <1>1, <1>2, <1>4, <1>6
  <2>2. UPDIV(0, ByteBits) = 0
    <3>1. ByteBits * 0 + 0 = 0 /\ 0 \in 0 .. ByteBits - 1
      BY <1>4
    <3>. QED
      BY <1>4, <3>1, RoundUp
  <2>3. Len(Whole) # 0
    BY <2>1, <2>2 DEF PayloadSize
  <2>. QED
    BY <2>3, EmptyFile
<1>8. Len(p) < Len(code[data[n]]) /\ buf[cursor] = Payload[Beyond]
  BY <1>2, <1>5, <1>7, NextByteThere
<1>9. /\ Complete' /\ UNCHANGED <<data, code, symbolCount, pc>>
      /\ HeaderEnd' = HeaderEnd /\ Payload' = Payload /\ NoEmptyCode' = NoEmptyCode
      /\ \A x : BitsOf(x)' = BitsOf(x)
  BY <1>1, <1>2, DecodingFrame
<1>10. Beyond' - 1 = Beyond /\ HeaderEnd' < cursor' /\ cursor' \in Nat /\ cursor' <= bufSize'
  BY <1>1, <1>2, <1>4, <1>6, <1>9 DEF Beyond
<1>11. (Beyond' - 1) * ByteBits + bit' = Walked(n)'
  <2>. DEFINE d == Beyond
  <2>1. Beyond' - 1 = d
    BY <1>10
  <2>2. Walked(n)' = Walked(n)
    BY <1>1, <1>9 DEF Walked
  <2>3. d * ByteBits = Walked(n) /\ Walked(n) \in Nat
    BY <1>5, <1>6, <1>8, NextOnWay
  <2>. HIDE DEF d
  <2>. QED
    BY <1>1, <2>1, <2>2, <2>3
<1>12. WalkingDown(n)'
  <2>1. byte' = Payload'[Beyond' - 1] /\ bit' \in 0 .. ByteBits
    BY <1>1, <1>4, <1>8, <1>9, <1>10
  <2>. QED
    BY <1>1, <1>6, <1>8, <1>9, <1>10, <1>11, <2>1 DEF WalkingDown
<1>13. Decoded(n)'
  BY <1>1, <1>3, <1>9 DEF Decoded
<1>14. n \in 0 .. symbolCount' /\ pc' = "read"
  BY <1>2, <1>3, <1>9
<1>. QED
  BY <1>1, <1>7, <1>9, <1>10, <1>12, <1>13, <1>14 DEF Decoding

(* What the steps of the inner loop start from.                              *)
LEMMA WalkingFacts ==
  ASSUME Parameters, Given, IsPrefixCode(code), numBytes = symbolCount, TreeOf(DOMAIN code),
         Decoding, Walking
  PROVE  /\ pc = "read" /\ Complete /\ cursor \in Nat /\ cursor <= bufSize /\ NoEmptyCode
         /\ \E n \in 0 .. symbolCount - 1 :
              /\ Decoded(n) /\ WalkingDown(n) /\ bit \in 0 .. ByteBits - 1
              /\ OnWay(Child, code[data[n]]) /\ Len(Child) = Len(p) + 1
              /\ tree[Child] # Table!NonLeaf => tree[Child] = data[n]
              /\ tree[Child] # Table!NonLeaf <=> Len(Child) = Len(code[data[n]])
<1>1. stage = "walk" /\ Missing > 0 /\ bit < ByteBits
  BY DEF Walking
<1>2. pc = "read" /\ Complete /\ cursor \in Nat /\ cursor <= bufSize
  BY DEF Decoding
<1>3. PICK n \in 0 .. symbolCount :
        Decoded(n) /\ (n < symbolCount => NoEmptyCode /\ WalkingDown(n))
  BY <1>1 DEF Decoding
<1>4. symbolCount \in Nat /\ ByteBits \in Nat \ {0}
  BY GivenFacts DEF Widths
<1>5. n \in 0 .. symbolCount - 1 /\ NoEmptyCode /\ WalkingDown(n)
  <2>1. n \in Nat /\ Cardinality(DOMAIN out) = n
    BY <1>3, <1>4, OutputSize
  <2>2. symbolCount - n > 0
    BY <1>1, <2>1 DEF Missing
  <2>. QED
    BY <1>3, <1>4, <2>1, <2>2
<1>6. OnWay(Child, code[data[n]]) /\ Child # << >> /\ Len(Child) = Len(p) + 1
  BY <1>1, <1>2, <1>5, ChildOnWay
<1>7. data[n] \in DOMAIN code
  BY <1>5 DEF Given
<1>8. bit \in 0 .. ByteBits - 1
  BY <1>1, <1>4, <1>5 DEF WalkingDown
<1>9. /\ tree[Child] # Table!NonLeaf => tree[Child] = data[n]
      /\ tree[Child] # Table!NonLeaf <=> Len(Child) = Len(code[data[n]])
  BY <1>6, <1>7, WayToLeaf
<1>. QED
  BY <1>2, <1>3, <1>5, <1>6, <1>8, <1>9

(* The walk goes one node down, ...                                          *)
LEMMA DescendKeeps ==
  ASSUME Parameters, Given, IsPrefixCode(code), numBytes = symbolCount, TreeOf(DOMAIN code),
         Decoding, Descend
  PROVE  Decoding' /\ stage' = "walk" /\ UNCHANGED out
<1>1. /\ Walking /\ tree[Child] = Table!NonLeaf /\ p' = Child /\ bit' = bit + 1
      /\ UNCHANGED <<input, buf, bufSize, cursor, header, stage, byte, out>>
  BY DEF Descend
<1>2. /\ stage = "walk" /\ pc = "read" /\ Complete /\ cursor \in Nat /\ cursor <= bufSize
      /\ NoEmptyCode
  BY <1>1, WalkingFacts DEF Walking
<1>3. PICK n \in 0 .. symbolCount - 1 :
        /\ Decoded(n) /\ WalkingDown(n) /\ bit \in 0 .. ByteBits - 1
        /\ OnWay(Child, code[data[n]]) /\ Len(Child) = Len(p) + 1
        /\ tree[Child] # Table!NonLeaf <=> Len(Child) = Len(code[data[n]])
  BY <1>1, WalkingFacts
<1>4. /\ OnWay(p, code[data[n]]) /\ Len(p) < Len(code[data[n]]) /\ HeaderEnd < cursor
      /\ (Beyond - 1) * ByteBits + bit = Walked(n) /\ byte = Payload[Beyond - 1]
  BY <1>3 DEF WalkingDown
<1>5. /\ Complete' /\ UNCHANGED <<data, code, symbolCount, pc>>
      /\ HeaderEnd' = HeaderEnd /\ Payload' = Payload /\ NoEmptyCode' = NoEmptyCode
      /\ \A x : BitsOf(x)' = BitsOf(x)
  BY <1>1, <1>2, DecodingFrame
<1>6. /\ ByteBits \in Nat \ {0} /\ HeaderEnd \in Nat /\ symbolCount \in Nat
      /\ Len(code[data[n]]) \in Nat /\ Len(p) \in Nat /\ BitsOf(n) \in Nat
  BY <1>3, <1>4, NextOnWay, GivenFacts, EntryStarts DEF Widths
<1>7. Len(Child) < Len(code[data[n]])
  BY <1>1, <1>3, <1>4, <1>6
<1>8. (Beyond - 1) * ByteBits + (bit + 1) = BitsOf(n) + Len(Child)
  <2>. DEFINE d == (Beyond - 1) * ByteBits
              c == Len(Child)
  <2>1. d \in Int
    <3>. DEFINE x == Beyond - 1
    <3>1. x \in Int
      BY <1>2, <1>6 DEF Beyond
    <3>. HIDE DEF x
    <3>2. x * ByteBits \in Int
      BY <1>6, <3>1, SMT
    <3>. QED
      BY <3>2 DEF x
  <2>2. d + bit = BitsOf(n) + Len(p) /\ c = Len(p) + 1
    BY <1>3, <1>4 DEF Walked
  <2>. HIDE DEF d, c
  <2>3. d + (bit + 1) = BitsOf(n) + c
    BY <1>3, <1>6, <2>1, <2>2
  <2>. QED
    BY <2>3 DEF d, c
<1>9. WalkingDown(n)'
  <2>1. Beyond' = Beyond
    BY <1>1, <1>5 DEF Beyond
  <2>2. Walked(n)' = BitsOf(n) + Len(Child)
    BY <1>1, <1>5 DEF Walked
  <2>3. (Beyond' - 1) * ByteBits + bit' = Walked(n)'
    BY <1>1, <1>8, <2>1, <2>2
  <2>4. bit' \in 0 .. ByteBits
    BY <1>1, <1>3, <1>6
  <2>5. OnWay(p', code'[data'[n]]) /\ Len(p') < Len(code'[data'[n]])
    BY <1>1, <1>3, <1>5, <1>7
  <2>. QED
    BY <1>1, <1>4, <1>5, <2>1, <2>3, <2>4, <2>5 DEF WalkingDown
<1>10. /\ Decoded(n)' /\ n \in 0 .. symbolCount' /\ pc' = "read" /\ stage' = "walk"
       /\ cursor' \in Nat /\ cursor' <= bufSize'
  BY <1>1, <1>2, <1>3, <1>5, <1>6 DEF Decoded
<1>. QED
  BY <1>1, <1>2, <1>5, <1>9, <1>10 DEF Decoding

(* ... or ends at the leaf of the next symbol, which goes to the output.     *)
LEMMA EmitSymbolKeeps ==
  ASSUME Parameters, Given, IsPrefixCode(code), numBytes = symbolCount, TreeOf(DOMAIN code),
         Decoding, EmitSymbol
  PROVE  Decoding' /\ stage' = "walk" /\ Copies
<1>1. /\ Walking /\ tree[Child] # Table!NonLeaf /\ p' = << >> /\ bit' = bit + 1
      /\ out' = [x \in 0 .. Cardinality(DOMAIN out) |->
                   IF x \in DOMAIN out THEN out[x] ELSE tree[Child]]
      /\ UNCHANGED <<input, buf, bufSize, cursor, header, stage, byte>>
  BY DEF EmitSymbol
<1>2. /\ stage = "walk" /\ pc = "read" /\ Complete /\ cursor \in Nat /\ cursor <= bufSize
      /\ NoEmptyCode
  BY <1>1, WalkingFacts DEF Walking
<1>3. PICK n \in 0 .. symbolCount - 1 :
        /\ Decoded(n) /\ WalkingDown(n) /\ bit \in 0 .. ByteBits - 1
        /\ OnWay(Child, code[data[n]]) /\ Len(Child) = Len(p) + 1
        /\ tree[Child] # Table!NonLeaf => tree[Child] = data[n]
        /\ tree[Child] # Table!NonLeaf <=> Len(Child) = Len(code[data[n]])
  BY <1>1, WalkingFacts
<1>4. /\ OnWay(p, code[data[n]]) /\ Len(p) < Len(code[data[n]]) /\ HeaderEnd < cursor
      /\ (Beyond - 1) * ByteBits + bit = Walked(n) /\ byte = Payload[Beyond - 1]
  BY <1>3 DEF WalkingDown
<1>5. /\ Complete' /\ UNCHANGED <<data, code, symbolCount, pc>>
      /\ HeaderEnd' = HeaderEnd /\ Payload' = Payload /\ NoEmptyCode' = NoEmptyCode
      /\ \A x : BitsOf(x)' = BitsOf(x)
  BY <1>1, <1>2, DecodingFrame
<1>6. /\ ByteBits \in Nat \ {0} /\ HeaderEnd \in Nat /\ symbolCount \in Nat /\ n \in Nat
      /\ Len(code[data[n]]) \in Nat /\ Len(p) \in Nat /\ BitsOf(n) \in Nat
      /\ BitsOf(n + 1) = BitsOf(n) + Len(code[data[n]])
  <2>1. /\ ByteBits \in Nat \ {0} /\ HeaderEnd \in Nat /\ symbolCount \in Nat /\ n \in Nat
    BY <1>3, GivenFacts, EntryStarts DEF Widths
  <2>2. /\ Len(code[data[n]]) \in Nat /\ Len(p) \in Nat /\ BitsOf(n) \in Nat
        /\ BitsOf(n + 1) = BitsOf(n) + Len(code[data[n]])
    BY <1>4, NextOnWay
  <2>. QED
    BY <2>1, <2>2
<1>7. Len(Child) = Len(code[data[n]]) /\ tree[Child] = data[n]
  BY <1>1, <1>3
<1>8. (Beyond - 1) * ByteBits + (bit + 1) = BitsOf(n + 1)
  <2>. DEFINE d == (Beyond - 1) * ByteBits
              c == Len(Child)
  <2>1. d \in Int
    <3>. DEFINE x == Beyond - 1
    <3>1. x \in Int
      BY <1>2, <1>6 DEF Beyond
    <3>. HIDE DEF x
    <3>2. x * ByteBits \in Int
      BY <1>6, <3>1, SMT
    <3>. QED
      BY <3>2 DEF x
  <2>2. d + bit = BitsOf(n) + Len(p) /\ c = Len(p) + 1 /\ BitsOf(n + 1) = BitsOf(n) + c
    BY <1>3, <1>4, <1>6, <1>7 DEF Walked
  <2>. HIDE DEF d, c
  <2>3. d + (bit + 1) = BitsOf(n) + c
    BY <1>3, <1>6, <2>1, <2>2
  <2>. QED
    BY <2>2, <2>3 DEF d
<1>9. DOMAIN out = 0 .. n - 1 /\ Cardinality(DOMAIN out) = n /\ \A x \in 0 .. n - 1 : out[x] = data[x]
  BY <1>3, <1>6, OutputSize
<1>10. out' = [x \in 0 .. n |-> data[x]]
  <2>1. out' = [x \in 0 .. n |-> IF x \in 0 .. n - 1 THEN out[x] ELSE data[n]]
    BY <1>1, <1>7, <1>9
  <2>2. \A x \in 0 .. n : (IF x \in 0 .. n - 1 THEN out[x] ELSE data[n]) = data[x]
    <3>1. \A x \in 0 .. n : x \notin 0 .. n - 1 => x = n
      BY <1>6
    <3>. QED
      BY <1>9, <3>1
  <2>. QED
    BY <2>1, <2>2
<1>11. Decoded(n + 1)'
  <2>1. (n + 1) - 1 = n
    BY <1>6
  <2>. QED
    BY <1>5, <1>10, <2>1 DEF Decoded
<1>12. Copies
  <2>1. n \in DOMAIN data /\ n \notin DOMAIN out /\ DOMAIN out \cup {n} = 0 .. n
    BY <1>3, <1>6, <1>9 DEF Given
  <2>. QED
    BY <1>10, <2>1 DEF Copies
<1>13. ASSUME n + 1 < symbolCount
       PROVE  WalkingDown(n + 1)'
  <2>1. n + 1 \in 0 .. symbolCount - 1
    BY <1>6, <1>13
  <2>2. code[data[n + 1]] \in Seq({0, 1}) /\ code[data[n + 1]] # << >>
    BY <1>2, <2>1, GivenFacts DEF NoEmptyCode, Given
  <2>3. OnWay(<< >>, code[data[n + 1]]) /\ Len(<< >>) < Len(code[data[n + 1]])
    <3>. DEFINE e == code[data[n + 1]]
    <3>1. e \in Seq({0, 1}) /\ e # << >>
      BY <2>2
    <3>. HIDE DEF e
    <3>2. Len(e) \in Nat /\ Len(e) # 0 /\ Len(<< >>) = 0 /\ << >> \in Seq({0, 1})
      BY <3>1, EmptySeq, LenProperties
    <3>3. OnWay(<< >>, e) /\ Len(<< >>) < Len(e)
      BY <3>2 DEF OnWay
    <3>. QED
      BY <3>3 DEF e
  <2>4. Beyond' = Beyond
    BY <1>1, <1>5 DEF Beyond
  <2>5. Walked(n + 1)' = BitsOf(n + 1)
    <3>1. Walked(n + 1)' = BitsOf(n + 1) + Len(<< >>)
      BY <1>1, <1>5 DEF Walked
    <3>2. Len(<< >>) = 0 /\ BitsOf(n + 1) \in Nat
      BY <1>6
    <3>. QED
      BY <3>1, <3>2
  <2>6. (Beyond' - 1) * ByteBits + bit' = Walked(n + 1)'
    BY <1>1, <1>8, <2>4, <2>5
  <2>7. bit' \in 0 .. ByteBits
    BY <1>1, <1>3, <1>6
  <2>. QED
    BY <1>1, <1>4, <1>5, <2>3, <2>4, <2>6, <2>7 DEF WalkingDown
<1>14. /\ n + 1 \in 0 .. symbolCount' /\ pc' = "read" /\ stage' = "walk"
       /\ cursor' \in Nat /\ cursor' <= bufSize'
  BY <1>1, <1>2, <1>3, <1>5, <1>6
<1>15. Decoding'
  <2>. DEFINE j == n + 1
  <2>1. j \in 0 .. symbolCount' /\ Decoded(j)' /\ (j < symbolCount' => WalkingDown(j)')
    BY <1>5, <1>11, <1>13, <1>14
  <2>. HIDE DEF j
  <2>. QED
    BY <1>2, <1>5, <1>14, <2>1 DEF Decoding
<1>. QED
  BY <1>12, <1>14, <1>15

(* When the byte is used up, the walk waits for the next one.                *)
LEMMA EndOfByteKeeps ==
  ASSUME Parameters, Given, numBytes = symbolCount, Decoding, EndOfByte
  PROVE  Decoding' /\ stage' = "fetch" /\ UNCHANGED out
<1>1. /\ stage = "walk" /\ ~ Walking /\ stage' = "fetch"
      /\ UNCHANGED <<input, buf, bufSize, cursor, header, bit, p, out>>
  BY DEF EndOfByte, coding
<1>2. pc = "read" /\ Complete /\ cursor \in Nat /\ cursor <= bufSize
  BY DEF Decoding
<1>3. PICK n \in 0 .. symbolCount :
        Decoded(n) /\ (n < symbolCount => NoEmptyCode /\ WalkingDown(n))
  BY <1>1 DEF Decoding
<1>4. /\ Complete' /\ UNCHANGED <<data, code, symbolCount, pc>> /\ HeaderEnd' = HeaderEnd
      /\ \A x : BitsOf(x)' = BitsOf(x)
  BY <1>1, <1>2, DecodingFrame
<1>5. ByteBits \in Nat \ {0} /\ HeaderEnd \in Nat /\ symbolCount \in Nat /\ n \in Nat
  BY <1>3, GivenFacts, EntryStarts DEF Widths
<1>6. ASSUME n < symbolCount
      PROVE  Fetching(n)'
  <2>1. WalkingDown(n)
    BY <1>3, <1>6
  <2>2. /\ OnWay(p, code[data[n]]) /\ Len(p) < Len(code[data[n]]) /\ HeaderEnd < cursor
        /\ bit \in 0 .. ByteBits /\ (Beyond - 1) * ByteBits + bit = Walked(n)
    BY <2>1 DEF WalkingDown
  <2>3. bit = ByteBits
    <3>1. Cardinality(DOMAIN out) = n
      BY <1>3, <1>5, OutputSize
    <3>2. Missing > 0
      BY <1>5, <1>6, <3>1 DEF Missing
    <3>. QED
      BY <1>1, <1>5, <2>2, <3>2 DEF Walking
  <2>4. Beyond * ByteBits = Walked(n)
    <3>. DEFINE x == Beyond - 1
    <3>1. x \in Int /\ Beyond = x + 1
      BY <1>2, <1>5 DEF Beyond
    <3>2. x * ByteBits + ByteBits = Walked(n)
      BY <2>2, <2>3
    <3>. HIDE DEF x
    <3>3. (x + 1) * ByteBits = x * ByteBits + ByteBits
      BY <1>5, <3>1, SMT
    <3>. QED
      BY <3>1, <3>2, <3>3
  <2>5. Beyond' = Beyond /\ Walked(n)' = Walked(n)
    BY <1>1, <1>4 DEF Beyond, Walked
  <2>6. HeaderEnd' <= cursor'
    BY <1>1, <1>2, <1>4, <1>5, <2>2
  <2>. QED
    BY <1>1, <1>4, <2>2, <2>4, <2>5, <2>6 DEF Fetching
<1>7. /\ Decoded(n)' /\ n \in 0 .. symbolCount' /\ pc' = "read"
      /\ cursor' \in Nat /\ cursor' <= bufSize'
  BY <1>1, <1>2, <1>3, <1>4 DEF Decoded
<1>. QED
  BY <1>1, <1>4, <1>6, <1>7 DEF Decoding

(* The decoder stops when the whole file is in the output.                   *)
LEMMA EndOfDecodingKeeps ==
  ASSUME Parameters, Given, numBytes = symbolCount, Decoding, EndOfDecoding
  PROVE  Decoding' /\ stage' = "done" /\ UNCHANGED out
<1>1. /\ stage = "fetch" /\ Missing = 0 /\ stage' = "done"
      /\ UNCHANGED <<input, buf, bufSize, cursor, header, out>>
  BY DEF EndOfDecoding
<1>2. pc = "read" /\ Complete /\ cursor \in Nat /\ cursor <= bufSize
  BY DEF Decoding
<1>3. PICK n \in 0 .. symbolCount : Decoded(n)
  BY DEF Decoding
<1>4. Complete' /\ UNCHANGED <<data, code, symbolCount, pc>>
  BY <1>1, <1>2, DecodingFrame
<1>5. n \in Nat /\ symbolCount \in Nat
  BY <1>3, GivenFacts
<1>6. n = symbolCount
  <2>1. Cardinality(DOMAIN out) = n
    BY <1>3, <1>5, OutputSize
  <2>. QED
    BY <1>1, <1>5, <2>1 DEF Missing
<1>7. /\ Decoded(n)' /\ n \in 0 .. symbolCount' /\ ~ (n < symbolCount') /\ pc' = "read"
      /\ cursor' \in Nat /\ cursor' <= bufSize'
  BY <1>1, <1>2, <1>3, <1>4, <1>5, <1>6 DEF Decoded
<1>. QED
  BY <1>1, <1>4, <1>7 DEF Decoding

-------------------------------------------------------------------------------
(* The assertions of data_buf. *)

(* An encoder that is not behind the last bit is not behind the last byte,   *)
(* and if bits are left to be written, there is a byte for them.             *)
LEMMA BytesReached ==
  ASSUME NEW w \in Nat \ {0}, NEW d \in Nat, NEW c \in 0 .. w - 1, NEW n \in Nat, d * w + c <= n
  PROVE  d <= UPDIV(n, w) /\ (d * w < n => d < UPDIV(n, w))
<1>1. UPDIV(n, w) \in Nat
  BY UPDIVRoundsUp
<1>. DEFINE e == d * w
<1>2. e \in Nat
  BY SMT
<1>3. CASE e < n
  <2>1. d * w + 0 < n
    BY <1>2, <1>3
  <2>2. d < UPDIV(n, w)
    BY <2>1, BitHasByte
  <2>. QED
    BY <1>1, <2>2
<1>4. CASE ~ (e < n)
  <2>1. e = n
    BY <1>2, <1>4
  <2>2. w * d + 0 = n /\ 0 \in 0 .. w - 1
    <3>1. w * d = e
      BY SMT
    <3>. HIDE DEF e
    <3>. QED
      BY <1>2, <2>1, <3>1
  <2>3. UPDIV(n, w) = d
    BY <2>2, RoundUp
  <2>. QED
    BY <1>4, <2>3
<1>. QED
  BY <1>3, <1>4

(* The writer of the header stays inside of it.                              *)
LEMMA WriteHeaderFits ==
  ASSUME Parameters, Given, bufSize = HeaderEnd + PayloadSize, stage = "header", WritingHeader
  PROVE  Table!Fits(AccessWidth)
<1>1. /\ CountBytes \in Nat /\ SizeBytes \in Nat /\ MaxSymbols \in Nat /\ HeaderEnd \in Nat
      /\ PayloadSize \in Nat /\ bufSize \in Nat /\ HeaderEnd <= bufSize
      /\ CountBytes + SizeBytes <= HeaderEnd
      /\ \A s \in DOMAIN code : s \in Nat /\ s < MaxSymbols
  <2>1. /\ CountBytes \in Nat /\ SizeBytes \in Nat /\ MaxSymbols \in Nat /\ HeaderEnd \in Nat
        /\ PayloadSize \in Nat /\ DOMAIN code \subseteq 0 .. MaxSymbols - 1
    BY GivenFacts, EntryStarts DEF Widths
  <2>2. CountBytes + SizeBytes <= HeaderEnd
    BY <2>1, EntryStarts, BeforeSteps
  <2>. QED
    BY <2>1, <2>2
<1>2. AccessWidth = Table!AccessWidth
  BY DEF AccessWidth
<1>3. CASE pc = "writeCount" /\ cursor = 0
  <2>1. AccessWidth = CountBytes
    BY <1>2, <1>3 DEF Table!AccessWidth
  <2>. QED
    BY <1>1, <1>3, <2>1 DEF Table!Fits
<1>4. CASE pc = "writeSize" /\ cursor = CountBytes
  <2>1. AccessWidth = SizeBytes
    BY <1>2, <1>4 DEF Table!AccessWidth
  <2>. QED
    BY <1>1, <1>4, <2>1 DEF Table!Fits
<1>5. CASE pc = "writeEntries" /\ i \in 0 .. MaxSymbols /\ cursor = EntryStart(i)
  <2>1. i \in Nat /\ EntryStart(i) \in Nat /\ EntryStart(i) <= HeaderEnd
    BY <1>1, <1>5, EntryStarts, StartsAscend, BeforeSteps
  <2>2. CASE i \in DOMAIN code
    <3>1. AccessWidth = Len(Table!Entry(i))
      BY <1>2, <1>5, <2>2 DEF Table!AccessWidth
    <3>2. AccessWidth = EntrySize(i) /\ EntrySize(i) \in Nat
      BY <2>2, <3>1, EntryParts, GivenFacts
    <3>3. EntryStart(i) + EntrySize(i) <= EntryStart(MaxSymbols)
      BY <1>1, <2>2, EntriesAscend
    <3>4. EntryStart(i) + EntrySize(i) <= HeaderEnd
      BY <3>3, BeforeSteps
    <3>. QED
      BY <1>1, <1>5, <2>1, <3>2, <3>4 DEF Table!Fits
  <2>3. CASE i \notin DOMAIN code
    <3>1. AccessWidth = 0
      BY <1>2, <1>5, <2>3 DEF Table!AccessWidth
    <3>. QED
      BY <1>1, <1>5, <2>1, <3>1 DEF Table!Fits
  <2>. QED
    BY <2>2, <2>3
<1>. QED
  BY <1>3, <1>4, <1>5 DEF WritingHeader

(* ... and so does the reader, who takes the lengths from what he reads.     *)
LEMMA ReadHeaderFits ==
  ASSUME Parameters, Given, bufSize = HeaderEnd + PayloadSize, stage = "reread", ReadingHeader
  PROVE  Table!Fits(AccessWidth)
<1>1. /\ CountBytes \in Nat /\ SizeBytes \in Nat /\ MaxSymbols \in Nat /\ HeaderEnd \in Nat
      /\ PayloadSize \in Nat /\ bufSize \in Nat /\ HeaderEnd <= bufSize
      /\ CountBytes + SizeBytes <= HeaderEnd
      /\ \A s \in DOMAIN code : s \in Nat /\ s < MaxSymbols
  <2>1. /\ CountBytes \in Nat /\ SizeBytes \in Nat /\ MaxSymbols \in Nat /\ HeaderEnd \in Nat
        /\ PayloadSize \in Nat /\ DOMAIN code \subseteq 0 .. MaxSymbols - 1
    BY GivenFacts, EntryStarts DEF Widths
  <2>2. CountBytes + SizeBytes <= HeaderEnd
    BY <2>1, EntryStarts, BeforeSteps
  <2>. QED
    BY <2>1, <2>2
<1>2. AccessWidth = Table!AccessWidth
  BY DEF AccessWidth
<1>3. CASE pc = "readCount" /\ cursor = 0
  <2>1. AccessWidth = CountBytes
    BY <1>2, <1>3 DEF Table!AccessWidth
  <2>. QED
    BY <1>1, <1>3, <2>1 DEF Table!Fits
<1>4. CASE pc = "readSize" /\ cursor = CountBytes
  <2>1. AccessWidth = SizeBytes
    BY <1>2, <1>4 DEF Table!AccessWidth
  <2>. QED
    BY <1>1, <1>4, <2>1 DEF Table!Fits
<1>5. ASSUME pc = "readEntries", NEW n \in 0 .. MaxSymbols, cursor = EntryStart(n),
             left = Cardinality(DOMAIN code \ Before(n))
      PROVE  Table!Fits(AccessWidth)
  <2>1. n \in Nat /\ cursor \in Nat /\ cursor <= HeaderEnd
    BY <1>1, <1>5, EntryStarts, StartsAscend, BeforeSteps
  <2>2. CASE left > 0
    <3>1. Cardinality(DOMAIN code \ Before(n)) # 0
      BY <1>5, <2>2
    <3>2. PICK s \in DOMAIN code : EntryStart(s) = EntryStart(n)
      BY <2>1, <3>1, NextEntry
    <3>3. Stored(Table!Entry(s), cursor) /\ cursor = EntryStart(s)
      BY <1>5, <3>2, BeforeSteps DEF ReadingHeader, Complete, HeaderThere
    <3>4. 2 + Table!NumBytesOf(Table!CodeLength) = EntrySize(s)
      BY <2>1, <3>3, StoredEntry
    <3>5. EntrySize(s) \in Nat /\ 2 <= EntrySize(s)
      BY GivenFacts DEF EntrySize
    <3>6. EntryStart(s) + EntrySize(s) <= HeaderEnd
      <4>1. EntryStart(s) + EntrySize(s) <= EntryStart(MaxSymbols)
        BY <1>1, EntriesAscend
      <4>. QED
        BY <4>1, BeforeSteps
    <3>7. Table!Fits(2)
      BY <1>1, <2>1, <3>3, <3>5, <3>6 DEF Table!Fits
    <3>8. AccessWidth = EntrySize(s)
      BY <1>2, <1>5, <2>2, <3>4, <3>7 DEF Table!AccessWidth
    <3>. QED
      BY <1>1, <2>1, <3>3, <3>5, <3>6, <3>8 DEF Table!Fits
  <2>3. CASE ~ (left > 0)
    <3>1. AccessWidth = 0
      BY <1>2, <1>5, <2>3 DEF Table!AccessWidth
    <3>. QED
      BY <1>1, <2>1, <3>1 DEF Table!Fits
  <2>. QED
    BY <2>2, <2>3
<1>. QED
  BY <1>3, <1>4, <1>5 DEF ReadingHeader

(* do_encode writes as many bytes as were measured.                          *)
LEMMA EncodingFits ==
  ASSUME Parameters, Given, bufSize = HeaderEnd + PayloadSize, stage = "encode", Encoding
  PROVE  Table!Fits(AccessWidth)
<1>1. /\ cursor \in Nat /\ HeaderEnd <= cursor /\ k \in 0 .. symbolCount /\ b \in Nat
      /\ bit \in 0 .. ByteBits - 1
      /\ IF HasSymbol THEN b <= Len(CodeHere) ELSE b = 0
      /\ Beyond * ByteBits + bit = BitsOf(k) + b
  BY DEF Encoding
<1>2. /\ symbolCount \in Nat /\ ByteBits \in Nat \ {0} /\ HeaderEnd \in Nat
      /\ Len(Whole) \in Nat /\ PayloadSize \in Nat
  BY GivenFacts, EntryStarts DEF Widths
<1>. DEFINE d == Beyond
            e == d * ByteBits
            n == Len(Whole)
<1>3. d \in Nat /\ e \in Nat /\ bit \in Nat /\ BitsOf(k) \in Nat
  BY EncodingBits
<1>4. e + bit <= n
  <2>1. CASE HasSymbol
    <3>1. k \in 0 .. symbolCount - 1 /\ k + 1 \in 0 .. symbolCount
      BY <1>1, <1>2, <2>1 DEF HasSymbol
    <3>2. BitsOf(k + 1) = BitsOf(k) + Len(CodeHere) /\ BitsOf(k + 1) <= n
      BY <3>1, NextBits DEF CodeHere
    <3>3. b <= Len(CodeHere) /\ Len(CodeHere) \in Nat
      <4>1. data[k] \in DOMAIN code
        BY <3>1 DEF Given
      <4>2. Len(CodeHere) \in Nat
        BY <4>1, GivenFacts DEF CodeHere
      <4>. QED
        BY <1>1, <2>1, <4>2
    <3>4. e + bit = BitsOf(k) + b
      BY <1>1
    <3>. HIDE DEF e, n
    <3>. QED
      BY <1>1, <1>2, <1>3, <3>2, <3>3, <3>4 DEF n
  <2>2. CASE ~ HasSymbol
    <3>1. e + bit = n
      BY <2>2, EncodingBits
    <3>. HIDE DEF e, n
    <3>. QED
      BY <1>2, <3>1 DEF n
  <2>. QED
    BY <2>1, <2>2
<1>5. d <= PayloadSize /\ (e < n => d < PayloadSize)
  <2>1. /\ d \in Nat /\ n \in Nat /\ bit \in 0 .. ByteBits - 1 /\ ByteBits \in Nat \ {0}
        /\ d * ByteBits + bit <= n
    BY <1>1, <1>2, <1>3, <1>4
  <2>. HIDE DEF d, n
  <2>2. d <= UPDIV(n, ByteBits) /\ (d * ByteBits < n => d < UPDIV(n, ByteBits))
    BY <2>1, BytesReached
  <2>. QED
    BY <2>2 DEF PayloadSize, n
<1>6. (HasBit \/ (~ HasSymbol /\ bit > 0)) => e < n
  <2>1. HasBit => e + bit < n
    BY EncodingBits
  <2>. HIDE DEF e, n
  <2>2. HasBit => e < n
    BY <1>2, <1>3, <2>1 DEF n
  <2>3. bit > 0 => e < n
    BY <1>2, <1>3, <1>4 DEF n
  <2>. QED
    BY <2>2, <2>3
<1>7. \/ AccessWidth = 0
      \/ AccessWidth = 1 /\ (HasBit \/ (~ HasSymbol /\ bit > 0))
  BY DEF AccessWidth
<1>8. cursor = HeaderEnd + d
  BY <1>1, <1>2 DEF Beyond
<1>. HIDE DEF d, e, n
<1>. QED
  BY <1>1, <1>2, <1>3, <1>5, <1>6, <1>7, <1>8 DEF Table!Fits

(* An assertion fails for a file without a code bit only: its decoder waits  *)
(* for symbols that no byte stands for.                                      *)
LEMMA AccessFits ==
  ASSUME Parameters, SeqInv, NoEmptyCode, stage # "aborted"
  PROVE  Table!Fits(AccessWidth)
<1>1. /\ Given
      /\ stage \in {"measure", "header", "encode", "encoded", "reread", "fetch", "walk",
                    "done", "aborted"}
      /\ stage # "measure" => bufSize = HeaderEnd + PayloadSize
      /\ stage = "measure" => Measuring
      /\ stage = "header" => WritingHeader
      /\ stage = "encode" => Encoding
      /\ stage = "encoded" => Encoded
      /\ stage = "reread" => ReadingHeader
      /\ pc = "read" => numBytes = symbolCount /\ TreeOf(DOMAIN code)
      /\ stage \in {"fetch", "walk", "done"} => Decoding
  BY DEF SeqInv
<1>2. HeaderEnd \in Nat /\ PayloadSize \in Nat /\ symbolCount \in Nat
  BY <1>1, GivenFacts, EntryStarts
<1>3. CASE stage = "measure"
  <2>1. AccessWidth = 0 /\ cursor = 0 /\ bufSize = 0
    BY <1>1, <1>3 DEF AccessWidth, Measuring
  <2>. QED
    BY <2>1 DEF Table!Fits
<1>4. CASE stage = "encoded"
  <2>1. AccessWidth = 0 /\ cursor = bufSize /\ bufSize = HeaderEnd + PayloadSize
    BY <1>1, <1>4 DEF AccessWidth, Encoded
  <2>. QED
    BY <1>2, <2>1 DEF Table!Fits
<1>5. CASE stage \in {"walk", "done"}
  <2>1. AccessWidth = 0 /\ cursor \in Nat /\ cursor <= bufSize
    BY <1>1, <1>5 DEF AccessWidth, Decoding
  <2>. QED
    BY <2>1 DEF Table!Fits
<1>6. CASE stage = "fetch"
  <2>1. /\ Decoding /\ pc = "read" /\ Complete /\ cursor \in Nat /\ cursor <= bufSize
        /\ bufSize = HeaderEnd + PayloadSize
    BY <1>1, <1>6 DEF Decoding
  <2>2. numBytes = symbolCount
    BY <1>1, <2>1
  <2>3. PICK n \in 0 .. symbolCount : Decoded(n) /\ (n < symbolCount => Fetching(n))
    BY <1>6, <2>1 DEF Decoding
  <2>4. CASE Missing > 0
    <3>1. AccessWidth = 1
      BY <1>6, <2>4 DEF AccessWidth
    <3>2. n \in 0 .. symbolCount - 1 /\ Fetching(n)
      <4>1. n \in Nat /\ Cardinality(DOMAIN out) = n
        BY <1>2, <2>3, OutputSize
      <4>2. symbolCount - n > 0
        BY <2>2, <2>4, <4>1 DEF Missing
      <4>. QED
        BY <1>2, <2>3, <4>1, <4>2
    <3>3. Beyond \in 0 .. PayloadSize - 1
      BY <1>1, <2>1, <3>2, NextByteThere
    <3>. QED
      BY <1>2, <2>1, <3>1, <3>3 DEF Table!Fits, Beyond
  <2>5. CASE ~ (Missing > 0)
    <3>1. AccessWidth = 0
      BY <1>6, <2>5 DEF AccessWidth
    <3>. QED
      BY <2>1, <3>1 DEF Table!Fits
  <2>. QED
    BY <2>4, <2>5
<1>7. CASE stage = "header"
  BY <1>1, <1>7, WriteHeaderFits
<1>8. CASE stage = "encode"
  BY <1>1, <1>8, EncodingFits
<1>9. CASE stage = "reread"
  BY <1>1, <1>9, ReadHeaderFits
<1>. QED
  BY <1>1, <1>3, <1>4, <1>5, <1>6, <1>7, <1>8, <1>9

-------------------------------------------------------------------------------
(* The invariant holds at first, ...                                         *)
LEMMA SeqInit ==
  ASSUME Parameters
  PROVE  Init => SeqInv
<1>. SUFFICES ASSUME Init PROVE SeqInv
  OBVIOUS
<1>1. /\ code \in Codes /\ symbolCount \in Sizes /\ data \in [0 .. symbolCount - 1 -> DOMAIN code]
      /\ buf = << >> /\ cursor = 0 /\ pc = "writeCount" /\ i = 0 /\ bufSize = 0
      /\ stage = "measure" /\ k = 0 /\ res = HeaderEnd /\ cnt = 0 /\ b = 0 /\ byte = {} /\ bit = 0
      /\ p = << >> /\ out = << >>
  BY DEF Init, Table!HeaderInit, HeaderEnd
<1>2. Given
  BY <1>1 DEF Given
<1>3. /\ symbolCount \in Nat /\ ByteBits \in Nat \ {0} /\ HeaderEnd \in Nat
  BY <1>2, GivenFacts, EntryStarts DEF Widths
<1>4. BitsOf(0) = 0
  BY <1>2, NextBits
<1>5. (res - HeaderEnd) * ByteBits + cnt = BitsOf(k)
  <2>1. res - HeaderEnd = 0 /\ 0 * ByteBits + 0 = 0
    BY <1>1, <1>3
  <2>. QED
    BY <1>1, <1>4, <2>1
<1>6. Measuring
  <2>1. k \in 0 .. symbolCount /\ res \in Nat /\ HeaderEnd <= res /\ cnt \in 0 .. ByteBits - 1
    BY <1>1, <1>3
  <2>. QED
    BY <1>1, <1>5, <2>1 DEF Measuring, Fresh
<1>. QED
  BY <1>1, <1>2, <1>6 DEF SeqInv

(* What a step of a stage leaves alone.                                      *)
LEMMA SeqFrame ==
  ASSUME Encode \/ Rewind \/ Decode
  PROVE  /\ UNCHANGED <<data, code, symbolCount>>
         /\ stage # "measure" => UNCHANGED bufSize
         /\ stage \notin {"fetch", "walk"} => UNCHANGED <<p, out>>
<1>1. CASE Encode
  BY <1>1 DEF Encode, MeasureByte, Allocate, WriteHeader, AddBit, FillByte, NextSymbol, Flush,
              Table!WriteStep, Table!WriteCount, Table!WriteSize, Table!WriteEntry,
              Table!EndOfWriting, Table!given, input, coding
<1>2. CASE Rewind
  BY <1>2 DEF Rewind, Table!Rewind, Table!given, coding
<1>3. CASE Decode
  BY <1>3 DEF Decode, ReadHeader, FetchByte, Descend, EmitSymbol, EndOfByte, EndOfDecoding, Walking,
              Table!ReadStep, Table!ReadCount, Table!ReadSize, Table!ReadEntry,
              Table!EndOfReading, Table!given, input, coding
<1>. QED
  BY <1>1, <1>2, <1>3

(* ... a step of the encoder keeps it, ...                                   *)
LEMMA EncodeKeeps ==
  ASSUME Parameters, SeqInv, Encode
  PROVE  SeqInv' /\ UNCHANGED out
<1>1. /\ Given
      /\ stage # "measure" /\ stage # "aborted" => bufSize = HeaderEnd + PayloadSize
      /\ stage \in {"measure", "header", "encode", "encoded", "reread"} => p = << >> /\ out = << >>
      /\ stage = "measure" => Measuring
      /\ stage = "header" => WritingHeader
      /\ stage = "encode" => Encoding
  BY DEF SeqInv
<1>2. UNCHANGED <<data, code, symbolCount>> /\ UNCHANGED input
  BY SeqFrame DEF input
<1>3. Given' /\ HeaderEnd' = HeaderEnd /\ PayloadSize' = PayloadSize
  BY <1>1, <1>2, SameInput
<1>4. stage \in {"measure", "header", "encode"}
  BY DEF Encode, MeasureByte, Allocate, WriteHeader, AddBit, FillByte, NextSymbol, Flush
<1>5. p' = << >> /\ out' = << >> /\ UNCHANGED out /\ (stage # "measure" => bufSize' = bufSize)
  BY <1>1, <1>4, SeqFrame
<1>6. CASE MeasureByte
  <2>1. stage = "measure" /\ stage' = "measure"
    BY <1>6 DEF MeasureByte
  <2>2. Measuring'
    BY <1>1, <1>6, <2>1, MeasureByteKeeps
  <2>3. pc' # "read"
    BY <2>2 DEF Measuring
  <2>. QED
    BY <1>3, <1>5, <2>1, <2>2, <2>3 DEF SeqInv
<1>7. CASE Allocate
  <2>1. stage = "measure" /\ stage' = "header"
    BY <1>7 DEF Allocate
  <2>2. WritingHeader' /\ bufSize' = HeaderEnd + PayloadSize
    BY <1>1, <1>7, <2>1, AllocateKeeps
  <2>3. pc' # "read"
    BY <2>2 DEF WritingHeader
  <2>. QED
    BY <1>3, <1>5, <2>1, <2>2, <2>3 DEF SeqInv
<1>8. CASE WriteHeader
  <2>1. stage = "header"
    BY <1>8 DEF WriteHeader
  <2>2. \/ stage' = "header" /\ WritingHeader'
        \/ stage' = "encode" /\ Encoding'
    BY <1>1, <1>8, <2>1, WriteHeaderKeeps
  <2>3. pc' # "read"
    BY <2>2 DEF WritingHeader, Encoding
  <2>. QED
    BY <1>1, <1>3, <1>5, <2>1, <2>2, <2>3 DEF SeqInv
<1>9. CASE AddBit \/ FillByte \/ NextSymbol
  <2>1. stage = "encode" /\ stage' = "encode"
    BY <1>9 DEF AddBit, FillByte, NextSymbol
  <2>2. Encoding'
    BY <1>1, <1>9, <2>1, AddBitKeeps, FillByteKeeps, NextSymbolKeeps
  <2>3. pc' # "read"
    BY <2>2 DEF Encoding
  <2>. QED
    BY <1>1, <1>3, <1>5, <2>1, <2>2, <2>3 DEF SeqInv
<1>10. CASE Flush
  <2>1. stage = "encode" /\ stage' = "encoded"
    BY <1>10 DEF Flush
  <2>2. Encoded'
    BY <1>1, <1>10, <2>1, FlushKeeps
  <2>3. pc' # "read"
    BY <2>2 DEF Encoded
  <2>. QED
    BY <1>1, <1>3, <1>5, <2>1, <2>2, <2>3 DEF SeqInv
<1>. QED
  BY <1>6, <1>7, <1>8, <1>9, <1>10 DEF Encode

(* ... so does the rewinding of the buffer, ...                              *)
LEMMA RewindKeepsAll ==
  ASSUME Parameters, SeqInv, Rewind
  PROVE  SeqInv' /\ UNCHANGED out
<1>1. stage = "encoded" /\ stage' = "reread" /\ pc' = "readCount"
  BY DEF Rewind, Table!Rewind
<1>2. Given /\ bufSize = HeaderEnd + PayloadSize /\ p = << >> /\ out = << >> /\ Encoded
  BY <1>1 DEF SeqInv
<1>3. UNCHANGED <<data, code, symbolCount, bufSize, p, out>> /\ UNCHANGED input
  BY <1>1, SeqFrame DEF input
<1>4. Given' /\ HeaderEnd' = HeaderEnd /\ PayloadSize' = PayloadSize
  BY <1>2, <1>3, SameInput
<1>5. ReadingHeader'
  BY <1>2, RewindKeeps
<1>. QED
  BY <1>1, <1>2, <1>3, <1>4, <1>5 DEF SeqInv

(* ... and a step of the decoder, which copies at most one byte.             *)
LEMMA DecodeKeeps ==
  ASSUME Parameters, IsPrefixCode(code), SeqInv, Decode
  PROVE  SeqInv' /\ Copies
<1>1. /\ Given
      /\ stage # "measure" /\ stage # "aborted" => bufSize = HeaderEnd + PayloadSize
      /\ stage = "reread" => ReadingHeader /\ p = << >> /\ out = << >>
      /\ pc = "read" => numBytes = symbolCount /\ TreeOf(DOMAIN code)
      /\ stage \in {"fetch", "walk", "done"} => Decoding
  BY DEF SeqInv
<1>2. UNCHANGED <<data, code, symbolCount>> /\ UNCHANGED input
  BY SeqFrame DEF input
<1>3. Given' /\ HeaderEnd' = HeaderEnd /\ PayloadSize' = PayloadSize
  BY <1>1, <1>2, SameInput
<1>4. stage \in {"reread", "fetch", "walk"}
  BY DEF Decode, ReadHeader, FetchByte, Descend, EmitSymbol, EndOfByte, EndOfDecoding, Walking
<1>5. bufSize = HeaderEnd + PayloadSize /\ bufSize' = HeaderEnd' + PayloadSize'
  BY <1>1, <1>3, <1>4, SeqFrame
<1>6. CASE ReadHeader
  <2>1. stage = "reread"
    BY <1>6 DEF ReadHeader
  <2>2. ReadingHeader /\ p = << >> /\ out = << >>
    BY <1>1, <2>1
  <2>3. UNCHANGED <<p, out>>
    BY <2>1, SeqFrame
  <2>4. \/ stage' = "reread" /\ pc' # "read" /\ ReadingHeader'
        \/ /\ stage' = "fetch" /\ pc' = "read" /\ Decoding'
           /\ numBytes' = symbolCount' /\ TreeOf(DOMAIN code)'
    BY <1>1, <1>5, <1>6, <2>2, ReadHeaderKeeps
  <2>. QED
    BY <1>3, <1>5, <2>2, <2>3, <2>4 DEF SeqInv, Copies
<1>7. CASE FetchByte \/ Descend \/ EmitSymbol \/ EndOfByte \/ EndOfDecoding
  <2>1. stage \in {"fetch", "walk"} /\ UNCHANGED <<buf, bufSize, header>>
    BY <1>7 DEF FetchByte, Descend, EmitSymbol, EndOfByte, EndOfDecoding, Walking
  <2>2. Decoding /\ pc = "read" /\ Complete
    BY <1>1, <2>1 DEF Decoding
  <2>3. numBytes = symbolCount /\ TreeOf(DOMAIN code)
    BY <1>1, <2>2
  <2>4. Decoding' /\ stage' \in {"fetch", "walk", "done"} /\ Copies
    <3>1. CASE FetchByte
      BY <1>1, <1>5, <2>2, <2>3, <3>1, FetchByteKeeps DEF Copies
    <3>2. CASE Descend
      BY <1>1, <2>2, <2>3, <3>2, DescendKeeps DEF Copies
    <3>3. CASE EmitSymbol
      BY <1>1, <2>2, <2>3, <3>3, EmitSymbolKeeps
    <3>4. CASE EndOfByte
      BY <1>1, <2>2, <2>3, <3>4, EndOfByteKeeps DEF Copies
    <3>5. CASE EndOfDecoding
      BY <1>1, <2>2, <2>3, <3>5, EndOfDecodingKeeps DEF Copies
    <3>. QED
      BY <1>7, <3>1, <3>2, <3>3, <3>4, <3>5
  <2>5. numBytes' = symbolCount' /\ TreeOf(DOMAIN code)'
    BY <1>1, <1>2, <2>1, <2>2, <2>3, DecodingFrame
  <2>. QED
    BY <1>3, <1>5, <2>4, <2>5 DEF SeqInv
<1>. QED
  BY <1>6, <1>7 DEF Decode

(* An assertion only fails where no code has a bit.                          *)
LEMMA AbortKeeps ==
  ASSUME Parameters, SeqInv, Abort
  PROVE  SeqInv' /\ UNCHANGED out
<1>1. /\ ~ Table!Fits(AccessWidth) /\ stage' = "aborted"
      /\ UNCHANGED <<input, bufSize, header, coding, out>>
  BY DEF Abort
<1>2. Given /\ (pc = "read" => numBytes = symbolCount /\ TreeOf(DOMAIN code))
  BY DEF SeqInv
<1>3. UNCHANGED <<data, code, symbolCount, pc, numBytes, tree, p, out>>
  BY <1>1 DEF input, header, coding
<1>4. Given' /\ NoEmptyCode' = NoEmptyCode
  BY <1>1, <1>2, SameInput
<1>5. TreeOf(DOMAIN code)' = TreeOf(DOMAIN code)
  BY <1>3 DEF TreeOf
<1>6. ~ NoEmptyCode
  <2>1. CASE stage = "aborted"
    BY <2>1 DEF SeqInv
  <2>2. CASE stage # "aborted"
    BY <1>1, <2>2, AccessFits
  <2>. QED
    BY <2>1, <2>2
<1>. QED
  BY <1>1, <1>2, <1>3, <1>4, <1>5, <1>6 DEF SeqInv

(* Nothing else happens.                                                     *)
LEMMA SeqStays ==
  ASSUME SeqInv, UNCHANGED vars
  PROVE  SeqInv' /\ UNCHANGED out
<1>1. UNCHANGED <<data, code, symbolCount, buf, bufSize, cursor, pc, i, left, numBytes, tree, stage,
                  k, res, cnt, b, byte, bit, p, out>>
  BY DEF vars, input, header, coding
<1>2. UNCHANGED input
  BY <1>1 DEF input
<1>3. /\ Given' = Given /\ HeaderEnd' = HeaderEnd /\ PayloadSize' = PayloadSize
      /\ NoEmptyCode' = NoEmptyCode
  BY <1>2, SameInput
<1>4. Measuring' = Measuring
  BY <1>1 DEF Measuring, Fresh, HeaderEnd, BitsOf
<1>5. WritingHeader' = WritingHeader
  BY <1>1 DEF WritingHeader, Fresh, WrittenTo, HeaderThere, Stored, EntryStart, EntrySize, Before,
              Table!Entry
<1>6. Encoding' = Encoding
  BY <1>1 DEF Encoding, HeaderThere, Stored, EntryStart, EntrySize, Before, Table!Entry, WrittenTo,
              HeaderEnd, Beyond, BitsOf, FirstBits, Whole, HasSymbol, CodeHere
<1>7. Complete' = Complete
  <2>1. HeaderThere(MaxSymbols)' = HeaderThere(MaxSymbols)
    BY <1>1 DEF HeaderThere, Stored, EntryStart, EntrySize, Before, Table!Entry
  <2>2. PayloadThere' = PayloadThere
    BY <1>1 DEF PayloadThere, PayloadSize, Payload, Whole, HeaderEnd
  <2>. QED
    BY <2>1, <2>2 DEF Complete
<1>8. Encoded' = Encoded
  BY <1>1, <1>7 DEF Encoded
<1>9. TreeOf(DOMAIN code)' = TreeOf(DOMAIN code)
  BY <1>1 DEF TreeOf
<1>10. ReadingHeader' = ReadingHeader
  BY <1>1, <1>7 DEF ReadingHeader, EntryStart, EntrySize, Before, TreeOf
<1>11. Decoding' = Decoding
  BY <1>1, <1>3, <1>7 DEF Decoding, Decoded, Fetching, WalkingDown, Walked, BitsOf, HeaderEnd, Beyond,
                          Payload, Whole
<1>. QED
  <2>1. UNCHANGED <<stage, pc, p, out, bufSize, numBytes, symbolCount>>
    BY <1>1
  <2>. QED
    BY <1>3, <1>4, <1>5, <1>6, <1>8, <1>9, <1>10, <1>11, <2>1 DEF SeqInv

(* Every step keeps the invariant, and copies at most one byte.              *)
LEMMA SeqStep ==
  ASSUME Parameters, IsPrefixCode(code)
  PROVE  SeqInv /\ [Next]_vars => SeqInv' /\ Copies
<1>. SUFFICES ASSUME SeqInv, [Next]_vars PROVE SeqInv' /\ Copies
  OBVIOUS
<1>1. CASE Encode
  BY <1>1, EncodeKeeps DEF Copies
<1>2. CASE Rewind
  BY <1>2, RewindKeepsAll DEF Copies
<1>3. CASE Decode
  BY <1>3, DecodeKeeps
<1>4. CASE Abort
  BY <1>4, AbortKeeps DEF Copies
<1>5. CASE UNCHANGED vars
  BY <1>5, SeqStays DEF Copies
<1>. QED
  BY <1>1, <1>2, <1>3, <1>4, <1>5 DEF Next, Terminated

(* What the invariant says of the finished buffers.                          *)
LEMMA SeqResults ==
  ASSUME Parameters, SeqInv
  PROVE  /\ BufferUsedUp /\ OutputIsReference /\ TableRestored
         /\ stage = "done" => out = data
         /\ stage = "aborted" => ~ NoEmptyCode
<1>1. BufferUsedUp
  BY DEF BufferUsedUp, SeqInv, Encoded
<1>2. OutputIsReference
  <2>. SUFFICES ASSUME stage = "encoded"
                PROVE  LET packed == PackBits(CodeBits(data, 0, symbolCount, code), ByteBits)
                       IN \A q \in DOMAIN packed : buf[Table!HeaderSize(code) + q] = packed[q]
    BY DEF OutputIsReference
  <2>1. \A q \in 0 .. PayloadSize - 1 : buf[HeaderEnd + q] = Payload[q]
    BY DEF SeqInv, Encoded, Complete, PayloadThere
  <2>2. PackBits(CodeBits(data, 0, symbolCount, code), ByteBits) = Payload
    BY DEF Payload, Whole, Bits
  <2>3. DOMAIN Payload = 0 .. PayloadSize - 1
    <3>1. Len(Whole) \in Nat /\ ByteBits \in Nat \ {0}
      BY GivenFacts DEF SeqInv, Widths
    <3>. QED
      BY <3>1, PackParts DEF Payload, PayloadSize
  <2>. QED
    BY <2>1, <2>2, <2>3 DEF HeaderEnd
<1>3. TableRestored
  <2>1. ASSUME pc = "read"
        PROVE  /\ numBytes = symbolCount /\ TreeOf(DOMAIN code)
    BY <2>1 DEF SeqInv
  <2>. QED
    BY <2>1, SameOperators, SMTT(30) DEF TableRestored, Table!TableRestored, TreeOf
<1>4. ASSUME stage = "done" PROVE out = data
  <2>1. Given /\ Decoding
    BY <1>4 DEF SeqInv
  <2>2. PICK n \in 0 .. symbolCount : Decoded(n) /\ ~ (n < symbolCount)
    BY <1>4, <2>1 DEF Decoding
  <2>3. symbolCount \in Nat /\ data = [x \in 0 .. symbolCount - 1 |-> data[x]]
    BY <2>1, GivenFacts DEF Given
  <2>4. n = symbolCount
    BY <2>2, <2>3
  <2>. QED
    BY <2>2, <2>3, <2>4 DEF Decoded
<1>5. stage = "aborted" => ~ NoEmptyCode
  BY DEF SeqInv
<1>. QED
  BY <1>1, <1>2, <1>3, <1>4, <1>5
===============================================================================
