------------------------------ MODULE LZSS_proofs ------------------------------
(***************************************************************************)
(* Proofs about LZSSProgram.  The encoder and the decoder have the same    *)
(* window whenever they put or get a token; and the decoder, in the test   *)
(* mode, restores the input: the bits that the encoder puts are those that *)
(* the decoder gets, and token by token they stand for the input.  A call  *)
(* ends as the words of its command line and the files demand.  And a bit  *)
(* file is a queue of bits, whatever the portions of the calls.            *)
(***************************************************************************)
EXTENDS LZSSProgram, BitFileUse, OperatorLemmas

-------------------------------------------------------------------------------
(* The bit file. *)

(* The streams with at most b buffered bits.                                 *)
StreamsUpTo(b) ==
  [file : Seq(Byte), room : Nat, pos : Nat, bitBuffer : Nat, bitCount : 0 .. b,
   ok : BOOLEAN, val : Nat]

Streams == StreamsUpTo(ByteBits - 1)

(* Bytes are the remainders that the conversion to unsigned char leaves.     *)
LEMMA ByteRange ==
  /\ ByteBits \in Nat \ {0}
  /\ 2 ^ ByteBits \in Nat \ {0}
  /\ Byte \subseteq Nat /\ 0 \in Byte
  /\ \A v \in Nat : UChar(v) \in Byte
<1>1. ByteBits \in Nat \ {0}
  BY ByteBitsAssumption
<1>2. 2 ^ ByteBits \in Nat \ {0}
  BY <1>1, PowersPositive
<1>. DEFINE p == 2 ^ ByteBits
<1>3. \A v \in Nat : v % p \in 0 .. p - 1
  BY <1>2, Remainder
<1>. QED
  BY <1>1, <1>2, <1>3 DEF Byte, UChar

(* A bit of a number is 0 or 1.                                              *)
LEMMA BitRange ==
  ASSUME NEW v \in Nat, NEW k \in Nat
  PROVE  BitOf(v, k) \in {0, 1}
<1>. DEFINE p == 2 ^ k
            w == v \div p
<1>1. p \in Nat \ {0}
  BY PowersPositive
<1>. HIDE DEF p
<1>2. w \in Nat
  BY <1>1, Remainder
<1>. HIDE DEF w
<1>3. w % 2 \in {0, 1}
  BY <1>2
<1>. QED
  BY <1>3 DEF BitOf, w, p

(* A stream with no buffered bits is one again.                              *)
LEMMA EmptiedType ==
  ASSUME NEW b \in Nat, NEW s \in StreamsUpTo(b)
  PROVE  Emptied(s) \in Streams
<1>1. 0 \in 0 .. ByteBits - 1
  BY ByteRange
<1>2. ASSUME NEW x \in Nat, NEW y \in 0 .. ByteBits - 1
      PROVE  [s EXCEPT !.bitBuffer = x, !.bitCount = y] \in Streams
  BY DEF Streams, StreamsUpTo
<1>. QED
  BY <1>1, <1>2 DEF Emptied

(* fputc adds a byte or fails, and leaves the buffered bits as they are.     *)
LEMMA FPutCType ==
  ASSUME NEW c \in Nat, NEW b \in Nat, NEW s \in StreamsUpTo(b)
  PROVE  /\ FPutC(c, s) \in StreamsUpTo(b)
         /\ FPutC(c, s).bitCount = s.bitCount
<1>1. UChar(c) \in Byte
  BY ByteRange
<1>2. s.file \in Seq(Byte)
  BY DEF StreamsUpTo
<1>3. Append(s.file, UChar(c)) \in Seq(Byte)
  BY <1>1, <1>2, AppendProperties
<1>. QED
  BY <1>3 DEF FPutC, StreamsUpTo

(* BitFilePutBit writes the buffer as soon as it is full.                    *)
LEMMA PutBitType ==
  ASSUME NEW c, NEW s \in Streams
  PROVE  PutBit(c, s) \in Streams
<1>. DEFINE t == [s EXCEPT !.bitCount = @ + 1,
                           !.bitBuffer = UChar(2 * @) + (IF c # 0 THEN 1 ELSE 0),
                           !.ok = TRUE]
<1>1. UChar(2 * s.bitBuffer) \in Nat
  <2>1. 2 * s.bitBuffer \in Nat
    BY DEF Streams, StreamsUpTo
  <2>. QED
    BY <2>1, ByteRange
<1>2. UChar(2 * s.bitBuffer) + (IF c # 0 THEN 1 ELSE 0) \in Nat
  BY <1>1
<1>3. s.bitCount + 1 \in 0 .. ByteBits
  BY ByteRange DEF Streams, StreamsUpTo
<1>4. t \in StreamsUpTo(ByteBits) /\ t.bitBuffer \in Nat /\ t.bitCount \in 0 .. ByteBits
  BY <1>2, <1>3 DEF Streams, StreamsUpTo
<1>5. PutBit(c, s) = IF t.bitCount = ByteBits THEN Emptied(FPutC(t.bitBuffer, t)) ELSE t
  BY DEF PutBit
<1>. HIDE DEF t
<1>6. FPutC(t.bitBuffer, t) \in StreamsUpTo(ByteBits)
  BY <1>4, ByteRange, FPutCType
<1>7. \A u \in StreamsUpTo(ByteBits) : Emptied(u) \in Streams
  BY ByteRange, EmptiedType
<1>8. t.bitCount # ByteBits => t \in Streams
  <2>1. t.bitCount # ByteBits => t.bitCount \in 0 .. ByteBits - 1
    BY <1>4, ByteRange
  <2>. QED
    BY <1>4, <2>1 DEF Streams, StreamsUpTo
<1>. QED
  BY <1>5, <1>6, <1>7, <1>8

(* BitFilePutChar keeps the number of the buffered bits.                     *)
LEMMA PutCharType ==
  ASSUME NEW c \in Nat, NEW s \in Streams
  PROVE  PutChar(c, s) \in Streams
<1>1. s \in StreamsUpTo(ByteBits - 1) /\ ByteBits - 1 \in Nat
  BY ByteRange DEF Streams
<1>2. UChar(c) \in Nat
  BY ByteRange
<1>. DEFINE p == 2 ^ s.bitCount
            q == 2 ^ (ByteBits - s.bitCount)
            d == UChar(c) \div p + s.bitBuffer * q
<1>3. p \in Nat \ {0} /\ q \in Nat \ {0} /\ s.bitBuffer \in Nat
  <2>1. s.bitCount \in Nat /\ ByteBits - s.bitCount \in Nat /\ s.bitBuffer \in Nat
    BY ByteRange DEF Streams, StreamsUpTo
  <2>. QED
    BY <2>1, PowersPositive
<1>4. d \in Nat
  <2>. HIDE DEF p, q
  <2>1. UChar(c) \div p \in Nat
    BY <1>2, <1>3, Remainder
  <2>2. s.bitBuffer * q \in Nat
    BY <1>3
  <2>. QED
    BY <2>1, <2>2
<1>5. PutChar(c, s) = IF s.bitCount = 0 THEN FPutC(c, s)
                      ELSE IF FPutC(d, s).ok
                           THEN [FPutC(d, s) EXCEPT !.bitBuffer = UChar(c)]
                           ELSE FPutC(d, s)
  BY DEF PutChar, Rest
<1>. HIDE DEF d
<1>6. FPutC(c, s) \in StreamsUpTo(ByteBits - 1) /\ FPutC(d, s) \in StreamsUpTo(ByteBits - 1)
  BY <1>1, <1>4, FPutCType
<1>7. \A t \in StreamsUpTo(ByteBits - 1) : [t EXCEPT !.bitBuffer = UChar(c)] \in StreamsUpTo(ByteBits - 1)
  BY <1>2 DEF StreamsUpTo
<1>. QED
  BY <1>5, <1>6, <1>7 DEF Streams

(* BitFileFlushOutput leaves no bits behind.                                 *)
LEMMA FlushOutputType ==
  ASSUME NEW s \in Streams
  PROVE  FlushOutput(0, s) \in Streams
<1>1. s \in StreamsUpTo(ByteBits - 1) /\ ByteBits - 1 \in Nat
  BY ByteRange DEF Streams
<1>. DEFINE q == 2 ^ (ByteBits - s.bitCount)
            d == LeftAligned(s, 0)
<1>2. q \in Nat \ {0} /\ s.bitBuffer \in Nat
  <2>1. ByteBits - s.bitCount \in Nat /\ s.bitBuffer \in Nat
    BY ByteRange DEF Streams, StreamsUpTo
  <2>. QED
    BY <2>1, PowersPositive
<1>3. d \in Nat
  <2>1. d = UChar(s.bitBuffer * q) + 0
    BY DEF LeftAligned
  <2>. HIDE DEF q
  <2>2. s.bitBuffer * q \in Nat
    BY <1>2
  <2>3. UChar(s.bitBuffer * q) \in Nat
    BY <2>2, ByteRange
  <2>. QED
    BY <2>1, <2>3
<1>. HIDE DEF d
<1>4. FPutC(d, s) \in StreamsUpTo(ByteBits - 1)
  BY <1>1, <1>3, FPutCType
<1>5. \A t \in StreamsUpTo(ByteBits - 1) : Emptied(t) \in StreamsUpTo(ByteBits - 1)
  BY <1>1, EmptiedType DEF Streams
<1>. QED
  BY <1>1, <1>4, <1>5 DEF FlushOutput, Streams, d

(* What is read from the file is a byte, or 0.                               *)
LEMMA FGetCType ==
  ASSUME NEW s \in Streams
  PROVE  /\ FGetC(s) \in Streams
         /\ FGetC(s).val \in Byte
         /\ FGetC(s).bitCount = s.bitCount
         /\ FGetC(s).bitBuffer = s.bitBuffer
         /\ FGetC(s).ok \/ FGetC(s).val = 0
<1>1. s.file \in Seq(Byte) /\ s.pos \in Nat
  BY DEF Streams, StreamsUpTo
<1>2. s.pos < Len(s.file) => s.file[s.pos + 1] \in Byte
  BY <1>1
<1>3. ASSUME NEW p \in Nat, NEW v \in Nat
      PROVE  /\ [s EXCEPT !.pos = p, !.val = v, !.ok = TRUE] \in Streams
             /\ [s EXCEPT !.pos = p, !.val = v, !.ok = TRUE].val = v
             /\ [s EXCEPT !.pos = p, !.val = v, !.ok = TRUE].ok
             /\ [s EXCEPT !.pos = p, !.val = v, !.ok = TRUE].bitCount = s.bitCount
             /\ [s EXCEPT !.pos = p, !.val = v, !.ok = TRUE].bitBuffer = s.bitBuffer
  BY DEF Streams, StreamsUpTo
<1>4. ASSUME NEW v \in Nat
      PROVE  /\ [s EXCEPT !.val = v, !.ok = FALSE] \in Streams
             /\ [s EXCEPT !.val = v, !.ok = FALSE].val = v
             /\ [s EXCEPT !.val = v, !.ok = FALSE].bitCount = s.bitCount
             /\ [s EXCEPT !.val = v, !.ok = FALSE].bitBuffer = s.bitBuffer
  BY DEF Streams, StreamsUpTo
<1>5. CASE s.pos < Len(s.file)
  <2>. DEFINE v == s.file[s.pos + 1]
              p == s.pos + 1
  <2>1. FGetC(s) = [s EXCEPT !.pos = p, !.val = v, !.ok = TRUE]
    BY <1>5 DEF FGetC
  <2>2. p \in Nat /\ v \in Byte /\ v \in Nat
    <3>1. p \in Nat
      BY <1>1
    <3>2. v \in Byte
      BY <1>2, <1>5
    <3>. HIDE DEF p, v
    <3>. QED
      BY <3>1, <3>2, ByteRange
  <2>. DEFINE r == [s EXCEPT !.pos = p, !.val = v, !.ok = TRUE]
  <2>3. /\ r \in Streams /\ r.val = v /\ r.ok
        /\ r.bitCount = s.bitCount /\ r.bitBuffer = s.bitBuffer
    BY <1>3, <2>2
  <2>. HIDE DEF p, v, r
  <2>. QED
    BY <2>1, <2>2, <2>3 DEF r
<1>6. CASE ~ (s.pos < Len(s.file))
  <2>1. FGetC(s) = [s EXCEPT !.val = 0, !.ok = FALSE]
    BY <1>6 DEF FGetC
  <2>. DEFINE r == [s EXCEPT !.val = 0, !.ok = FALSE]
  <2>2. /\ r \in Streams /\ r.val = 0
        /\ r.bitCount = s.bitCount /\ r.bitBuffer = s.bitBuffer
    BY <1>4
  <2>. HIDE DEF r
  <2>. QED
    BY <2>1, <2>2, ByteRange DEF r
<1>. QED
  BY <1>5, <1>6

(* What BitFileGetBit gets is a bit, also at the end of the file.            *)
LEMMA GetBitType ==
  ASSUME NEW s \in Streams
  PROVE  /\ GetBit(s) \in Streams
         /\ GetBit(s).val \in {0, 1}
<1>. DEFINE t == IF s.bitCount = 0 THEN FGetC(s) ELSE [s EXCEPT !.ok = TRUE]
            full == IF s.bitCount = 0
                    THEN [t EXCEPT !.bitCount = ByteBits, !.bitBuffer = t.val] ELSE t
            bit == BitOf(full.bitBuffer, full.bitCount - 1)
<1>1. t \in Streams /\ (t.ok \/ t.val = 0)
  BY FGetCType DEF Streams, StreamsUpTo
<1>2. s.bitCount # 0 => t.bitCount = s.bitCount
  BY DEF Streams, StreamsUpTo
<1>3. full \in StreamsUpTo(ByteBits) /\ full.bitCount - 1 \in 0 .. ByteBits - 1 /\ full.bitBuffer \in Nat
  <2>1. CASE s.bitCount = 0
    <3>1. t.val \in Nat /\ full = [t EXCEPT !.bitCount = ByteBits, !.bitBuffer = t.val]
      BY <1>1, <2>1 DEF Streams, StreamsUpTo
    <3>2. ByteBits \in 0 .. ByteBits /\ ByteBits - 1 \in 0 .. ByteBits - 1
      BY ByteRange
    <3>. HIDE DEF t, full
    <3>. QED
      BY <1>1, <3>1, <3>2 DEF Streams, StreamsUpTo
  <2>2. CASE s.bitCount # 0
    <3>1. full = t /\ t.bitCount \in 0 .. ByteBits - 1 /\ t.bitCount # 0
      BY <1>1, <1>2, <2>2 DEF Streams, StreamsUpTo
    <3>2. t.bitCount \in 0 .. ByteBits /\ t.bitCount - 1 \in 0 .. ByteBits - 1
      BY <3>1, ByteRange
    <3>. HIDE DEF t, full
    <3>. QED
      BY <1>1, <3>1, <3>2 DEF Streams, StreamsUpTo
  <2>. QED
    BY <2>1, <2>2
<1>4. bit \in {0, 1}
  BY <1>3, BitRange
<1>5. GetBit(s) = IF t.ok THEN [full EXCEPT !.bitCount = @ - 1, !.val = bit] ELSE t
  BY DEF GetBit
<1>6. t.ok <=> full.ok
  BY <1>1 DEF Streams, StreamsUpTo
<1>. HIDE DEF bit, full, t
<1>7. [full EXCEPT !.bitCount = @ - 1, !.val = bit] \in Streams
  <2>1. bit \in Nat
    BY <1>4
  <2>. QED
    BY <1>3, <2>1 DEF Streams, StreamsUpTo
<1>8. [full EXCEPT !.bitCount = @ - 1, !.val = bit].val \in {0, 1}
  BY <1>3, <1>4 DEF StreamsUpTo
<1>. QED
  BY <1>1, <1>5, <1>7, <1>8

(* The upper bits and the lower bits of a byte make a byte.                  *)
LEMMA JoinedRange ==
  ASSUME NEW s \in Streams, NEW c \in Byte
  PROVE  Joined(s, c) \in Byte
<1>. DEFINE k == s.bitCount
            p == 2 ^ k
            q == 2 ^ (ByteBits - k)
            m == 2 ^ ByteBits
            buf == s.bitBuffer
            h == c \div p
            a == buf \div p
            b == buf % p
<1>1. /\ k \in Nat /\ ByteBits - k \in Nat /\ k + (ByteBits - k) = ByteBits
      /\ buf \in Nat /\ c \in Nat /\ c <= m - 1
  <2>1. k \in 0 .. ByteBits - 1 /\ buf \in Nat
    BY DEF Streams, StreamsUpTo
  <2>2. c \in 0 .. m - 1 /\ m \in Nat
    BY ByteRange DEF Byte
  <2>. HIDE DEF k, m, buf
  <2>3. c \in Nat /\ c <= m - 1
    BY <2>2
  <2>4. k \in Nat /\ ByteBits - k \in Nat /\ k + (ByteBits - k) = ByteBits
    BY <2>1, ByteRange
  <2>. QED
    BY <2>1, <2>3, <2>4
<1>2. p \in Nat \ {0} /\ q \in Nat \ {0}
  BY <1>1, PowersPositive
<1>3. m = p * q
  BY <1>1, PowerOfSum
<1>4. m \in Nat \ {0} /\ Byte = 0 .. m - 1
  BY ByteRange DEF Byte
<1>5. h \in Nat /\ c % p \in 0 .. p - 1 /\ c = p * h + (c % p)
  BY <1>1, <1>2, Remainder
<1>6. a \in Nat /\ b \in 0 .. p - 1 /\ buf = p * a + b
  BY <1>1, <1>2, Remainder
<1>7. Joined(s, c) = h + ((buf * q) % m)
  BY DEF Joined, UChar
<1>. HIDE DEF k, p, q, m, buf, h, a, b
<1>8. h <= q - 1
  <2>. SUFFICES ASSUME ~ (h <= q - 1) PROVE FALSE
    OBVIOUS
  <2>. DEFINE e == h - q
  <2>1. e \in Nat /\ h = q + e
    BY <1>2, <1>5
  <2>. HIDE DEF e
  <2>2. p * h = p * q + p * e /\ p * e \in Nat
    BY <1>2, <2>1
  <2>3. p * h \in Nat /\ p * h <= c
    BY <1>1, <1>2, <1>5
  <2>. QED
    BY <1>1, <1>3, <1>4, <2>2, <2>3
<1>9. b * q \in 0 .. m - q
  <2>1. b * q \in Nat
    BY <1>2, <1>6
  <2>. DEFINE e == p - 1 - b
  <2>2. e \in Nat /\ p = b + e + 1
    BY <1>2, <1>6
  <2>. HIDE DEF e
  <2>3. p * q = b * q + e * q + q /\ e * q \in Nat
    BY <1>2, <1>6, <2>2
  <2>. QED
    BY <1>2, <1>3, <1>4, <2>1, <2>3
<1>10. buf * q = m * a + b * q
  BY <1>2, <1>3, <1>6
<1>11. (buf * q) % m = b * q
  <2>1. b * q \in 0 .. m - 1
    BY <1>2, <1>4, <1>9
  <2>. DEFINE r == b * q
  <2>. HIDE DEF r
  <2>2. (m * a + r) % m = r
    BY <1>4, <1>6, <2>1, Remainder DEF r
  <2>. QED
    BY <1>10, <2>2 DEF r
<1>12. h + b * q \in 0 .. m - 1
  <2>. DEFINE r == b * q
  <2>1. r \in 0 .. m - q
    BY <1>9
  <2>. HIDE DEF r
  <2>2. h + r \in 0 .. m - 1
    BY <1>2, <1>4, <1>5, <1>8, <2>1
  <2>. QED
    BY <2>2 DEF r
<1>. QED
  BY <1>4, <1>7, <1>11, <1>12

(* What BitFileGetChar gets is a byte, wherever in the file it begins.       *)
LEMMA GetCharType ==
  ASSUME NEW s \in Streams
  PROVE  GetChar(s) \in Streams /\ GetChar(s).val \in Byte
<1>. DEFINE t == FGetC(s)
            j == Joined(s, t.val)
            u == [t EXCEPT !.bitBuffer = t.val, !.val = j]
<1>1. t \in Streams /\ t.val \in Byte /\ t.val \in Nat
  BY FGetCType, ByteRange
<1>2. j \in Byte /\ j \in Nat
  BY <1>1, JoinedRange, ByteRange
<1>3. GetChar(s) = IF s.bitCount = 0 \/ ~ t.ok THEN t ELSE u
  BY DEF GetChar
<1>. HIDE DEF t, j
<1>4. u \in Streams /\ u.val = j
  BY <1>1, <1>2 DEF Streams, StreamsUpTo
<1>. QED
  BY <1>1, <1>2, <1>3, <1>4

-------------------------------------------------------------------------------
(* Numbers in the bit file. *)

(* FoldLeft combines from the left: after each element of the sequence it    *)
(* has a value that the next one is combined with.                           *)
CharPut(t, c) == IF t.ok THEN PutChar(c, t) ELSE t
BitPut(t, c) == IF t.ok THEN PutBit(c, t) ELSE t

(* The loop of BitFilePutBitsNum over whole bytes: what is in W[0] at first   *)
(* and, after each byte, in the next of these sets is in the last in the end. *)
LEMMA CharsPutFrom ==
  ASSUME NEW seq \in Seq(Nat), NEW base \in Streams, NEW W, base \in W[0],
         \A k \in 1 .. Len(seq) : \A t \in Streams \cap W[k - 1] : CharPut(t, seq[k]) \in W[k]
  PROVE  FoldLeft(CharPut, base, seq) \in Streams \cap W[Len(seq)]
<1>. DEFINE n == Len(seq)
<1>1. /\ n \in Nat /\ DOMAIN seq = 1 .. n /\ \A x \in 1 .. n : seq[x] \in Nat
      /\ \A k \in 1 .. n : \A t \in Streams \cap W[k - 1] : CharPut(t, seq[k]) \in W[k]
  OBVIOUS
<1>. HIDE DEF n
<1>. DEFINE T == 1 .. n
            op(x, t) == CharPut(t, seq[x])
            Is(h) == h = [S \in SUBSET T |-> IF S = {} THEN base
                                             ELSE op(Max(S), h[S \ {Max(S)}])]
            g == [p \in T \X Streams |-> op(p[1], p[2])]
            H == CHOOSE x : Is(x)
            V == [k \in 0 .. n |-> Streams \cap W[k]]
<1>2. \A x \in T, t \in Streams : op(x, t) \in Streams
  BY <1>1, PutCharType DEF CharPut
<1>3. FoldLeft(CharPut, base, seq) = H[T]
  BY <1>1 DEF FoldLeft, MapThenFoldSet
<1>4. \A k \in 1 .. n : \A t \in Streams \cap W[k - 1] : op(k, t) \in W[k]
  BY <1>1
<1>. HIDE DEF op
<1>5. \A x \in T, t \in Streams : g[<<x, t>>] = op(x, t) /\ g[<<x, t>>] \in Streams
  BY <1>2
<1>. HIDE DEF g
<1>6. \E h : Is(h)
  <2>1. PICK h \in [SUBSET T -> Streams] : IsLeftFold(h, g, base, n)
    <3>1. \A x \in 1 .. n, t \in Streams : g[<<x, t>>] \in Streams
      BY <1>5
    <3>. QED
      BY <1>1, <3>1, LeftFoldExists
  <2>2. ASSUME NEW S \in SUBSET T, S # {} PROVE Max(S) \in T
    <3>1. S \in SUBSET (0 .. n)
      BY <1>1
    <3>. QED
      BY <1>1, <2>2, <3>1, MaxIn
  <2>3. ASSUME NEW S \in SUBSET T, S # {}
        PROVE  h[S] = op(Max(S), h[S \ {Max(S)}])
    BY <1>5, <2>1, <2>2, <2>3 DEF IsLeftFold
  <2>4. Is(h)
    BY <2>1, <2>3 DEF IsLeftFold
  <2>. QED
    BY <2>4
<1>7. Is(H)
  BY <1>6
<1>8. \A S \in SUBSET T : H[S] = IF S = {} THEN base ELSE op(Max(S), H[S \ {Max(S)}])
  BY <1>7
<1>. HIDE DEF H
<1>9. H[1 .. 0] \in V[0]
  <2>1. 1 .. 0 = {} /\ {} \in SUBSET T
    BY <1>1
  <2>2. H[1 .. 0] = base
    BY <1>8, <2>1
  <2>. QED
    BY <1>1, <2>2
<1>10. ASSUME NEW k \in 1 .. n, H[1 .. (k - 1)] \in V[k - 1] PROVE H[1 .. k] \in V[k]
  <2>1. /\ 1 .. k \in SUBSET T /\ 1 .. k # {}
        /\ Max(1 .. k) = k /\ (1 .. k) \ {k} = 1 .. (k - 1)
    BY <1>1, PrefixSteps
  <2>2. H[1 .. k] = op(Max(1 .. k), H[(1 .. k) \ {Max(1 .. k)}])
    BY <1>8, <2>1
  <2>3. H[1 .. k] = op(k, H[1 .. (k - 1)])
    BY <2>1, <2>2
  <2>4. k \in 0 .. n /\ k - 1 \in 0 .. n /\ k \in T
    BY <1>1
  <2>5. H[1 .. (k - 1)] \in Streams \cap W[k - 1]
    BY <1>10, <2>4
  <2>6. H[1 .. k] \in Streams /\ H[1 .. k] \in W[k]
    BY <1>2, <1>4, <2>3, <2>4, <2>5
  <2>. QED
    BY <2>4, <2>6
<1>. HIDE DEF V
<1>11. H[T] \in V[n]
  BY <1>1, <1>9, <1>10, PrefixInduction
<1>12. H[T] \in Streams \cap W[n]
  BY <1>1, <1>11 DEF V
<1>. QED
  BY <1>3, <1>12 DEF n

(* Its loop over the bits of the last byte: the same.                        *)
LEMMA BitsPutFrom ==
  ASSUME NEW seq \in Seq(Nat), NEW base \in Streams, NEW W, base \in W[0],
         \A k \in 1 .. Len(seq) : \A t \in Streams \cap W[k - 1] : BitPut(t, seq[k]) \in W[k]
  PROVE  FoldLeft(BitPut, base, seq) \in Streams \cap W[Len(seq)]
<1>. DEFINE n == Len(seq)
<1>1. /\ n \in Nat /\ DOMAIN seq = 1 .. n /\ \A x \in 1 .. n : seq[x] \in Nat
      /\ \A k \in 1 .. n : \A t \in Streams \cap W[k - 1] : BitPut(t, seq[k]) \in W[k]
  OBVIOUS
<1>. HIDE DEF n
<1>. DEFINE T == 1 .. n
            op(x, t) == BitPut(t, seq[x])
            Is(h) == h = [S \in SUBSET T |-> IF S = {} THEN base
                                             ELSE op(Max(S), h[S \ {Max(S)}])]
            g == [p \in T \X Streams |-> op(p[1], p[2])]
            H == CHOOSE x : Is(x)
            V == [k \in 0 .. n |-> Streams \cap W[k]]
<1>2. \A x \in T, t \in Streams : op(x, t) \in Streams
  BY <1>1, PutBitType DEF BitPut
<1>3. FoldLeft(BitPut, base, seq) = H[T]
  BY <1>1 DEF FoldLeft, MapThenFoldSet
<1>4. \A k \in 1 .. n : \A t \in Streams \cap W[k - 1] : op(k, t) \in W[k]
  BY <1>1
<1>. HIDE DEF op
<1>5. \A x \in T, t \in Streams : g[<<x, t>>] = op(x, t) /\ g[<<x, t>>] \in Streams
  BY <1>2
<1>. HIDE DEF g
<1>6. \E h : Is(h)
  <2>1. PICK h \in [SUBSET T -> Streams] : IsLeftFold(h, g, base, n)
    <3>1. \A x \in 1 .. n, t \in Streams : g[<<x, t>>] \in Streams
      BY <1>5
    <3>. QED
      BY <1>1, <3>1, LeftFoldExists
  <2>2. ASSUME NEW S \in SUBSET T, S # {} PROVE Max(S) \in T
    <3>1. S \in SUBSET (0 .. n)
      BY <1>1
    <3>. QED
      BY <1>1, <2>2, <3>1, MaxIn
  <2>3. ASSUME NEW S \in SUBSET T, S # {}
        PROVE  h[S] = op(Max(S), h[S \ {Max(S)}])
    BY <1>5, <2>1, <2>2, <2>3 DEF IsLeftFold
  <2>4. Is(h)
    BY <2>1, <2>3 DEF IsLeftFold
  <2>. QED
    BY <2>4
<1>7. Is(H)
  BY <1>6
<1>8. \A S \in SUBSET T : H[S] = IF S = {} THEN base ELSE op(Max(S), H[S \ {Max(S)}])
  BY <1>7
<1>. HIDE DEF H
<1>9. H[1 .. 0] \in V[0]
  <2>1. 1 .. 0 = {} /\ {} \in SUBSET T
    BY <1>1
  <2>2. H[1 .. 0] = base
    BY <1>8, <2>1
  <2>. QED
    BY <1>1, <2>2
<1>10. ASSUME NEW k \in 1 .. n, H[1 .. (k - 1)] \in V[k - 1] PROVE H[1 .. k] \in V[k]
  <2>1. /\ 1 .. k \in SUBSET T /\ 1 .. k # {}
        /\ Max(1 .. k) = k /\ (1 .. k) \ {k} = 1 .. (k - 1)
    BY <1>1, PrefixSteps
  <2>2. H[1 .. k] = op(Max(1 .. k), H[(1 .. k) \ {Max(1 .. k)}])
    BY <1>8, <2>1
  <2>3. H[1 .. k] = op(k, H[1 .. (k - 1)])
    BY <2>1, <2>2
  <2>4. k \in 0 .. n /\ k - 1 \in 0 .. n /\ k \in T
    BY <1>1
  <2>5. H[1 .. (k - 1)] \in Streams \cap W[k - 1]
    BY <1>10, <2>4
  <2>6. H[1 .. k] \in Streams /\ H[1 .. k] \in W[k]
    BY <1>2, <1>4, <2>3, <2>4, <2>5
  <2>. QED
    BY <2>4, <2>6
<1>. HIDE DEF V
<1>11. H[T] \in V[n]
  BY <1>1, <1>9, <1>10, PrefixInduction
<1>12. H[T] \in Streams \cap W[n]
  BY <1>1, <1>11 DEF V
<1>. QED
  BY <1>3, <1>12 DEF n

(* The loop over whole bytes ends in a stream.                               *)
LEMMA PutCharsType ==
  ASSUME NEW seq \in Seq(Nat), NEW base \in Streams
  PROVE  FoldLeft(CharPut, base, seq) \in Streams
<1>. DEFINE W == [k \in 0 .. Len(seq) |-> Streams]
<1>1. base \in W[0]
  OBVIOUS
<1>2. \A k \in 1 .. Len(seq) : \A t \in Streams \cap W[k - 1] : CharPut(t, seq[k]) \in W[k]
  BY PutCharType DEF CharPut
<1>. HIDE DEF W
<1>. QED
  BY <1>1, <1>2, CharsPutFrom

(* So does the loop over the bits of the last byte.                          *)
LEMMA PutBitsType ==
  ASSUME NEW seq \in Seq(Nat), NEW base \in Streams
  PROVE  FoldLeft(BitPut, base, seq) \in Streams
<1>. DEFINE W == [k \in 0 .. Len(seq) |-> Streams]
<1>1. base \in W[0]
  OBVIOUS
<1>2. \A k \in 1 .. Len(seq) : \A t \in Streams \cap W[k - 1] : BitPut(t, seq[k]) \in W[k]
  BY PutBitType DEF BitPut
<1>. HIDE DEF W
<1>. QED
  BY <1>1, <1>2, BitsPutFrom

(* Both loops do, one after the other.                                       *)
LEMMA PutAllType ==
  ASSUME NEW bytes \in Seq(Nat), NEW bits \in Seq(Nat), NEW s \in Streams
  PROVE  PutAll(bytes, bits, s) \in Streams
<1>. DEFINE t == [s EXCEPT !.ok = TRUE]
<1>1. t \in Streams
  BY DEF Streams, StreamsUpTo
<1>2. PutAll(bytes, bits, s) = FoldLeft(BitPut, FoldLeft(CharPut, t, bytes), bits)
  BY DEF PutAll, FoldLeft, MapThenFoldSet, BitPut, CharPut
<1>. HIDE DEF t
<1>3. FoldLeft(CharPut, t, bytes) \in Streams
  BY <1>1, PutCharsType
<1>. QED
  BY <1>2, <1>3, PutBitsType

(* What is put is a number, whatever its size.                               *)
LEMMA PutBitsNumType ==
  ASSUME NEW v \in Nat, NEW count \in Nat, NEW s \in Streams
  PROVE  PutBitsNum(v, count, s) \in Streams
<1>. DEFINE whole == count \div ByteBits
            rest == count % ByteBits
            bytes == [x \in 1 .. whole |-> ByteOf(v, x - 1)]
            bits == [x \in 1 .. rest |-> BitOf(ByteOf(v, whole), rest - x)]
<1>1. whole \in Nat /\ rest \in Nat
  BY ByteRange, Remainder
<1>. HIDE DEF whole, rest
<1>2. ASSUME NEW k \in Nat PROVE ByteOf(v, k) \in Nat
  <2>. DEFINE e == k * ByteBits
              p == 2 ^ e
  <2>1. e \in Nat
    BY ByteRange
  <2>. HIDE DEF e
  <2>2. p \in Nat \ {0}
    BY <2>1, PowersPositive
  <2>. HIDE DEF p
  <2>3. v \div p \in Nat
    BY <2>2, Remainder
  <2>4. UChar(v \div p) \in Nat
    BY <2>3, ByteRange
  <2>. QED
    BY <2>4 DEF ByteOf, p, e
<1>3. bytes \in Seq(Nat)
  BY <1>1, <1>2
<1>4. bits \in Seq(Nat)
  <2>1. ASSUME NEW x \in 1 .. rest PROVE BitOf(ByteOf(v, whole), rest - x) \in Nat
    <3>1. ByteOf(v, whole) \in Nat /\ rest - x \in Nat
      BY <1>1, <1>2
    <3>. QED
      BY <3>1, BitRange
  <2>. QED
    BY <1>1, <2>1
<1>5. PutBitsNum(v, count, s) = PutAll(bytes, bits, s)
  BY DEF PutBitsNum, whole, rest
<1>. QED
  BY <1>3, <1>4, <1>5, PutAllType

(* What GetAll has got so far, after k of its steps: at most m bytes, and    *)
(* the bits of the last one.                                                 *)
Gatherings == [s : Streams, bytes : Seq(Byte), last : Nat]
Gathered(m) == {a \in Gatherings : Len(a.bytes) <= m}

CharGot(t, x) ==
  LET u == GetChar(t.s)
  IN IF t.s.ok THEN [t EXCEPT !.s = u, !.bytes = Append(@, u.val)] ELSE t
BitGot(t, x) ==
  LET u == GetBit(t.s)
  IN IF t.s.ok THEN [t EXCEPT !.s = u, !.last = 2 * @ + u.val] ELSE t

(* A byte more is got, or nothing.                                           *)
LEMMA CharGotStep ==
  ASSUME NEW m \in Nat, NEW a \in Gathered(m), NEW x
  PROVE  CharGot(a, x) \in Gathered(m + 1) /\ CharGot(a, x).last = a.last
<1>. DEFINE u == GetChar(a.s)
            b == Append(a.bytes, u.val)
<1>1. a.s \in Streams /\ a.bytes \in Seq(Byte) /\ Len(a.bytes) <= m
  BY DEF Gathered, Gatherings
<1>2. u \in Streams /\ u.val \in Byte
  BY <1>1, GetCharType
<1>. HIDE DEF u
<1>3. b \in Seq(Byte) /\ Len(b) = Len(a.bytes) + 1 /\ Len(a.bytes) \in Nat
  BY <1>1, <1>2, AppendProperties
<1>4. CharGot(a, x) = IF a.s.ok THEN [a EXCEPT !.s = u, !.bytes = b] ELSE a
  BY DEF CharGot, u
<1>. HIDE DEF b
<1>5. [a EXCEPT !.s = u, !.bytes = b] \in Gathered(m + 1)
  <2>1. [a EXCEPT !.s = u, !.bytes = b] \in Gatherings
    BY <1>2, <1>3 DEF Gathered, Gatherings
  <2>2. [a EXCEPT !.s = u, !.bytes = b].bytes = b
    BY DEF Gathered, Gatherings
  <2>3. Len(b) <= m + 1
    BY <1>1, <1>3
  <2>. QED
    BY <2>1, <2>2, <2>3 DEF Gathered
<1>6. a \in Gathered(m + 1)
  BY <1>1, <1>3 DEF Gathered, Gatherings
<1>7. [a EXCEPT !.s = u, !.bytes = b].last = a.last
  BY DEF Gathered, Gatherings
<1>. QED
  BY <1>4, <1>5, <1>6, <1>7

(* A bit more doubles what was got, at most plus one.                        *)
LEMMA BitGotStep ==
  ASSUME NEW m \in Nat, NEW a \in Gathered(m), NEW x
  PROVE  /\ BitGot(a, x) \in Gathered(m)
         /\ BitGot(a, x).last \in 0 .. 2 * a.last + 1
<1>. DEFINE u == GetBit(a.s)
            e == 2 * a.last + u.val
<1>1. a.s \in Streams /\ a.last \in Nat
  BY DEF Gathered, Gatherings
<1>2. u \in Streams /\ u.val \in {0, 1}
  BY <1>1, GetBitType
<1>. HIDE DEF u
<1>3. e \in Nat /\ e \in 0 .. 2 * a.last + 1 /\ a.last \in 0 .. 2 * a.last + 1
  BY <1>1, <1>2
<1>4. BitGot(a, x) = IF a.s.ok THEN [a EXCEPT !.s = u, !.last = e] ELSE a
  BY DEF BitGot, u
<1>. HIDE DEF e
<1>5. [a EXCEPT !.s = u, !.last = e] \in Gathered(m)
  BY <1>2, <1>3 DEF Gathered, Gatherings
<1>6. [a EXCEPT !.s = u, !.last = e].last = e
  BY DEF Gathered, Gatherings
<1>. QED
  BY <1>3, <1>4, <1>5, <1>6

(* The loop of BitFileGetBitsNum over whole bytes: what is in W[0] at first  *)
(* and, after each byte, in the next of these sets is in the last in the end. *)
LEMMA CharsGotFrom ==
  ASSUME NEW n \in Nat, NEW base \in Gatherings, NEW W, base \in W[0],
         \A k \in 1 .. n : \A a \in Gatherings \cap W[k - 1] : CharGot(a, k) \in W[k]
  PROVE  FoldLeft(CharGot, base, [x \in 1 .. n |-> x]) \in Gatherings \cap W[n]
<1>. DEFINE seq == [x \in 1 .. n |-> x]
<1>. DEFINE T == 1 .. n
            op(x, t) == CharGot(t, seq[x])
            Is(h) == h = [S \in SUBSET T |-> IF S = {} THEN base
                                             ELSE op(Max(S), h[S \ {Max(S)}])]
            g == [p \in T \X Gatherings |-> op(p[1], p[2])]
            H == CHOOSE x : Is(x)
            V == [k \in 0 .. n |-> Gatherings \cap W[k]]
<1>1. n \in Nat /\ DOMAIN seq = 1 .. n /\ \A x \in 1 .. n : seq[x] = x
  OBVIOUS
<1>. HIDE DEF seq
<1>2. \A x \in T, t \in Gatherings : op(x, t) \in Gatherings
  <2>1. ASSUME NEW x \in T, NEW t \in Gatherings PROVE CharGot(t, seq[x]) \in Gatherings
    <3>1. Len(t.bytes) \in Nat /\ t \in Gathered(Len(t.bytes))
      BY DEF Gathered, Gatherings
    <3>. QED
      BY <3>1, CharGotStep DEF Gathered
  <2>. QED
    BY <2>1
<1>3. FoldLeft(CharGot, base, seq) = H[T]
  BY <1>1 DEF FoldLeft, MapThenFoldSet
<1>4. \A k \in 1 .. n : \A t \in Gatherings \cap W[k - 1] : op(k, t) \in W[k]
  BY <1>1
<1>. HIDE DEF op
<1>5. \A x \in T, t \in Gatherings : g[<<x, t>>] = op(x, t) /\ g[<<x, t>>] \in Gatherings
  BY <1>2
<1>. HIDE DEF g
<1>6. \E h : Is(h)
  <2>1. PICK h \in [SUBSET T -> Gatherings] : IsLeftFold(h, g, base, n)
    <3>1. \A x \in 1 .. n, t \in Gatherings : g[<<x, t>>] \in Gatherings
      BY <1>5
    <3>. QED
      BY <1>1, <3>1, LeftFoldExists
  <2>2. ASSUME NEW S \in SUBSET T, S # {} PROVE Max(S) \in T
    <3>1. S \in SUBSET (0 .. n)
      BY <1>1
    <3>. QED
      BY <1>1, <2>2, <3>1, MaxIn
  <2>3. ASSUME NEW S \in SUBSET T, S # {}
        PROVE  h[S] = op(Max(S), h[S \ {Max(S)}])
    BY <1>5, <2>1, <2>2, <2>3 DEF IsLeftFold
  <2>4. Is(h)
    BY <2>1, <2>3 DEF IsLeftFold
  <2>. QED
    BY <2>4
<1>7. Is(H)
  BY <1>6
<1>8. \A S \in SUBSET T : H[S] = IF S = {} THEN base ELSE op(Max(S), H[S \ {Max(S)}])
  BY <1>7
<1>. HIDE DEF H
<1>9. H[1 .. 0] \in V[0]
  <2>1. 1 .. 0 = {} /\ {} \in SUBSET T
    BY <1>1
  <2>2. H[1 .. 0] = base
    BY <1>8, <2>1
  <2>. QED
    BY <1>1, <2>2
<1>10. ASSUME NEW k \in 1 .. n, H[1 .. (k - 1)] \in V[k - 1] PROVE H[1 .. k] \in V[k]
  <2>1. /\ 1 .. k \in SUBSET T /\ 1 .. k # {}
        /\ Max(1 .. k) = k /\ (1 .. k) \ {k} = 1 .. (k - 1)
    BY <1>1, PrefixSteps
  <2>2. H[1 .. k] = op(Max(1 .. k), H[(1 .. k) \ {Max(1 .. k)}])
    BY <1>8, <2>1
  <2>3. H[1 .. k] = op(k, H[1 .. (k - 1)])
    BY <2>1, <2>2
  <2>4. k \in 0 .. n /\ k - 1 \in 0 .. n /\ k \in T
    BY <1>1
  <2>5. H[1 .. (k - 1)] \in Gatherings \cap W[k - 1]
    BY <1>10, <2>4
  <2>. QED
    BY <1>2, <1>4, <2>3, <2>4, <2>5
<1>. HIDE DEF V
<1>11. H[T] \in V[n]
  BY <1>1, <1>9, <1>10, PrefixInduction
<1>12. n \in 0 .. n
  BY <1>1
<1>. QED
  BY <1>3, <1>11, <1>12 DEF V, seq

(* Its loop over the bits of the last byte: the same.                        *)
LEMMA BitsGotFrom ==
  ASSUME NEW n \in Nat, NEW base \in Gatherings, NEW W, base \in W[0],
         \A k \in 1 .. n : \A a \in Gatherings \cap W[k - 1] : BitGot(a, k) \in W[k]
  PROVE  FoldLeft(BitGot, base, [x \in 1 .. n |-> x]) \in Gatherings \cap W[n]
<1>. DEFINE seq == [x \in 1 .. n |-> x]
<1>. DEFINE T == 1 .. n
            op(x, t) == BitGot(t, seq[x])
            Is(h) == h = [S \in SUBSET T |-> IF S = {} THEN base
                                             ELSE op(Max(S), h[S \ {Max(S)}])]
            g == [p \in T \X Gatherings |-> op(p[1], p[2])]
            H == CHOOSE x : Is(x)
            V == [k \in 0 .. n |-> Gatherings \cap W[k]]
<1>1. n \in Nat /\ DOMAIN seq = 1 .. n /\ \A x \in 1 .. n : seq[x] = x
  OBVIOUS
<1>. HIDE DEF seq
<1>2. \A x \in T, t \in Gatherings : op(x, t) \in Gatherings
  <2>1. ASSUME NEW x \in T, NEW t \in Gatherings PROVE BitGot(t, seq[x]) \in Gatherings
    <3>1. Len(t.bytes) \in Nat /\ t \in Gathered(Len(t.bytes))
      BY DEF Gathered, Gatherings
    <3>. QED
      BY <3>1, BitGotStep DEF Gathered
  <2>. QED
    BY <2>1
<1>3. FoldLeft(BitGot, base, seq) = H[T]
  BY <1>1 DEF FoldLeft, MapThenFoldSet
<1>4. \A k \in 1 .. n : \A t \in Gatherings \cap W[k - 1] : op(k, t) \in W[k]
  BY <1>1
<1>. HIDE DEF op
<1>5. \A x \in T, t \in Gatherings : g[<<x, t>>] = op(x, t) /\ g[<<x, t>>] \in Gatherings
  BY <1>2
<1>. HIDE DEF g
<1>6. \E h : Is(h)
  <2>1. PICK h \in [SUBSET T -> Gatherings] : IsLeftFold(h, g, base, n)
    <3>1. \A x \in 1 .. n, t \in Gatherings : g[<<x, t>>] \in Gatherings
      BY <1>5
    <3>. QED
      BY <1>1, <3>1, LeftFoldExists
  <2>2. ASSUME NEW S \in SUBSET T, S # {} PROVE Max(S) \in T
    <3>1. S \in SUBSET (0 .. n)
      BY <1>1
    <3>. QED
      BY <1>1, <2>2, <3>1, MaxIn
  <2>3. ASSUME NEW S \in SUBSET T, S # {}
        PROVE  h[S] = op(Max(S), h[S \ {Max(S)}])
    BY <1>5, <2>1, <2>2, <2>3 DEF IsLeftFold
  <2>4. Is(h)
    BY <2>1, <2>3 DEF IsLeftFold
  <2>. QED
    BY <2>4
<1>7. Is(H)
  BY <1>6
<1>8. \A S \in SUBSET T : H[S] = IF S = {} THEN base ELSE op(Max(S), H[S \ {Max(S)}])
  BY <1>7
<1>. HIDE DEF H
<1>9. H[1 .. 0] \in V[0]
  <2>1. 1 .. 0 = {} /\ {} \in SUBSET T
    BY <1>1
  <2>2. H[1 .. 0] = base
    BY <1>8, <2>1
  <2>. QED
    BY <1>1, <2>2
<1>10. ASSUME NEW k \in 1 .. n, H[1 .. (k - 1)] \in V[k - 1] PROVE H[1 .. k] \in V[k]
  <2>1. /\ 1 .. k \in SUBSET T /\ 1 .. k # {}
        /\ Max(1 .. k) = k /\ (1 .. k) \ {k} = 1 .. (k - 1)
    BY <1>1, PrefixSteps
  <2>2. H[1 .. k] = op(Max(1 .. k), H[(1 .. k) \ {Max(1 .. k)}])
    BY <1>8, <2>1
  <2>3. H[1 .. k] = op(k, H[1 .. (k - 1)])
    BY <2>1, <2>2
  <2>4. k \in 0 .. n /\ k - 1 \in 0 .. n /\ k \in T
    BY <1>1
  <2>5. H[1 .. (k - 1)] \in Gatherings \cap W[k - 1]
    BY <1>10, <2>4
  <2>. QED
    BY <1>2, <1>4, <2>3, <2>4, <2>5
<1>. HIDE DEF V
<1>11. H[T] \in V[n]
  BY <1>1, <1>9, <1>10, PrefixInduction
<1>12. n \in 0 .. n
  BY <1>1
<1>. QED
  BY <1>3, <1>11, <1>12 DEF V, seq

(* After the loop over whole bytes there are at most as many of them.        *)
LEMMA CharsGotType ==
  ASSUME NEW n \in Nat, NEW base \in Gathered(0), base.last = 0
  PROVE  FoldLeft(CharGot, base, [x \in 1 .. n |-> x]) \in {a \in Gathered(n) : a.last = 0}
<1>. DEFINE W == [k \in 0 .. n |-> {a \in Gathered(k) : a.last = 0}]
<1>1. base \in Gatherings /\ base \in W[0] /\ W[n] = {a \in Gathered(n) : a.last = 0}
  BY DEF Gathered
<1>2. ASSUME NEW k \in 1 .. n, NEW a \in Gatherings \cap W[k - 1]
      PROVE  CharGot(a, k) \in W[k]
  <2>1. k \in 0 .. n /\ k - 1 \in 0 .. n /\ k - 1 \in Nat /\ (k - 1) + 1 = k
    OBVIOUS
  <2>2. a \in Gathered(k - 1) /\ a.last = 0
    BY <1>2, <2>1
  <2>. QED
    BY <2>1, <2>2, CharGotStep
<1>. HIDE DEF W
<1>. QED
  BY <1>1, <1>2, CharsGotFrom

(* After the loop over n bits the last byte is below 2 ^ n.                  *)
LEMMA BitsGotType ==
  ASSUME NEW n \in Nat, NEW m \in Nat, NEW base \in Gathered(m), base.last = 0
  PROVE  FoldLeft(BitGot, base, [x \in 1 .. n |-> x]) \in {a \in Gathered(m) : a.last <= 2 ^ n - 1}
<1>. DEFINE W == [k \in 0 .. n |-> {a \in Gathered(m) : a.last <= 2 ^ k - 1}]
<1>1. base \in Gatherings /\ W[n] = {a \in Gathered(m) : a.last <= 2 ^ n - 1}
  BY DEF Gathered
<1>2. base \in W[0]
  BY PowersPositive
<1>3. ASSUME NEW k \in 1 .. n, NEW a \in Gatherings \cap W[k - 1]
      PROVE  BitGot(a, k) \in W[k]
  <2>. DEFINE p == 2 ^ (k - 1)
              q == 2 ^ k
  <2>1. k \in 0 .. n /\ k - 1 \in 0 .. n /\ k - 1 \in Nat /\ (k - 1) + 1 = k
    OBVIOUS
  <2>2. p \in Nat /\ q = p + p
    BY <2>1, PowerOfTwo
  <2>3. W[k - 1] = {x \in Gathered(m) : x.last <= p - 1}
    BY <2>1
  <2>4. W[k] = {x \in Gathered(m) : x.last <= q - 1}
    BY <2>1
  <2>. HIDE DEF W, p, q
  <2>5. a \in Gathered(m) /\ a.last <= p - 1
    BY <1>3, <2>3
  <2>6. a.last \in Nat
    BY <2>5 DEF Gathered, Gatherings
  <2>7. BitGot(a, k) \in Gathered(m) /\ BitGot(a, k).last \in 0 .. 2 * a.last + 1
    BY <2>5, BitGotStep
  <2>8. BitGot(a, k).last <= q - 1
    BY <2>2, <2>5, <2>6, <2>7
  <2>. QED
    BY <2>4, <2>7, <2>8
<1>. HIDE DEF W
<1>. QED
  BY <1>1, <1>2, <1>3, BitsGotFrom

(* Both loops of BitFileGetBitsNum: whole bytes, then the bits that are      *)
(* left.                                                                     *)
LEMMA GetAllType ==
  ASSUME NEW count \in Nat, NEW s \in Streams
  PROVE  /\ GetAll(count, s) \in Gathered(count \div ByteBits)
         /\ GetAll(count, s).last <= 2 ^ (count % ByteBits) - 1
<1>. DEFINE whole == count \div ByteBits
            rest == count % ByteBits
            start == [s |-> [s EXCEPT !.ok = TRUE], bytes |-> << >>, last |-> 0]
            mid == FoldLeft(CharGot, start, [x \in 1 .. whole |-> x])
<1>1. whole \in Nat /\ rest \in Nat
  BY ByteRange, Remainder
<1>2. GetAll(count, s) = FoldLeft(BitGot, mid, [x \in 1 .. rest |-> x])
  BY DEF GetAll, FoldLeft, MapThenFoldSet, CharGot, BitGot
<1>. HIDE DEF whole, rest
<1>3. start \in Gathered(0) /\ start.last = 0
  <2>1. [s EXCEPT !.ok = TRUE] \in Streams
    BY DEF Streams, StreamsUpTo
  <2>2. << >> \in Seq(Byte) /\ Len(<< >>) = 0
    OBVIOUS
  <2>. QED
    BY <2>1, <2>2 DEF Gathered, Gatherings
<1>. HIDE DEF start
<1>4. mid \in {a \in Gathered(whole) : a.last = 0}
  BY <1>1, <1>3, CharsGotType
<1>. HIDE DEF mid
<1>5. FoldLeft(BitGot, mid, [x \in 1 .. rest |-> x]) \in {a \in Gathered(whole) : a.last <= 2 ^ rest - 1}
  BY <1>1, <1>4, BitsGotType
<1>. QED
  BY <1>2, <1>5 DEF whole, rest

(* The number that its bytes make, the lowest byte first.                    *)
NumberFrom(c, n) == c + 2 ^ ByteBits * n

(* A number of whole bytes and r bits is below the power of two with as many *)
(* bits.                                                                     *)
LEMMA NumberRange ==
  ASSUME NEW seq \in Seq(Byte), NEW r \in Nat, NEW base \in Nat, base <= 2 ^ r - 1
  PROVE  FoldRight(NumberFrom, seq, base) \in 0 .. 2 ^ (ByteBits * Len(seq) + r) - 1
<1>. DEFINE n == Len(seq)
            bound(k) == 2 ^ (ByteBits * k + r)
<1>1. n \in Nat /\ DOMAIN seq = 1 .. n /\ \A x \in 1 .. n : seq[x] \in Byte
  OBVIOUS
<1>. HIDE DEF n
<1>. DEFINE T == 1 .. n
            op(x, t) == NumberFrom(seq[x], t)
            Is(h) == h = [S \in SUBSET T |-> IF S = {} THEN base
                                             ELSE op(Min(S), h[S \ {Min(S)}])]
            g == [p \in T \X Nat |-> op(p[1], p[2])]
            H == CHOOSE x : Is(x)
            V == [k \in 0 .. n |-> {v \in Nat : v <= bound(k) - 1}]
<1>2. \A x \in T, t \in Nat : op(x, t) \in Nat
  <2>1. ASSUME NEW x \in T, NEW t \in Nat PROVE NumberFrom(seq[x], t) \in Nat
    <3>1. seq[x] \in Nat /\ 2 ^ ByteBits \in Nat
      BY <1>1, ByteRange
    <3>2. \A c, p \in Nat : c + p * t \in Nat
      OBVIOUS
    <3>. QED
      BY <3>1, <3>2 DEF NumberFrom
  <2>. QED
    BY <2>1
<1>3. FoldRight(NumberFrom, seq, base) = H[T]
  BY <1>1 DEF FoldRight, MapThenFoldSet
<1>. HIDE DEF op
<1>4. \A x \in T, t \in Nat : g[<<x, t>>] = op(x, t) /\ g[<<x, t>>] \in Nat
  BY <1>2
<1>. HIDE DEF g
<1>5. \E h : Is(h)
  <2>1. PICK h \in [SUBSET T -> Nat] : IsRightFold(h, g, base, n)
    <3>1. \A x \in 1 .. n, t \in Nat : g[<<x, t>>] \in Nat
      BY <1>4
    <3>. QED
      BY <1>1, <3>1, RightFoldExists
  <2>2. ASSUME NEW S \in SUBSET T, S # {} PROVE Min(S) \in T
    <3>1. S \in SUBSET (0 .. n)
      BY <1>1
    <3>. QED
      BY <1>1, <2>2, <3>1, MaxIn
  <2>3. ASSUME NEW S \in SUBSET T, S # {}
        PROVE  h[S] = op(Min(S), h[S \ {Min(S)}])
    BY <1>4, <2>1, <2>2, <2>3 DEF IsRightFold
  <2>4. Is(h)
    BY <2>1, <2>3 DEF IsRightFold
  <2>. QED
    BY <2>4
<1>6. Is(H)
  BY <1>5
<1>7. \A S \in SUBSET T : H[S] = IF S = {} THEN base ELSE op(Min(S), H[S \ {Min(S)}])
  BY <1>6
<1>. HIDE DEF H
<1>8. H[(n + 1) .. n] \in V[0]
  <2>1. (n + 1) .. n = {} /\ {} \in SUBSET T
    BY <1>1
  <2>2. H[(n + 1) .. n] = base
    BY <1>7, <2>1
  <2>3. ByteBits * 0 + r = r
    BY ByteRange
  <2>4. base <= bound(0) - 1
    BY <2>3
  <2>. QED
    BY <1>1, <2>2, <2>4
<1>9. ASSUME NEW k \in 1 .. n, H[(k + 1) .. n] \in V[n - k] PROVE H[k .. n] \in V[n - k + 1]
  <2>1. /\ k .. n \in SUBSET T /\ k .. n # {}
        /\ Min(k .. n) = k /\ (k .. n) \ {k} = (k + 1) .. n
    BY <1>1, SuffixSteps
  <2>2. H[k .. n] = op(Min(k .. n), H[(k .. n) \ {Min(k .. n)}])
    BY <1>7, <2>1
  <2>3. H[k .. n] = op(k, H[(k + 1) .. n])
    BY <2>1, <2>2
  <2>. DEFINE v == H[(k + 1) .. n]
              j == n - k
              c == seq[k]
              m == 2 ^ ByteBits
              p == bound(j)
              q == bound(j + 1)
  <2>4. k \in T /\ j \in Nat /\ j \in 0 .. n /\ j + 1 \in 0 .. n /\ c \in Byte
    BY <1>1
  <2>5. m \in Nat /\ c \in Nat /\ c <= m - 1
    BY <2>4, ByteRange DEF Byte
  <2>6. p \in Nat /\ q = m * p
    <3>. HIDE DEF j
    <3>. DEFINE e == ByteBits * j + r
    <3>1. ByteBits * (j + 1) + r = ByteBits + e /\ e \in Nat
      <4>1. j \in Nat /\ ByteBits \in Nat /\ r \in Nat
        BY <2>4, ByteRange
      <4>2. ByteBits * (j + 1) = ByteBits * j + ByteBits /\ ByteBits * j \in Nat
        BY <4>1
      <4>. QED
        BY <4>1, <4>2
    <3>. HIDE DEF e
    <3>2. 2 ^ (ByteBits + e) = m * 2 ^ e /\ 2 ^ e \in Nat
      BY <3>1, ByteRange, PowerOfSum, PowersPositive
    <3>. QED
      BY <3>1, <3>2 DEF e
  <2>. HIDE DEF v, j, c, m, p, q
  <2>7. v \in Nat /\ v <= p - 1
    BY <1>9, <2>4 DEF v, j, p
  <2>. DEFINE w == c + m * v
  <2>8. w \in Nat /\ w <= q - 1
    <3>. DEFINE d == p - 1 - v
    <3>1. d \in Nat /\ p = v + d + 1
      BY <2>6, <2>7
    <3>. HIDE DEF d
    <3>2. q = m * v + m * d + m /\ m * d \in Nat /\ m * v \in Nat
      BY <2>5, <2>6, <2>7, <3>1
    <3>. QED
      BY <2>5, <3>2
  <2>9. w = op(k, v)
    BY DEF op, NumberFrom, m, c
  <2>. HIDE DEF w
  <2>10. w \in V[j + 1]
    BY <2>4, <2>8 DEF q
  <2>. QED
    BY <2>3, <2>9, <2>10 DEF v, j
<1>. HIDE DEF V
<1>10. H[T] \in V[n]
  BY <1>1, <1>8, <1>9, SuffixInduction
<1>11. H[T] \in Nat /\ H[T] <= bound(n) - 1
  BY <1>1, <1>10 DEF V
<1>12. bound(n) \in Nat
  <2>1. ByteBits * n + r \in Nat
    BY <1>1, ByteRange
  <2>. QED
    BY <2>1, PowersPositive
<1>. HIDE DEF T, bound
<1>13. H[T] \in 0 .. bound(n) - 1
  BY <1>11, <1>12
<1>. QED
  BY <1>3, <1>13 DEF bound, n

(* A number of count bits is below 2 ^ count, whatever is in the file.       *)
LEMMA GetBitsNumType ==
  ASSUME NEW count \in Nat, NEW s \in Streams
  PROVE  /\ GetBitsNum(count, s) \in Streams
         /\ GetBitsNum(count, s).val \in 0 .. 2 ^ count - 1
<1>. DEFINE got == GetAll(count, s)
            whole == count \div ByteBits
            rest == count % ByteBits
            l == Len(got.bytes)
            e == ByteBits * l + rest
            v == FoldRight(NumberFrom, got.bytes, got.last)
<1>1. whole \in Nat /\ rest \in Nat /\ count = ByteBits * whole + rest
  BY ByteRange, Remainder
<1>2. got \in Gathered(whole) /\ got.last <= 2 ^ rest - 1
  BY GetAllType
<1>3. GetBitsNum(count, s) = [got.s EXCEPT !.val = v]
  BY DEF GetBitsNum, FoldRight, MapThenFoldSet, NumberFrom
<1>. HIDE DEF got, whole, rest
<1>4. /\ got.s \in Streams /\ got.bytes \in Seq(Byte) /\ got.last \in Nat
      /\ l \in Nat /\ l <= whole
  BY <1>2 DEF Gathered, Gatherings
<1>5. v \in 0 .. 2 ^ e - 1
  BY <1>1, <1>2, <1>4, NumberRange
<1>. HIDE DEF v, l
<1>6. e \in Nat /\ 2 ^ e \in Nat /\ 2 ^ count \in Nat /\ 2 ^ e <= 2 ^ count
  <2>. DEFINE d == ByteBits * (whole - l)
  <2>1. whole - l \in Nat
    BY <1>1, <1>4
  <2>2. d \in Nat /\ e \in Nat /\ count = e + d
    BY <1>1, <1>4, <2>1, ByteRange
  <2>. HIDE DEF d, e
  <2>. QED
    BY <2>2, PowerOfSum, PowersPositive
<1>7. v \in Nat /\ v \in 0 .. 2 ^ count - 1
  <2>. HIDE DEF e
  <2>. QED
    BY <1>5, <1>6
<1>8. [got.s EXCEPT !.val = v] \in Streams /\ [got.s EXCEPT !.val = v].val = v
  BY <1>4, <1>7 DEF Streams, StreamsUpTo
<1>. QED
  BY <1>3, <1>7, <1>8

-------------------------------------------------------------------------------
(* The invariant. *)

IsText(t) == /\ Cardinality(DOMAIN t) \in Nat
             /\ t \in [0 .. Cardinality(DOMAIN t) - 1 -> Byte]

TypeInv ==
  /\ IsText(data)
  /\ IsText(out)
  /\ window \in [Indices -> Byte]
  /\ lookahead \in [0 .. MAX_CODED - 1 -> Byte]
  /\ match \in [offset : Indices, length : 0 .. MAX_CODED]
  /\ inPos \in Nat /\ len \in 0 .. MAX_CODED /\ i \in Nat
  /\ bf \in Streams
  /\ \A n \in DOMAIN disk : disk[n] \in Seq(Byte)

(* A process works on the files only once it has parsed its options, and it  *)
(* begins with empty buffers; what it decodes it decodes after encoding.     *)
FreshInv ==
  /\ stage \in {"parse", "options"} => pc = "fill"
  /\ pc = "fill" => window = Spaces /\ windowHead = 0 /\ uncodedHead = 0
  /\ pc \in {"fill", "match", "token", "replace", "encoded"} => out = << >>

(* The lookahead is a part of the input, and is full until its end.          *)
LookaheadInv ==
  pc \in {"match", "token", "replace"} =>
    /\ inPos <= FileSize /\ len <= inPos
    /\ inPos < FileSize => len = MAX_CODED
    /\ \A j \in 0 .. len - 1 :
         lookahead[(Consumed + j) % MAX_CODED] = data[Consumed + j]

(* Between two tokens and between two bytes of one, the encoder's window is  *)
(* what has been consumed; a token takes no more than the lookahead has.     *)
EncoderInv ==
  pc \in {"match", "token", "replace"} =>
    /\ window = History(data, Consumed)
    /\ windowHead = Consumed % WINDOW_SIZE
    /\ uncodedHead = Consumed % MAX_CODED
    /\ pc = "replace" => i <= match.length /\ match.length - i <= len

(* While it copies a string, the decoder's window stays behind the output by *)
(* the bytes copied so far, which are in the lookahead.                      *)
Behind == Written - i

DecoderInv ==
  /\ pc = "flag" => /\ window = History(out, Written)
                    /\ nextChar = Written % WINDOW_SIZE
  /\ pc = "copy" => /\ i <= match.length /\ i <= Written
                    /\ window = History(out, Behind)
                    /\ nextChar = Behind % WINDOW_SIZE
                    /\ \A j \in 0 .. i - 1 : lookahead[j] = out[Behind + j]

Inv == TypeInv /\ FreshInv /\ LookaheadInv /\ EncoderInv /\ DecoderInv

-------------------------------------------------------------------------------
(* Texts, windows and rings. *)

(* The sizes of the window and of the lookahead are positive, and a string   *)
(* fits into the window.                                                     *)
LEMMA WindowSizes ==
  /\ WINDOW_SIZE \in Nat \ {0} /\ MAX_CODED \in Nat \ {0}
  /\ MAX_CODED <= WINDOW_SIZE
  /\ OFFSET_BITS \in Nat /\ LENGTH_BITS \in Nat /\ MAX_UNCODED \in Nat
  /\ MAX_CODED = 2 ^ LENGTH_BITS + MAX_UNCODED
<1>1. OFFSET_BITS \in Nat /\ LENGTH_BITS \in Nat /\ MAX_UNCODED \in Nat
  BY WindowAssumption
<1>2. 2 ^ OFFSET_BITS \in Nat \ {0} /\ 2 ^ LENGTH_BITS \in Nat \ {0}
  BY <1>1, PowersPositive
<1>. QED
  BY <1>1, <1>2, LZSSAssumption DEF WINDOW_SIZE, MAX_CODED

(* A function of the first n numbers is a text of size n.                    *)
LEMMA TextOfSize ==
  ASSUME NEW n \in Nat, NEW t \in [0 .. n - 1 -> Byte]
  PROVE  IsText(t) /\ Cardinality(DOMAIN t) = n
<1>1. Cardinality(0 .. n - 1) = n
  <2>1. 0 \in Int /\ n - 1 \in Int
    OBVIOUS
  <2>2. Cardinality(0 .. n - 1) = IF 0 > n - 1 THEN 0 ELSE (n - 1) - 0 + 1
    BY <2>1, FS_Interval
  <2>. QED
    BY <2>2
<1>2. DOMAIN t = 0 .. n - 1
  OBVIOUS
<1>. QED
  BY <1>1, <1>2 DEF IsText

(* There is an empty text.                                                   *)
LEMMA NoText == IsText(<< >>) /\ Cardinality(DOMAIN << >>) = 0
<1>1. << >> \in [0 .. 0 - 1 -> Byte]
  <2>1. << >> \in Seq(Byte) /\ Len(<< >>) = 0
    OBVIOUS
  <2>2. << >> \in [1 .. 0 -> Byte]
    BY <2>1
  <2>3. 1 .. 0 = 0 .. 0 - 1
    OBVIOUS
  <2>. QED
    BY <2>2, <2>3
<1>. QED
  BY <1>1, TextOfSize

(* A file as the bit file has it is a text for getc, and the other way       *)
(* round.                                                                    *)
LEMMA TextAndBytes ==
  /\ \A t : IsText(t) => Bytes(t) \in Seq(Byte)
  /\ \A b \in Seq(Byte) : IsText(Text(b))
<1>1. ASSUME NEW t, IsText(t) PROVE Bytes(t) \in Seq(Byte)
  <2>. DEFINE n == Cardinality(DOMAIN t)
  <2>1. n \in Nat /\ t \in [0 .. n - 1 -> Byte]
    BY <1>1 DEF IsText
  <2>2. Bytes(t) = [x \in 1 .. n |-> t[x - 1]]
    BY DEF Bytes
  <2>. HIDE DEF n
  <2>3. \A x \in 1 .. n : t[x - 1] \in Byte
    BY <2>1
  <2>. QED
    BY <2>1, <2>2, <2>3
<1>2. ASSUME NEW b \in Seq(Byte) PROVE IsText(Text(b))
  <2>1. Text(b) \in [0 .. Len(b) - 1 -> Byte] /\ Len(b) \in Nat
    BY DEF Text
  <2>. QED
    BY <2>1, TextOfSize
<1>. QED
  BY <1>1, <1>2

(* A byte that is put out makes the text longer and leaves the rest of it    *)
(* alone.                                                                    *)
LEMMA TextAppend ==
  ASSUME NEW t, IsText(t), NEW n, n = Cardinality(DOMAIN t), NEW c \in Byte,
         NEW u, u = [x \in 0 .. n |-> IF x < n THEN t[x] ELSE c]
  PROVE  /\ IsText(u) /\ Cardinality(DOMAIN u) = n + 1
         /\ \A x \in 0 .. n - 1 : u[x] = t[x]
         /\ u[n] = c
<1>1. n \in Nat /\ t \in [0 .. n - 1 -> Byte] /\ n + 1 \in Nat /\ (n + 1) - 1 = n
  BY DEF IsText
<1>2. u \in [0 .. n -> Byte]
  BY <1>1
<1>3. IsText(u) /\ Cardinality(DOMAIN u) = n + 1
  <2>1. u \in [0 .. (n + 1) - 1 -> Byte]
    BY <1>1, <1>2
  <2>. QED
    BY <1>1, <2>1, TextOfSize
<1>. QED
  BY <1>1, <1>3

(* The positions before n that have index x of the window.                   *)
StoredAt(n, x) == {p \in 0 .. n - 1 : p % WINDOW_SIZE = x}

(* An entry of the window is a space or the last of the bytes that belong    *)
(* there.                                                                    *)
LEMMA HistoryAt ==
  ASSUME NEW t, NEW n \in Nat
  PROVE  /\ DOMAIN History(t, n) = Indices
         /\ History(t, n) = [x \in Indices |-> History(t, n)[x]]
         /\ \A x \in Indices :
              /\ StoredAt(n, x) = {} => History(t, n)[x] = Space
              /\ StoredAt(n, x) # {} => /\ History(t, n)[x] = t[Max(StoredAt(n, x))]
                                        /\ Max(StoredAt(n, x)) \in 0 .. n - 1
<1>1. History(t, n) = [x \in Indices |-> IF StoredAt(n, x) = {} THEN Space
                                         ELSE t[Max(StoredAt(n, x))]]
  BY DEF History, StoredAt
<1>2. ASSUME NEW x \in Indices, StoredAt(n, x) # {} PROVE Max(StoredAt(n, x)) \in 0 .. n - 1
  <2>1. StoredAt(n, x) \in SUBSET (0 .. n)
    BY DEF StoredAt
  <2>2. Max(StoredAt(n, x)) \in StoredAt(n, x)
    BY <1>2, <2>1, MaxIn
  <2>. QED
    BY <2>2 DEF StoredAt
<1>. QED
  BY <1>1, <1>2

(* A window depends on the bytes so far only.                                *)
LEMMA HistoryPrefix ==
  ASSUME NEW n \in Nat, NEW t, NEW u, \A p \in 0 .. n - 1 : t[p] = u[p]
  PROVE  History(t, n) = History(u, n)
<1>1. ASSUME NEW x \in Indices PROVE History(t, n)[x] = History(u, n)[x]
  BY HistoryAt
<1>. QED
  BY <1>1, HistoryAt

(* The greatest of some positions is the one that none of them exceeds.      *)
LEMMA MaxIs ==
  ASSUME NEW T \in SUBSET Nat, NEW m \in T, \A p \in T : p <= m
  PROVE  Max(T) = m
<1>1. \A x \in T : (\A y \in T : x >= y) => x = m
  OBVIOUS
<1>2. m \in T /\ \A y \in T : m >= y
  OBVIOUS
<1>. QED
  BY <1>1, <1>2 DEF Max

(* The string of up to WINDOW_SIZE bytes that follows the first n of a text  *)
(* replaces the oldest bytes of the window, each where it belongs.           *)
LEMMA HistoryString ==
  ASSUME NEW t, NEW n \in Nat, NEW k \in 0 .. WINDOW_SIZE
  PROVE  /\ \A j \in 0 .. k - 1 :
              History(t, n + k)[(n + j) % WINDOW_SIZE] = t[n + j]
         /\ \A x \in Indices :
              (\A j \in 0 .. k - 1 : x # (n + j) % WINDOW_SIZE) =>
                History(t, n + k)[x] = History(t, n)[x]
<1>. DEFINE w == WINDOW_SIZE
            m == n + k
<1>1. w \in Nat \ {0} /\ m \in Nat /\ k \in Nat /\ k <= w
  BY WindowSizes
<1>2. ASSUME NEW j \in 0 .. k - 1 PROVE History(t, m)[(n + j) % w] = t[n + j]
  <2>. DEFINE x == (n + j) % w
              S == StoredAt(m, x)
  <2>1. n + j \in Nat /\ n + j \in 0 .. m - 1 /\ x \in Indices
    <3>1. n + j \in Nat /\ n + j \in 0 .. m - 1
      BY <1>1
    <3>. HIDE DEF w
    <3>2. x \in 0 .. w - 1
      BY <1>1, <3>1, Remainder
    <3>. QED
      BY <3>1, <3>2 DEF Indices, w
  <2>2. n + j \in S /\ S \in SUBSET Nat
    BY <2>1 DEF StoredAt
  <2>3. ASSUME NEW p \in S PROVE p <= n + j
    <3>1. p \in Nat /\ p <= m - 1 /\ p % w = x
      BY <1>1 DEF StoredAt
    <3>. SUFFICES ASSUME ~ (p <= n + j) PROVE FALSE
      OBVIOUS
    <3>. DEFINE y == n + j
                d == p - y
    <3>2. d \in 1 .. w - 1 /\ d \in 0 .. w /\ p = y + d /\ y \in Nat
      BY <1>1, <2>1, <3>1
    <3>. HIDE DEF d, y, w, x
    <3>3. (y + d) % w = IF (y % w) + d < w THEN (y % w) + d ELSE (y % w) + d - w
      BY <1>1, <3>2, RemainderOfSum
    <3>4. y % w = x /\ x \in Int
      BY <1>1, <2>1, <3>2, Remainder DEF x, y
    <3>. QED
      BY <1>1, <3>1, <3>2, <3>3, <3>4
  <2>4. Max(S) = n + j
    BY <2>2, <2>3, MaxIs
  <2>5. S # {}
    BY <2>2
  <2>. HIDE DEF x, m
  <2>. QED
    BY <1>1, <2>1, <2>4, <2>5, HistoryAt DEF x
<1>3. ASSUME NEW x \in Indices, \A j \in 0 .. k - 1 : x # (n + j) % w
      PROVE  History(t, m)[x] = History(t, n)[x]
  <2>1. StoredAt(m, x) = StoredAt(n, x)
    <3>1. ASSUME NEW p \in 0 .. m - 1, p % w = x PROVE p \in 0 .. n - 1
      <4>. SUFFICES ASSUME ~ (p <= n - 1) PROVE FALSE
        OBVIOUS
      <4>1. p - n \in 0 .. k - 1 /\ n + (p - n) = p
        BY <1>1
      <4>. QED
        BY <1>3, <3>1, <4>1
    <3>2. \A p \in 0 .. n - 1 : p \in 0 .. m - 1
      BY <1>1
    <3>. QED
      BY <3>1, <3>2 DEF StoredAt
  <2>. HIDE DEF m
  <2>. QED
    BY <1>1, <2>1, HistoryAt
<1>. QED
  BY <1>2, <1>3

(* In particular one byte does.                                              *)
LEMMA HistoryNext ==
  ASSUME NEW t, NEW n \in Nat
  PROVE  History(t, n + 1) = [History(t, n) EXCEPT ![n % WINDOW_SIZE] = t[n]]
<1>1. 1 \in 0 .. WINDOW_SIZE /\ 0 .. 1 - 1 = {0} /\ n + 0 = n /\ n + 1 \in Nat
  BY WindowSizes
<1>2. /\ History(t, n + 1)[n % WINDOW_SIZE] = t[n]
      /\ \A x \in Indices : x # n % WINDOW_SIZE => History(t, n + 1)[x] = History(t, n)[x]
  BY <1>1, HistoryString
<1>. QED
  BY <1>1, <1>2, HistoryAt

(* Before the first byte the window is full of spaces.                       *)
LEMMA HistoryBefore ==
  ASSUME NEW t
  PROVE  History(t, 0) = Spaces
<1>1. \A x \in Indices : StoredAt(0, x) = {}
  BY DEF StoredAt
<1>2. \A x \in Indices : History(t, 0)[x] = Space
  BY <1>1, HistoryAt
<1>. QED
  BY <1>2, HistoryAt DEF Spaces

(* The rings: a position below twice the length is wrapped to where it is.   *)
LEMMA Wrapped ==
  ASSUME NEW d \in Nat \ {0}, NEW n \in Nat, NEW k \in 0 .. d
  PROVE  Wrap((n % d) + k, d) = (n + k) % d
<1>1. (n + k) % d = IF (n % d) + k < d THEN (n % d) + k ELSE (n % d) + k - d
  BY RemainderOfSum
<1>2. n % d \in Int
  BY Remainder
<1>. QED
  BY <1>1, <1>2 DEF Wrap

-------------------------------------------------------------------------------
(* The program around the codec. *)

(* MakeBitFile begins without buffered bits.                                 *)
LEMMA NewStream ==
  ASSUME NEW bytes \in Seq(Byte), NEW room \in Nat
  PROVE  MakeBitFile(bytes, room) \in Streams
<1>1. 0 \in 0 .. ByteBits - 1
  BY ByteRange
<1>. QED
  BY <1>1 DEF MakeBitFile, Streams, StreamsUpTo

(* The values that the buffers have at first are of their types.             *)
LEMMA EmptyBuffers ==
  /\ Spaces \in [Indices -> Byte]
  /\ [x \in 0 .. MAX_CODED - 1 |-> 0] \in [0 .. MAX_CODED - 1 -> Byte]
  /\ Match(0, 0) \in [offset : Indices, length : 0 .. MAX_CODED]
  /\ 0 \in 0 .. MAX_CODED /\ << >> \in Seq(Byte)
<1>1. Spaces \in [Indices -> Byte]
  BY LZSSAssumption DEF Spaces
<1>2. 0 \in Byte /\ 0 \in 0 .. MAX_CODED /\ 0 \in Indices
  BY ByteRange, WindowSizes DEF Indices
<1>. QED
  BY <1>1, <1>2 DEF Match

(* A step that leaves the variables of the codec alone.                      *)
LEMMA IdleStep ==
  ASSUME Inv, UNCHANGED vars,
         \A n \in DOMAIN disk' : disk'[n] \in Seq(Byte),
         stage' \in {"parse", "options"} => pc = "fill"
  PROVE  Inv'
<1>1. UNCHANGED <<data, inPos, windowHead, uncodedHead, len, window, lookahead,
                  match, i, bf, pc, nextChar, out>>
  BY DEF vars, encoder, buffers
<1>2. TypeInv'
  BY <1>1 DEF Inv, TypeInv, IsText
<1>3. FreshInv'
  BY <1>1 DEF Inv, FreshInv
<1>4. LookaheadInv' /\ EncoderInv' /\ DecoderInv'
  BY <1>1 DEF Inv, LookaheadInv, EncoderInv, DecoderInv, FileSize, Consumed, Written,
              Behind, History
<1>. QED
  BY <1>2, <1>3, <1>4 DEF Inv

(* Writing a file keeps the other ones.                                      *)
LEMMA StoredBytes ==
  ASSUME Inv, NEW name, NEW bytes \in Seq(Byte)
  PROVE  /\ DOMAIN disk \subseteq DOMAIN Stored(name, bytes)
         /\ \A n \in DOMAIN Stored(name, bytes) : Stored(name, bytes)[n] \in Seq(Byte)
BY DEF Inv, TypeInv, Stored

(* The program begins with all its variables in order.                       *)
LEMMA InvInit ==
  ASSUME ProgramInit
  PROVE  Inv
<1>. USE DEF ProgramInit, Init
<1>1. IsText(data)
  <2>1. PICK n \in Sizes : data \in [0 .. n - 1 -> Chars]
    OBVIOUS
  <2>2. n \in Nat /\ data \in [0 .. n - 1 -> Byte]
    BY <2>1, LZSSAssumption
  <2>. QED
    BY <2>2, TextOfSize
<1>2. bf \in Streams
  <2>1. PICK room \in Rooms : bf = MakeBitFile(<< >>, room)
    OBVIOUS
  <2>2. room \in Nat
    BY LZSSAssumption
  <2>. QED
    BY <2>1, <2>2, NewStream, EmptyBuffers
<1>3. \A n \in DOMAIN disk : disk[n] \in Seq(Byte)
  BY <1>1, TextAndBytes
<1>4. TypeInv
  BY <1>1, <1>2, <1>3, NoText, EmptyBuffers DEF TypeInv
<1>5. FreshInv /\ LookaheadInv /\ EncoderInv /\ DecoderInv
  BY DEF FreshInv, LookaheadInv, EncoderInv, DecoderInv
<1>. QED
  BY <1>4, <1>5 DEF Inv

(* A new process begins as the first one did, but for the files.             *)
LEMMA CallStep ==
  ASSUME Inv, Call
  PROVE  Inv'
<1>. USE DEF Call
<1>1. bf' \in Streams
  <2>1. bf.room \in Nat
    BY DEF Inv, TypeInv, Streams, StreamsUpTo
  <2>. QED
    BY <2>1, NewStream, EmptyBuffers
<1>2. lookahead' = [x \in 0 .. MAX_CODED - 1 |-> 0]
  BY DEF Inv, TypeInv
<1>3. TypeInv'
  BY <1>1, <1>2, NoText, EmptyBuffers DEF Inv, TypeInv, IsText
<1>4. (FreshInv /\ LookaheadInv /\ EncoderInv /\ DecoderInv)'
  BY DEF FreshInv, LookaheadInv, EncoderInv, DecoderInv
<1>. QED
  BY <1>3, <1>4 DEF Inv

(* The options are only read and processed while nothing is encoded.         *)
LEMMA OptionStep ==
  ASSUME Inv, Parse \/ SetMode \/ SetName \/ NoArgument \/ Help
  PROVE  Inv'
<1>1. /\ UNCHANGED vars /\ UNCHANGED disk
      /\ stage \in {"parse", "options"}
  BY DEF Parse, SetMode, SetName, NoArgument, Help, Option
<1>2. pc = "fill" /\ \A n \in DOMAIN disk' : disk'[n] \in Seq(Byte)
  BY <1>1 DEF Inv, TypeInv, FreshInv
<1>. QED
  BY <1>1, <1>2, IdleStep

(* The encoder's input is a file as it is after the output was opened,       *)
(* perhaps empty.                                                            *)
LEMMA OpenForEncoderStep ==
  ASSUME Inv, OpenForEncoder
  PROVE  Inv'
<1>. USE DEF OpenForEncoder, OptionsDone
<1>1. pc = "fill"
  BY DEF Inv, FreshInv
<1>2. \A n \in DOMAIN disk' : disk'[n] \in Seq(Byte)
  BY StoredBytes, EmptyBuffers
<1>3. inName \in DOMAIN disk'
  <2>1. inName \in DOMAIN disk
    BY DEF InputOpens
  <2>. QED
    BY <2>1, StoredBytes, EmptyBuffers
<1>4. IsText(data')
  BY <1>2, <1>3, TextAndBytes
<1>5. UNCHANGED <<inPos, windowHead, uncodedHead, len, window, lookahead, match, i, bf,
                  pc, nextChar, out>>
  BY DEF codec, encoder, buffers
<1>6. TypeInv'
  BY <1>2, <1>4, <1>5 DEF Inv, TypeInv, IsText
<1>7. (FreshInv /\ LookaheadInv /\ EncoderInv /\ DecoderInv)'
  BY <1>1, <1>5 DEF Inv, FreshInv, LookaheadInv, EncoderInv, DecoderInv
<1>. QED
  BY <1>6, <1>7 DEF Inv

(* The decoder's input is any file, whatever its bytes.                      *)
LEMMA OpenForDecoderStep ==
  ASSUME Inv, OpenForDecoder
  PROVE  Inv'
<1>. USE DEF OpenForDecoder, OptionsDone
<1>1. pc = "fill" /\ pc' = "encoded"
  BY DEF Inv, FreshInv
<1>2. \A n \in DOMAIN disk' : disk'[n] \in Seq(Byte)
  BY StoredBytes, EmptyBuffers
<1>3. disk'[inName] \in Seq(Byte)
  <2>1. inName \in DOMAIN disk
    BY DEF InputOpens
  <2>. QED
    BY <1>2, <2>1, StoredBytes, EmptyBuffers
<1>4. bf' \in Streams
  <2>1. bf.room \in Nat
    BY DEF Inv, TypeInv, Streams, StreamsUpTo
  <2>. QED
    BY <1>3, <2>1, NewStream
<1>5. UNCHANGED <<data, inPos, windowHead, uncodedHead, len, window, lookahead, match, i,
                  nextChar, out>>
  BY DEF encoder, buffers
<1>6. TypeInv'
  BY <1>2, <1>4, <1>5 DEF Inv, TypeInv, IsText
<1>7. (FreshInv /\ LookaheadInv /\ EncoderInv /\ DecoderInv)'
  BY <1>1, <1>5 DEF Inv, FreshInv, LookaheadInv, EncoderInv, DecoderInv
<1>. QED
  BY <1>6, <1>7 DEF Inv

(* What is written to a file is what the bit file or the decoder has.        *)
LEMMA FileStep ==
  ASSUME Inv, CannotOpen \/ CloseEncoded \/ CloseDecoded
  PROVE  Inv'
<1>1. UNCHANGED vars /\ stage' \notin {"parse", "options"}
  BY DEF CannotOpen, CloseEncoded, CloseDecoded
<1>2. bf.file \in Seq(Byte) /\ Bytes(out) \in Seq(Byte) /\ << >> \in Seq(Byte)
  BY TextAndBytes, EmptyBuffers DEF Inv, TypeInv, Streams, StreamsUpTo
<1>3. CASE CannotOpen
  <2>1. \A n \in DOMAIN disk' : disk'[n] \in Seq(Byte)
    BY <1>2, <1>3, StoredBytes DEF CannotOpen, Inv, TypeInv
  <2>. QED
    BY <1>1, <2>1, IdleStep
<1>4. CASE CloseEncoded
  <2>1. \A n \in DOMAIN disk' : disk'[n] \in Seq(Byte)
    <3>1. CASE mode = "TEST"
      BY <1>2, <1>4, <3>1 DEF CloseEncoded, Inv, TypeInv
    <3>2. CASE mode # "TEST"
      BY <1>2, <1>4, <3>2, StoredBytes DEF CloseEncoded
    <3>. QED
      BY <3>1, <3>2
  <2>. QED
    BY <1>1, <2>1, IdleStep
<1>5. CASE CloseDecoded
  <2>1. \A n \in DOMAIN disk' : disk'[n] \in Seq(Byte)
    BY <1>2, <1>5, StoredBytes DEF CloseDecoded
  <2>. QED
    BY <1>1, <2>1, IdleStep
<1>. QED
  BY <1>3, <1>4, <1>5

-------------------------------------------------------------------------------
(* The encoder. *)

(* The minimum of two numbers is the smaller one.                            *)
LEMMA SmallerOf ==
  ASSUME NEW a \in Nat, NEW b \in Nat
  PROVE  Min({a, b}) = IF a <= b THEN a ELSE b
<1>. DEFINE m == IF a <= b THEN a ELSE b
<1>1. m \in {a, b} /\ \A y \in {a, b} : m <= y
  OBVIOUS
<1>. HIDE DEF m
<1>2. m \in Int /\ \A x \in {a, b} : (\A y \in {a, b} : x <= y) => x = m
  BY <1>1
<1>. QED
  BY <1>1, <1>2 DEF Min, m

(* The lookahead is filled from the beginning of the input.                  *)
LEMMA FillLookaheadStep ==
  ASSUME Inv, stage = "encode", UNCHANGED <<disk, stage>>, FillLookahead
  PROVE  Inv'
<1>. USE DEF FillLookahead
<1>. DEFINE N == MAX_CODED
            l == Min({N, FileSize})
<1>1. N \in Nat \ {0} /\ FileSize \in Nat /\ data \in [0 .. FileSize - 1 -> Byte]
  BY WindowSizes DEF Inv, TypeInv, IsText, FileSize
<1>2. l \in 0 .. N /\ l <= FileSize /\ (l < FileSize => l = N)
  <2>. HIDE DEF N
  <2>1. l = IF N <= FileSize THEN N ELSE FileSize
    BY <1>1, SmallerOf
  <2>. QED
    BY <1>1, <2>1
<1>3. len' = l /\ inPos' = l
  OBVIOUS
<1>4. /\ lookahead' = [x \in 0 .. N - 1 |-> IF x < l THEN data[x] ELSE lookahead[x]]
      /\ lookahead \in [0 .. N - 1 -> Byte]
  BY DEF Inv, TypeInv
<1>5. /\ UNCHANGED <<data, window, windowHead, uncodedHead, match, i, bf, nextChar, out>>
      /\ pc' \in {"encoded", "match"} /\ pc = "fill"
  OBVIOUS
<1>. HIDE DEF l, N
<1>6. lookahead' \in [0 .. N - 1 -> Byte]
  <2>1. \A x \in 0 .. N - 1 : x < l => data[x] \in Byte
    BY <1>1, <1>2
  <2>. QED
    BY <1>4, <2>1
<1>7. TypeInv'
  <2>1. inPos' \in Nat /\ len' \in 0 .. N
    BY <1>1, <1>2, <1>3
  <2>. QED
    BY <1>5, <1>6, <2>1 DEF Inv, TypeInv, IsText, N
<1>8. FreshInv'
  BY <1>5 DEF Inv, FreshInv
<1>9. Consumed' = 0 /\ 0 % N = 0 /\ 0 % WINDOW_SIZE = 0
  <2>1. l - l = 0
    BY <1>1, <1>2
  <2>2. \A d \in Nat \ {0} : 0 % d = 0
    OBVIOUS
  <2>. QED
    BY <1>1, <1>3, <2>1, <2>2, WindowSizes DEF Consumed
<1>10. LookaheadInv'
  <2>1. FileSize' = FileSize
    BY <1>5 DEF FileSize
  <2>2. ASSUME NEW j \in 0 .. len' - 1
        PROVE  lookahead'[(0 + j) % N] = data'[0 + j]
    <3>1. j \in 0 .. N - 1 /\ j < l /\ 0 + j = j
      BY <1>1, <1>2, <1>3
    <3>2. j % N = j
      BY <1>1, <3>1
    <3>. QED
      BY <1>4, <1>5, <3>1, <3>2
  <2>3. inPos' <= FileSize /\ len' <= inPos' /\ (inPos' < FileSize => len' = N)
    BY <1>1, <1>2, <1>3
  <2>. QED
    BY <1>9, <2>1, <2>2, <2>3 DEF LookaheadInv, N
<1>11. EncoderInv'
  <2>1. window = Spaces /\ windowHead = 0 /\ uncodedHead = 0
    BY <1>5 DEF Inv, FreshInv
  <2>2. History(data', Consumed') = Spaces
    BY <1>9, HistoryBefore
  <2>3. History(data, Consumed)' = History(data', Consumed')
    BY DEF History
  <2>. QED
    BY <1>5, <1>9, <2>1, <2>2, <2>3 DEF EncoderInv, N
<1>12. DecoderInv'
  BY <1>5 DEF DecoderInv
<1>. QED
  BY <1>7, <1>8, <1>10, <1>11, <1>12 DEF Inv

(* Nothing but the match, the bit file and the index of the loop changes.    *)
LEMMA TokenStep ==
  ASSUME Inv, stage = "encode", UNCHANGED <<disk, stage, data, encoder, buffers, nextChar, out>>,
         pc \in {"match", "token", "replace"},
         pc' \in {"match", "token", "replace", "encoded"},
         bf' \in Streams, i' \in Nat,
         match' \in [offset : Indices, length : 0 .. MAX_CODED],
         pc' = "replace" => i' <= match'.length /\ match'.length - i' <= len
  PROVE  Inv'
<1>1. UNCHANGED <<data, inPos, windowHead, uncodedHead, len, window, lookahead, nextChar, out,
                  disk, stage>>
  BY DEF encoder, buffers
<1>2. TypeInv'
  BY <1>1 DEF Inv, TypeInv, IsText
<1>3. FreshInv'
  BY <1>1 DEF Inv, FreshInv
<1>4. LookaheadInv'
  BY <1>1 DEF Inv, LookaheadInv, FileSize, Consumed
<1>5. EncoderInv'
  BY <1>1 DEF Inv, EncoderInv, Consumed, History
<1>6. DecoderInv'
  BY <1>1 DEF DecoderInv
<1>. QED
  BY <1>2, <1>3, <1>4, <1>5, <1>6 DEF Inv

(* Whatever the matcher finds, it changes neither the window nor the         *)
(* lookahead.                                                                *)
LEMMA FindMatchStep ==
  ASSUME Inv, stage = "encode", UNCHANGED <<disk, stage>>, FindMatch
  PROVE  Inv'
<1>. USE DEF FindMatch
<1>1. match' \in [offset : Indices, length : 0 .. MAX_CODED]
  <2>1. MAX_UNCODED + 1 .. MAX_CODED \subseteq 0 .. MAX_CODED
    BY WindowSizes
  <2>. QED
    BY <2>1, EmptyBuffers DEF Matches
<1>2. bf' \in Streams /\ i' \in Nat
  BY DEF Inv, TypeInv
<1>. QED
  BY <1>1, <1>2, TokenStep

(* A token stands for at most as many bytes as the lookahead has.            *)
LEMMA PutTokenStep ==
  ASSUME Inv, stage = "encode", UNCHANGED <<disk, stage>>,
         NEW length \in 0 .. MAX_CODED, length <= len, NEW after \in Streams,
         PutToken(length, after)
  PROVE  Inv'
<1>. USE DEF PutToken
<1>1. /\ match' \in [offset : Indices, length : 0 .. MAX_CODED]
      /\ match'.length = length
  BY DEF Inv, TypeInv
<1>2. 0 <= length /\ length - 0 = length /\ length \in Int
  BY WindowSizes
<1>. QED
  BY <1>1, <1>2, TokenStep

(* The length of a token is at most that of the lookahead.                   *)
LEMMA MatchLengthRange ==
  ASSUME Inv
  PROVE  MatchLength \in 0 .. MAX_CODED /\ MatchLength <= len
<1>1. match.length \in 0 .. MAX_CODED /\ len \in 0 .. MAX_CODED /\ MAX_CODED \in Nat
  BY WindowSizes DEF Inv, TypeInv
<1>. DEFINE a == match.length
<1>. HIDE DEF a
<1>2. a \in Nat /\ len \in Nat /\ a <= MAX_CODED
  BY <1>1 DEF a
<1>3. Min({a, len}) = IF a <= len THEN a ELSE len
  BY <1>2, SmallerOf
<1>4. Min({a, len}) \in 0 .. MAX_CODED /\ Min({a, len}) <= len
  BY <1>1, <1>2, <1>3
<1>. QED
  BY <1>4 DEF MatchLength, a

(* The token for one byte.                                                   *)
LEMMA PutUncodedStep ==
  ASSUME Inv, stage = "encode", UNCHANGED <<disk, stage>>, PutUncoded
  PROVE  Inv'
<1>. DEFINE c == lookahead[uncodedHead]
            flag == PutBit(UNCODED, bf)
            after == PutChar(c, flag)
<1>1. PutToken(1, after)
  BY DEF PutUncoded
<1>2. pc = "token" /\ len > 0
  BY <1>1 DEF PutToken
<1>3. c \in Nat
  <2>1. uncodedHead = Consumed % MAX_CODED
    BY <1>2 DEF Inv, EncoderInv
  <2>2. Consumed \in Nat
    BY <1>2 DEF Consumed, Inv, LookaheadInv, TypeInv
  <2>3. uncodedHead \in 0 .. MAX_CODED - 1
    BY <2>1, <2>2, WindowSizes, Remainder
  <2>4. c \in Byte
    BY <2>3 DEF Inv, TypeInv
  <2>. HIDE DEF c
  <2>. QED
    BY <2>4, ByteRange
<1>. HIDE DEF c
<1>4. flag \in Streams
  BY PutBitType DEF Inv, TypeInv
<1>. HIDE DEF flag
<1>5. after \in Streams
  BY <1>3, <1>4, PutCharType
<1>. HIDE DEF after
<1>6. 1 \in 0 .. MAX_CODED /\ 1 <= len
  BY <1>2, WindowSizes DEF Inv, TypeInv
<1>. QED
  BY <1>1, <1>5, <1>6, PutTokenStep

(* The token for a string.                                                   *)
LEMMA PutEncodedStep ==
  ASSUME Inv, stage = "encode", UNCHANGED <<disk, stage>>, PutEncoded
  PROVE  Inv'
<1>. DEFINE flag == PutBit(ENCODED, bf)
            offset == PutBitsNum(match.offset, OFFSET_BITS, flag)
            e == MatchLength - (MAX_UNCODED + 1)
            after == PutBitsNum(e, LENGTH_BITS, offset)
<1>1. PutToken(MatchLength, after) /\ MatchLength > MAX_UNCODED
  BY DEF PutEncoded
<1>2. MatchLength \in 0 .. MAX_CODED /\ MatchLength <= len
  BY MatchLengthRange
<1>3. flag \in Streams
  BY PutBitType DEF Inv, TypeInv
<1>. HIDE DEF flag
<1>4. match.offset \in Nat
  BY DEF Inv, TypeInv, Indices
<1>5. offset \in Streams
  BY <1>3, <1>4, PutBitsNumType, WindowSizes
<1>. HIDE DEF offset
<1>6. e \in Nat
  BY <1>1, <1>2, WindowSizes
<1>. HIDE DEF e
<1>7. after \in Streams
  BY <1>5, <1>6, PutBitsNumType, WindowSizes
<1>. HIDE DEF after
<1>. QED
  BY <1>1, <1>2, <1>7, PutTokenStep

(* After the last byte of a token the next match is searched for.            *)
LEMMA EndOfReplacingStep ==
  ASSUME Inv, stage = "encode", UNCHANGED <<disk, stage>>, EndOfReplacing
  PROVE  Inv'
BY TokenStep DEF EndOfReplacing, Inv, TypeInv

(* Encoding ends with an empty lookahead.                                    *)
LEMMA EndOfEncodingStep ==
  ASSUME Inv, stage = "encode", UNCHANGED <<disk, stage>>, EndOfEncoding
  PROVE  Inv'
<1>. USE DEF EndOfEncoding
<1>1. bf' \in Streams
  BY FlushOutputType DEF Inv, TypeInv
<1>2. UNCHANGED <<data, inPos, windowHead, uncodedHead, len, window, lookahead, match, i,
                  nextChar, out, disk, stage>>
  BY DEF buffers
<1>3. TypeInv'
  BY <1>1, <1>2 DEF Inv, TypeInv, IsText
<1>4. (FreshInv /\ LookaheadInv /\ EncoderInv /\ DecoderInv)'
  BY <1>2 DEF Inv, FreshInv, LookaheadInv, EncoderInv, DecoderInv
<1>. QED
  BY <1>3, <1>4 DEF Inv

(* A byte of the lookahead follows what the window has.                      *)
LEMMA ShiftStep ==
  ASSUME Inv, Shift
  PROVE  /\ len \in 1 .. MAX_CODED /\ Consumed \in Nat
         /\ lookahead[uncodedHead] = data[Consumed]
         /\ window' \in [Indices -> Byte]
         /\ window' = History(data, Consumed + 1)
         /\ windowHead' = (Consumed + 1) % WINDOW_SIZE
         /\ uncodedHead' = (Consumed + 1) % MAX_CODED
         /\ i' \in Nat /\ i' <= match.length /\ match.length - i' <= len - 1
<1>. USE DEF Shift
<1>. DEFINE C == Consumed
            c == lookahead[uncodedHead]
<1>1. /\ pc = "replace" /\ i < match.length /\ i \in Nat
      /\ match.length \in 0 .. MAX_CODED /\ len \in 0 .. MAX_CODED
      /\ match.length - i <= len /\ i' = i + 1
  BY DEF Inv, TypeInv, EncoderInv
<1>2. MAX_CODED \in Nat \ {0} /\ WINDOW_SIZE \in Nat \ {0}
  BY WindowSizes
<1>3. len \in 1 .. MAX_CODED
  <2>. DEFINE a == match.length
  <2>. HIDE DEF a
  <2>1. a \in Nat /\ i < a /\ a - i <= len
    BY <1>1, <1>2 DEF a
  <2>. QED
    BY <1>1, <1>2, <2>1
<1>4. C \in Nat
  BY <1>1 DEF Consumed, Inv, TypeInv, LookaheadInv
<1>5. /\ window = History(data, C)
      /\ windowHead = C % WINDOW_SIZE /\ uncodedHead = C % MAX_CODED
  BY <1>1 DEF Inv, EncoderInv
<1>6. c = data[C]
  <2>1. lookahead[(C + 0) % MAX_CODED] = data[C + 0]
    <3>1. 0 \in 0 .. len - 1
      BY <1>2, <1>3
    <3>. QED
      BY <1>1, <3>1 DEF Inv, LookaheadInv
  <2>2. C + 0 = C
    BY <1>4
  <2>. QED
    BY <1>5, <2>1, <2>2
<1>7. c \in Byte
  <2>1. uncodedHead \in 0 .. MAX_CODED - 1
    BY <1>2, <1>4, <1>5, Remainder
  <2>. QED
    BY <2>1 DEF Inv, TypeInv
<1>8. window' = [window EXCEPT ![C % WINDOW_SIZE] = data[C]]
  BY <1>5, <1>6
<1>9. window' \in [Indices -> Byte]
  BY <1>6, <1>7, <1>8 DEF Inv, TypeInv
<1>. HIDE DEF C, c
<1>10. window' = History(data, C + 1)
  BY <1>4, <1>5, <1>8, HistoryNext
<1>11. windowHead' = (C + 1) % WINDOW_SIZE /\ uncodedHead' = (C + 1) % MAX_CODED
  <2>1. 1 \in 0 .. WINDOW_SIZE /\ 1 \in 0 .. MAX_CODED
    BY <1>2
  <2>2. Wrap((C % WINDOW_SIZE) + 1, WINDOW_SIZE) = (C + 1) % WINDOW_SIZE
    BY <1>2, <1>4, <2>1, Wrapped
  <2>3. Wrap((C % MAX_CODED) + 1, MAX_CODED) = (C + 1) % MAX_CODED
    BY <1>2, <1>4, <2>1, Wrapped
  <2>. QED
    BY <1>5, <2>2, <2>3
<1>12. i' \in Nat /\ i' <= match.length /\ match.length - i' <= len - 1
  <2>. DEFINE a == match.length
  <2>. HIDE DEF a
  <2>1. a \in Nat /\ i < a /\ a - i <= len
    BY <1>1, <1>2 DEF a
  <2>2. i' \in Nat /\ i' <= a /\ a - i' <= len - 1
    BY <1>1, <1>3, <2>1
  <2>. QED
    BY <2>2 DEF a
<1>. QED
  BY <1>3, <1>4, <1>6, <1>9, <1>10, <1>11, <1>12 DEF C, c

(* The byte that left the lookahead is replaced by the next one of the       *)
(* input, which takes its place in the ring.                                 *)
LEMMA ReplaceByNextStep ==
  ASSUME Inv, stage = "encode", UNCHANGED <<disk, stage>>, ReplaceByNext
  PROVE  Inv'
<1>. USE DEF ReplaceByNext
<1>. DEFINE C == Consumed
            N == MAX_CODED
            F == FileSize
            c == data[inPos]
<1>1. /\ len \in 1 .. N /\ C \in Nat
      /\ window' \in [Indices -> Byte] /\ window' = History(data, C + 1)
      /\ windowHead' = (C + 1) % WINDOW_SIZE /\ uncodedHead' = (C + 1) % N
      /\ i' \in Nat /\ i' <= match.length /\ match.length - i' <= len - 1
  BY ShiftStep
<1>2. /\ UNCHANGED <<data, match, bf, pc, nextChar, out, len>> /\ pc = "replace"
      /\ inPos < F /\ inPos' = inPos + 1
      /\ lookahead' = [lookahead EXCEPT ![uncodedHead] = c]
  BY DEF Shift
<1>3. N \in Nat \ {0} /\ F \in Nat /\ data \in [0 .. F - 1 -> Byte] /\ inPos \in Nat
  BY WindowSizes DEF Inv, TypeInv, IsText, FileSize
<1>4. len = N /\ inPos = C + N /\ Consumed' = C + 1 /\ len <= inPos
  <2>1. len = N /\ len <= inPos
    BY <1>2 DEF Inv, LookaheadInv
  <2>2. C = inPos - len /\ Consumed' = inPos' - len'
    BY DEF Consumed
  <2>. HIDE DEF C, N
  <2>. QED
    BY <1>2, <1>3, <2>1, <2>2
<1>5. c \in Byte
  BY <1>2, <1>3
<1>6. lookahead \in [0 .. N - 1 -> Byte]
  BY DEF Inv, TypeInv
<1>7. uncodedHead = C % N /\ C % N \in 0 .. N - 1
  BY <1>1, <1>2, <1>3, Remainder DEF Inv, EncoderInv
<1>8. \A j \in 0 .. len - 1 : lookahead[(C + j) % N] = data[C + j]
  BY <1>2 DEF Inv, LookaheadInv
<1>9. TypeInv'
  <2>1. inPos' \in Nat
    BY <1>2, <1>3
  <2>2. lookahead' \in [0 .. MAX_CODED - 1 -> Byte]
    BY <1>2, <1>5, <1>6
  <2>. HIDE DEF c, C
  <2>. QED
    BY <1>1, <1>2, <2>1, <2>2 DEF Inv, TypeInv, IsText
<1>10. FreshInv'
  BY <1>2 DEF Inv, FreshInv
<1>11. ASSUME NEW j \in 0 .. N - 1
       PROVE  lookahead'[((C + 1) + j) % N] = data[(C + 1) + j]
  <2>. HIDE DEF C, N
  <2>. DEFINE m == j + 1
              x == C % N
  <2>1. m \in 1 .. N /\ m \in 0 .. N /\ (C + 1) + j = C + m
    BY <1>1, <1>3
  <2>. HIDE DEF m, x
  <2>2. (C + m) % N = IF x + m < N THEN x + m ELSE x + m - N
    BY <1>1, <1>3, <2>1, RemainderOfSum DEF x
  <2>3. x \in 0 .. N - 1 /\ x = uncodedHead
    BY <1>7 DEF x
  <2>4. CASE m = N
    <3>1. (C + m) % N = x
      BY <1>3, <2>2, <2>3, <2>4
    <3>2. lookahead'[x] = c
      BY <1>2, <1>6, <2>3
    <3>3. data[C + m] = c
      BY <1>4, <2>4
    <3>. QED
      BY <2>1, <3>1, <3>2, <3>3
  <2>5. CASE m # N
    <3>1. m \in 0 .. len - 1
      BY <1>3, <1>4, <2>1, <2>5
    <3>2. (C + m) % N \in 0 .. N - 1 /\ (C + m) % N # x
      BY <1>3, <2>1, <2>2, <2>3, <2>5
    <3>3. lookahead'[(C + m) % N] = lookahead[(C + m) % N]
      BY <1>2, <1>6, <2>3, <3>2
    <3>. QED
      BY <1>8, <2>1, <3>1, <3>3
  <2>. QED
    BY <2>4, <2>5
<1>12. LookaheadInv'
  <2>1. FileSize' = F
    BY <1>2 DEF FileSize
  <2>. HIDE DEF C, N, F, c
  <2>2. inPos' <= F /\ len' <= inPos' /\ len' = N
    BY <1>2, <1>3, <1>4
  <2>3. \A j \in 0 .. len' - 1 : lookahead'[(Consumed' + j) % N] = data'[Consumed' + j]
    BY <1>2, <1>4, <1>11, <2>2
  <2>. QED
    BY <2>1, <2>2, <2>3 DEF LookaheadInv, N
<1>13. EncoderInv'
  <2>1. History(data, Consumed)' = History(data', Consumed')
    BY DEF History
  <2>. DEFINE a == match.length
  <2>. HIDE DEF C, F, c, a
  <2>2. a - i' <= len
    <3>1. a \in Nat
      BY WindowSizes DEF Inv, TypeInv, a
    <3>2. a - i' <= len - 1
      BY <1>1 DEF a
    <3>3. len \in Int /\ i' \in Int
      BY <1>1
    <3>4. \A x, y, z \in Int : x - y <= z - 1 => x - y <= z
      OBVIOUS
    <3>5. a \in Int
      BY <3>1
    <3>. QED
      BY <3>2, <3>3, <3>4, <3>5
  <2>. QED
    BY <1>1, <1>2, <1>4, <2>1, <2>2 DEF EncoderInv, a
<1>14. DecoderInv'
  BY <1>2 DEF DecoderInv
<1>. QED
  BY <1>9, <1>10, <1>12, <1>13, <1>14 DEF Inv

(* At the end of the input the lookahead gets shorter instead.               *)
LEMMA ReplaceAtEOFStep ==
  ASSUME Inv, stage = "encode", UNCHANGED <<disk, stage>>, ReplaceAtEOF
  PROVE  Inv'
<1>. USE DEF ReplaceAtEOF, LenAtEOF
<1>. DEFINE C == Consumed
            N == MAX_CODED
<1>1. /\ len \in 1 .. N /\ C \in Nat
      /\ window' \in [Indices -> Byte] /\ window' = History(data, C + 1)
      /\ windowHead' = (C + 1) % WINDOW_SIZE /\ uncodedHead' = (C + 1) % N
      /\ i' \in Nat /\ i' <= match.length /\ match.length - i' <= len - 1
  BY ShiftStep
<1>2. /\ UNCHANGED <<data, match, bf, pc, nextChar, out, lookahead, inPos>> /\ pc = "replace"
      /\ inPos = FileSize /\ len' = len - 1
  BY DEF Shift
<1>3. N \in Nat \ {0} /\ inPos \in Nat
  BY WindowSizes DEF Inv, TypeInv
<1>4. Consumed' = C + 1 /\ len <= inPos /\ len' \in 0 .. N
  <2>1. len <= inPos
    BY <1>2 DEF Inv, LookaheadInv
  <2>2. C = inPos - len /\ Consumed' = inPos' - len'
    BY DEF Consumed
  <2>. HIDE DEF C, N
  <2>. QED
    BY <1>1, <1>2, <1>3, <2>1, <2>2
<1>5. TypeInv'
  <2>. HIDE DEF C
  <2>. QED
    BY <1>1, <1>2, <1>4 DEF Inv, TypeInv, IsText
<1>6. FreshInv'
  BY <1>2 DEF Inv, FreshInv
<1>7. ASSUME NEW j \in 0 .. len' - 1
      PROVE  lookahead'[((C + 1) + j) % N] = data'[(C + 1) + j]
  <2>1. \A m \in 0 .. len - 1 : lookahead[(C + m) % N] = data[C + m]
    BY <1>2 DEF Inv, LookaheadInv
  <2>. HIDE DEF C, N
  <2>2. j + 1 \in 0 .. len - 1 /\ (C + 1) + j = C + (j + 1)
    BY <1>1, <1>2, <1>3
  <2>. QED
    BY <1>2, <2>1, <2>2
<1>8. LookaheadInv'
  <2>1. FileSize' = FileSize /\ ~ (inPos' < FileSize) /\ inPos' <= FileSize
    BY <1>2, <1>3 DEF FileSize
  <2>. HIDE DEF C, N
  <2>2. len' <= inPos'
    BY <1>1, <1>2, <1>3, <1>4
  <2>. QED
    BY <1>4, <1>7, <2>1, <2>2 DEF LookaheadInv, N
<1>9. EncoderInv'
  <2>1. History(data, Consumed)' = History(data', Consumed')
    BY DEF History
  <2>. HIDE DEF C
  <2>. QED
    BY <1>1, <1>2, <1>4, <2>1 DEF EncoderInv
<1>10. DecoderInv'
  BY <1>2 DEF DecoderInv
<1>. QED
  BY <1>5, <1>6, <1>8, <1>9, <1>10 DEF Inv

-------------------------------------------------------------------------------
(* The decoder. *)

(* The decoder begins with a window full of spaces, as the encoder did.      *)
LEMMA StartDecodingStep ==
  ASSUME Inv, stage = "decode", UNCHANGED <<disk, stage>>, StartDecoding
  PROVE  Inv'
<1>. USE DEF StartDecoding
<1>1. UNCHANGED <<data, inPos, windowHead, uncodedHead, len, lookahead, match, i, out>>
  BY DEF encoder
<1>2. bf' \in Streams
  <2>1. bf.room \in Nat /\ bf.file \in Seq(Byte)
    BY DEF Inv, TypeInv, Streams, StreamsUpTo
  <2>. QED
    BY <2>1, NewStream
<1>3. TypeInv'
  BY <1>1, <1>2, EmptyBuffers DEF Inv, TypeInv, IsText
<1>4. (FreshInv /\ LookaheadInv /\ EncoderInv)'
  BY DEF FreshInv, LookaheadInv, EncoderInv
<1>5. DecoderInv'
  <2>1. out' = << >>
    BY <1>1 DEF Inv, FreshInv
  <2>2. Written' = 0 /\ 0 % WINDOW_SIZE = 0
    BY <2>1, NoText, WindowSizes DEF Written
  <2>3. History(out', Written') = Spaces
    BY <2>2, HistoryBefore
  <2>4. History(out, Written)' = History(out', Written')
    BY DEF History
  <2>. QED
    BY <2>2, <2>3, <2>4 DEF DecoderInv
<1>. QED
  BY <1>3, <1>4, <1>5 DEF Inv

(* A byte is put out behind the earlier ones.                                *)
LEMMA PutOutStep ==
  ASSUME Inv, NEW c \in Byte, PutOut(c)
  PROVE  /\ IsText(out') /\ Written \in Nat /\ Written' = Written + 1
         /\ \A x \in 0 .. Written - 1 : out'[x] = out[x]
         /\ out'[Written] = c
<1>1. IsText(out) /\ Written = Cardinality(DOMAIN out) /\ Written \in Nat
  BY DEF Inv, TypeInv, IsText, Written
<1>2. out' = [x \in 0 .. Written |-> IF x < Written THEN out[x] ELSE c]
  BY DEF PutOut
<1>3. /\ IsText(out') /\ Cardinality(DOMAIN out') = Written + 1
      /\ \A x \in 0 .. Written - 1 : out'[x] = out[x]
      /\ out'[Written] = c
  BY <1>1, <1>2, TextAppend
<1>. QED
  BY <1>1, <1>3 DEF Written

(* The stream is left as the bits were got, and nothing else changes.        *)
LEMMA DoneStep ==
  ASSUME Inv, stage = "decode",
         UNCHANGED <<disk, stage, data, encoder, buffers, match, i, nextChar, out>>,
         bf' \in Streams, pc' = "done"
  PROVE  Inv'
<1>1. UNCHANGED <<data, inPos, windowHead, uncodedHead, len, window, lookahead, match, i, out>>
  BY DEF encoder, buffers
<1>2. TypeInv'
  BY <1>1 DEF Inv, TypeInv, IsText
<1>3. (FreshInv /\ LookaheadInv /\ EncoderInv /\ DecoderInv)'
  BY DEF FreshInv, LookaheadInv, EncoderInv, DecoderInv
<1>. QED
  BY <1>2, <1>3 DEF Inv

(* A byte that is got goes to the output and to the window.                  *)
LEMMA GetUncodedStep ==
  ASSUME Inv, stage = "decode", UNCHANGED <<disk, stage>>, GetUncoded
  PROVE  Inv'
<1>. USE DEF GetUncoded
<1>. DEFINE flag == GetBit(bf)
            char == GetChar(flag)
            c == char.val
            n == Written
            w == WINDOW_SIZE
<1>1. flag \in Streams
  BY GetBitType DEF Inv, TypeInv
<1>2. /\ UNCHANGED <<data, encoder, lookahead, match, i>> /\ pc = "flag"
      /\ bf' = char
      /\ char.ok => /\ PutOut(c) /\ window' = [window EXCEPT ![nextChar] = c]
                    /\ nextChar' = Wrap(nextChar + 1, w) /\ UNCHANGED pc
      /\ ~ char.ok => pc' = "done" /\ UNCHANGED <<out, window, nextChar>>
  OBVIOUS
<1>. HIDE DEF flag, GetUncoded
<1>3. char \in Streams /\ c \in Byte
  BY <1>1, GetCharType
<1>. HIDE DEF char, c
<1>4. CASE ~ char.ok
  BY <1>2, <1>3, <1>4, DoneStep DEF buffers
<1>5. CASE char.ok
  <2>1. /\ IsText(out') /\ n \in Nat /\ Written' = n + 1
        /\ \A x \in 0 .. n - 1 : out'[x] = out[x]
        /\ out'[n] = c
    BY <1>2, <1>3, <1>5, PutOutStep
  <2>2. /\ UNCHANGED <<data, inPos, windowHead, uncodedHead, len, lookahead, match, i, pc>>
        /\ pc = "flag" /\ window' = [window EXCEPT ![nextChar] = c]
        /\ nextChar' = Wrap(nextChar + 1, w)
    BY <1>2, <1>5 DEF encoder
  <2>3. window = History(out, n) /\ nextChar = n % w
    BY <2>2 DEF Inv, DecoderInv
  <2>4. w \in Nat \ {0}
    BY WindowSizes
  <2>5. window' = History(out', n + 1)
    <3>. HIDE DEF n
    <3>1. History(out', n) = History(out, n)
      BY <2>1, HistoryPrefix
    <3>2. History(out', n + 1) = [History(out', n) EXCEPT ![n % WINDOW_SIZE] = out'[n]]
      BY <2>1, HistoryNext
    <3>. QED
      BY <2>1, <2>2, <2>3, <3>1, <3>2
  <2>6. nextChar' = (n + 1) % w
    <3>. HIDE DEF n, w
    <3>1. 1 \in 0 .. w
      BY <2>4
    <3>. QED
      BY <2>1, <2>2, <2>3, <2>4, <3>1, Wrapped
  <2>7. window' \in [Indices -> Byte]
    BY <1>3, <2>2 DEF Inv, TypeInv
  <2>. HIDE DEF n
  <2>8. TypeInv'
    BY <1>2, <1>3, <2>1, <2>2, <2>7 DEF Inv, TypeInv, IsText
  <2>9. (FreshInv /\ LookaheadInv /\ EncoderInv)'
    BY <2>2 DEF FreshInv, LookaheadInv, EncoderInv
  <2>10. DecoderInv'
    <3>1. History(out, Written)' = History(out', Written')
      BY DEF History
    <3>. QED
      BY <2>1, <2>2, <2>5, <2>6, <3>1 DEF DecoderInv
  <2>. QED
    BY <2>8, <2>9, <2>10 DEF Inv
<1>. QED
  BY <1>4, <1>5

(* A string that is got is not longer than the lookahead, which it is copied *)
(* to.                                                                       *)
LEMMA GetEncodedStep ==
  ASSUME Inv, stage = "decode", UNCHANGED <<disk, stage>>, GetEncoded
  PROVE  Inv'
<1>. USE DEF GetEncoded
<1>. DEFINE flag == GetBit(bf)
            offset == GetBitsNum(OFFSET_BITS, flag)
            length == IF offset.ok THEN GetBitsNum(LENGTH_BITS, offset) ELSE offset
            new == Match(offset.val, length.val + MAX_UNCODED + 1)
<1>1. flag \in Streams
  BY GetBitType DEF Inv, TypeInv
<1>2. /\ UNCHANGED <<data, encoder, buffers, nextChar, out>> /\ pc = "flag"
      /\ bf' = length
      /\ length.ok => match' = new /\ i' = 0 /\ pc' = "copy"
      /\ ~ length.ok => pc' = "done" /\ UNCHANGED <<match, i>>
  OBVIOUS
<1>. HIDE DEF flag, GetEncoded
<1>3. offset \in Streams /\ offset.val \in Indices
  BY <1>1, GetBitsNumType, WindowSizes DEF Indices, WINDOW_SIZE
<1>4. length \in Streams
  BY <1>3, GetBitsNumType, WindowSizes
<1>5. length.ok => length.val \in 0 .. 2 ^ LENGTH_BITS - 1
  <2>1. GetBitsNum(LENGTH_BITS, offset).val \in 0 .. 2 ^ LENGTH_BITS - 1
    BY <1>3, GetBitsNumType, WindowSizes
  <2>. HIDE DEF offset
  <2>. QED
    BY <2>1
<1>. HIDE DEF length, offset
<1>6. CASE ~ length.ok
  BY <1>2, <1>4, <1>6, DoneStep
<1>7. CASE length.ok
  <2>1. /\ UNCHANGED <<data, inPos, windowHead, uncodedHead, len, window, lookahead, nextChar, out>>
        /\ match' = new /\ i' = 0 /\ pc' = "copy"
    BY <1>2, <1>7 DEF encoder, buffers
  <2>2. length.val + MAX_UNCODED + 1 \in 0 .. MAX_CODED
    <3>. DEFINE p == 2 ^ LENGTH_BITS
                v == length.val
    <3>1. v \in 0 .. p - 1
      BY <1>5, <1>7
    <3>2. MAX_CODED = p + MAX_UNCODED /\ p \in Nat /\ MAX_UNCODED \in Nat
      BY WindowSizes, PowersPositive
    <3>. HIDE DEF p, v
    <3>3. v + MAX_UNCODED + 1 \in 0 .. MAX_CODED
      BY <3>1, <3>2
    <3>. QED
      BY <3>3 DEF v
  <2>3. new \in [offset : Indices, length : 0 .. MAX_CODED]
    BY <1>3, <2>2 DEF Match
  <2>4. new.length \in 0 .. MAX_CODED
    BY <2>2 DEF Match
  <2>. HIDE DEF new
  <2>5. TypeInv'
    BY <1>2, <1>4, <2>1, <2>3 DEF Inv, TypeInv, IsText
  <2>6. (FreshInv /\ LookaheadInv /\ EncoderInv)'
    BY <2>1 DEF FreshInv, LookaheadInv, EncoderInv
  <2>7. DecoderInv'
    <3>1. Written \in Nat /\ Written' = Written
      BY <2>1 DEF Written, Inv, TypeInv, IsText
    <3>2. Behind' = Written
      BY <2>1, <3>1 DEF Behind
    <3>3. window = History(out, Written) /\ nextChar = Written % WINDOW_SIZE
      BY <1>2 DEF Inv, DecoderInv
    <3>4. History(out, Behind)' = History(out', Behind')
      BY DEF History
    <3>5. 0 <= match'.length /\ 0 <= Written
      BY <2>1, <2>4, <3>1, WindowSizes
    <3>. QED
      BY <2>1, <3>1, <3>2, <3>3, <3>4, <3>5 DEF DecoderInv
  <2>. QED
    BY <2>5, <2>6, <2>7 DEF Inv
<1>. QED
  BY <1>6, <1>7

(* At the end of the file the decoder stops.                                 *)
LEMMA EndOfDecodingStep ==
  ASSUME Inv, stage = "decode", UNCHANGED <<disk, stage>>, EndOfDecoding
  PROVE  Inv'
BY DoneStep DEF EndOfDecoding, Inv, TypeInv

(* While it is copied, the string is in the output and in the lookahead.     *)
LEMMA CopyCharStep ==
  ASSUME Inv, stage = "decode", UNCHANGED <<disk, stage>>, CopyChar
  PROVE  Inv'
<1>. USE DEF CopyChar
<1>. DEFINE w == WINDOW_SIZE
            N == MAX_CODED
            n == Written
            B == Behind
            a == match.offset
            l == match.length
            c == window[Wrap(a + i, w)]
<1>1. /\ UNCHANGED <<data, inPos, windowHead, uncodedHead, len, window, match, bf, pc, nextChar>>
      /\ pc = "copy" /\ i < l /\ i' = i + 1
      /\ PutOut(c) /\ lookahead' = [lookahead EXCEPT ![i] = c]
  BY DEF encoder
<1>2. /\ w \in Nat \ {0} /\ N \in Nat /\ N <= w
      /\ a \in 0 .. w - 1 /\ l \in 0 .. N /\ i \in Nat /\ n \in Nat
      /\ lookahead \in [0 .. N - 1 -> Byte] /\ window \in [0 .. w - 1 -> Byte]
  BY WindowSizes DEF Inv, TypeInv, Indices, Written, IsText
<1>3. /\ i <= n /\ window = History(out, B) /\ nextChar = B % w
      /\ \A j \in 0 .. i - 1 : lookahead[j] = out[B + j]
  BY <1>1 DEF Inv, DecoderInv
<1>4. B = n - i
  BY DEF Behind
<1>5. c \in Byte
  <2>. HIDE DEF w, N, a, l
  <2>1. Wrap(a + i, w) \in 0 .. w - 1
    BY <1>1, <1>2 DEF Wrap
  <2>. QED
    BY <1>2, <2>1
<1>. HIDE DEF CopyChar, c
<1>6. /\ IsText(out') /\ Written' = n + 1
      /\ \A x \in 0 .. n - 1 : out'[x] = out[x]
      /\ out'[n] = c
  BY <1>1, <1>5, PutOutStep
<1>. HIDE DEF w, N, a, l, n, B
<1>7. Behind' = B /\ B \in Nat /\ B + i = n
  <2>1. Behind' = Written' - i'
    BY DEF Behind
  <2>2. Written' = n + 1 /\ i' = i + 1
    BY <1>1, <1>6
  <2>3. i \in Nat /\ n \in Nat /\ i <= n /\ B = n - i
    BY <1>2, <1>3, <1>4
  <2>. QED
    BY <2>1, <2>2, <2>3
<1>8. i \in 0 .. N - 1 /\ i + 1 \in Nat /\ i + 1 <= l /\ i + 1 <= n + 1
  BY <1>1, <1>2, <1>3
<1>9. lookahead' \in [0 .. N - 1 -> Byte]
  BY <1>1, <1>2, <1>5
<1>10. TypeInv'
  BY <1>1, <1>6, <1>8, <1>9 DEF Inv, TypeInv, IsText, N
<1>11. (FreshInv /\ LookaheadInv /\ EncoderInv)'
  BY <1>1 DEF FreshInv, LookaheadInv, EncoderInv
<1>12. History(out', B) = History(out, B)
  <2>1. \A p \in 0 .. B - 1 : out'[p] = out[p]
    BY <1>2, <1>6, <1>7
  <2>. QED
    BY <1>7, <2>1, HistoryPrefix
<1>13. ASSUME NEW j \in 0 .. i' - 1
       PROVE  lookahead'[j] = out'[B + j]
  <2>1. CASE j = i
    BY <1>1, <1>2, <1>6, <1>7, <1>8, <2>1
  <2>2. CASE j # i
    <3>1. j \in 0 .. i - 1 /\ B + j \in 0 .. n - 1 /\ j \in 0 .. N - 1
      BY <1>1, <1>2, <1>7, <1>8, <2>2
    <3>2. lookahead'[j] = lookahead[j]
      BY <1>1, <1>2, <2>2, <3>1
    <3>. QED
      BY <1>3, <1>6, <3>1, <3>2
  <2>. QED
    BY <2>1, <2>2
<1>14. DecoderInv'
  <2>1. History(out, Behind)' = History(out', Behind')
    BY DEF History
  <2>2. match'.length = l
    BY <1>1 DEF l
  <2>. QED
    BY <1>1, <1>3, <1>6, <1>7, <1>8, <1>12, <1>13, <2>1, <2>2 DEF DecoderInv, w
<1>. QED
  BY <1>10, <1>11, <1>14 DEF Inv

(* Then the window takes it over, and is what the whole output makes of it.  *)
LEMMA StoreStringStep ==
  ASSUME Inv, stage = "decode", UNCHANGED <<disk, stage>>, StoreString
  PROVE  Inv'
<1>. USE DEF StoreString
<1>. DEFINE w == WINDOW_SIZE
            N == MAX_CODED
            n == Written
            B == Behind
            l == match.length
<1>1. /\ UNCHANGED <<data, inPos, windowHead, uncodedHead, len, lookahead, match, i, bf, out>>
      /\ pc = "copy" /\ pc' = "flag" /\ i = l
      /\ nextChar' = Wrap(nextChar + l, w)
  BY DEF encoder
<1>2. /\ w \in Nat \ {0} /\ N \in Nat /\ N <= w
      /\ l \in 0 .. N /\ n \in Nat
      /\ lookahead \in [0 .. N - 1 -> Byte] /\ window \in [Indices -> Byte]
      /\ Indices = 0 .. w - 1
  BY WindowSizes DEF Inv, TypeInv, Indices, Written, IsText
<1>3. /\ i <= n /\ window = History(out, B) /\ nextChar = B % w
      /\ \A j \in 0 .. i - 1 : lookahead[j] = out[B + j]
  BY <1>1 DEF Inv, DecoderInv
<1>4. B = n - i
  BY DEF Behind
<1>5. window' = [x \in Indices |->
                  IF \E j \in 0 .. l - 1 : x = Wrap(nextChar + j, w)
                  THEN lookahead[(x - nextChar) % w] ELSE window[x]]
  BY <1>2
<1>. HIDE DEF StoreString, w, N, n, B, l
<1>6. B \in Nat /\ n = B + l /\ l \in Nat /\ l <= w /\ l \in 0 .. w
  BY <1>1, <1>2, <1>3, <1>4
<1>7. nextChar' = n % w
  BY <1>1, <1>2, <1>3, <1>6, Wrapped
<1>8. \A j \in 0 .. l - 1 : Wrap(nextChar + j, w) = (B + j) % w
  <2>1. \A j \in 0 .. l - 1 : j \in 0 .. w
    BY <1>2, <1>6
  <2>. QED
    BY <1>2, <1>3, <1>6, <2>1, Wrapped
<1>9. ASSUME NEW x \in Indices, NEW j \in 0 .. l - 1, x = (B + j) % w
      PROVE  window'[x] = out[B + j]
  <2>1. x = Wrap(nextChar + j, w)
    BY <1>8, <1>9
  <2>2. (x - nextChar) % w = j
    <3>1. nextChar \in 0 .. w - 1 /\ j \in 0 .. w - 1
      BY <1>2, <1>3, <1>6, Remainder
    <3>2. x - nextChar = j \/ x - nextChar = j - w
      BY <1>2, <2>1, <3>1 DEF Wrap
    <3>3. j % w = j /\ (j - w) % w = j
      BY <1>2, <3>1
    <3>. QED
      BY <3>2, <3>3
  <2>3. window'[x] = lookahead[j]
    BY <1>5, <2>1, <2>2
  <2>. QED
    BY <1>1, <1>3, <2>3
<1>10. ASSUME NEW x \in Indices, \A j \in 0 .. l - 1 : x # (B + j) % w
       PROVE  window'[x] = window[x]
  <2>1. ~ \E j \in 0 .. l - 1 : x = Wrap(nextChar + j, w)
    BY <1>8, <1>10
  <2>. QED
    BY <1>5, <2>1
<1>11. window' = History(out, n)
  <2>1. /\ \A j \in 0 .. l - 1 : History(out, n)[(B + j) % w] = out[B + j]
        /\ \A x \in Indices : (\A j \in 0 .. l - 1 : x # (B + j) % w) =>
                                History(out, n)[x] = History(out, B)[x]
    BY <1>6, HistoryString DEF w
  <2>2. ASSUME NEW x \in Indices PROVE window'[x] = History(out, n)[x]
    <3>1. CASE \E j \in 0 .. l - 1 : x = (B + j) % w
      BY <1>9, <2>1, <3>1
    <3>2. CASE \A j \in 0 .. l - 1 : x # (B + j) % w
      BY <1>3, <1>10, <2>1, <3>2
    <3>. QED
      BY <3>1, <3>2
  <2>3. window' = [x \in Indices |-> window'[x]]
    BY <1>5
  <2>4. History(out, n) = [x \in Indices |-> History(out, n)[x]]
    BY <1>2, HistoryAt
  <2>. QED
    BY <2>2, <2>3, <2>4
<1>12. window' \in [Indices -> Byte]
  <2>1. ASSUME NEW x \in Indices PROVE window'[x] \in Byte
    <3>1. CASE \E j \in 0 .. l - 1 : x = (B + j) % w
      <4>1. PICK j \in 0 .. l - 1 : x = (B + j) % w
        BY <3>1
      <4>2. window'[x] = lookahead[j]
        BY <1>1, <1>3, <1>9, <4>1
      <4>3. j \in 0 .. N - 1
        BY <1>2
      <4>. QED
        BY <1>2, <4>2, <4>3
    <3>2. CASE \A j \in 0 .. l - 1 : x # (B + j) % w
      BY <1>2, <1>10, <3>2
    <3>. QED
      BY <3>1, <3>2
  <2>. QED
    BY <1>5, <2>1
<1>13. TypeInv'
  BY <1>1, <1>12 DEF Inv, TypeInv, IsText
<1>14. (FreshInv /\ LookaheadInv /\ EncoderInv)'
  BY <1>1 DEF FreshInv, LookaheadInv, EncoderInv
<1>15. DecoderInv'
  <2>1. Written' = n
    BY <1>1 DEF Written, n
  <2>2. History(out, Written)' = History(out', Written')
    BY DEF History
  <2>. QED
    BY <1>1, <1>7, <1>11, <2>1, <2>2 DEF DecoderInv, w
<1>. QED
  BY <1>13, <1>14, <1>15 DEF Inv

-------------------------------------------------------------------------------
(* The same window. *)

(* Every step of the program preserves the invariant.                        *)
LEMMA InvNext ==
  ASSUME Inv, [ProgramNext]_allVars
  PROVE  Inv'
<1>1. CASE UNCHANGED allVars
  <2>1. UNCHANGED <<vars, disk, stage>>
    BY <1>1 DEF allVars, program
  <2>. QED
    BY <2>1, IdleStep DEF Inv, TypeInv, FreshInv
<1>2. CASE Call
  BY <1>2, CallStep
<1>3. CASE Parse \/ SetMode \/ SetName \/ NoArgument \/ Help
  BY <1>3, OptionStep
<1>4. CASE OpenForEncoder
  BY <1>4, OpenForEncoderStep
<1>5. CASE OpenForDecoder
  BY <1>5, OpenForDecoderStep
<1>6. CASE CannotOpen \/ CloseEncoded \/ CloseDecoded
  BY <1>6, FileStep
<1>7. CASE RunEncoder
  <2>1. stage = "encode" /\ UNCHANGED <<disk, stage>> /\ Encode
    BY <1>7 DEF RunEncoder, program
  <2>. QED
    BY <2>1, FillLookaheadStep, FindMatchStep, PutUncodedStep, PutEncodedStep,
       ReplaceByNextStep, ReplaceAtEOFStep, EndOfReplacingStep, EndOfEncodingStep
       DEF Encode
<1>8. CASE RunDecoder
  <2>1. stage = "decode" /\ UNCHANGED <<disk, stage>> /\ Decode
    BY <1>8 DEF RunDecoder, program
  <2>. QED
    BY <2>1, StartDecodingStep, GetUncodedStep, GetEncodedStep, CopyCharStep,
       StoreStringStep, EndOfDecodingStep DEF Decode
<1>. QED
  BY <1>1, <1>2, <1>3, <1>4, <1>5, <1>6, <1>7, <1>8 DEF ProgramNext

(* The invariant has the property as a part.                                 *)
LEMMA InvMeans ==
  ASSUME Inv
  PROVE  WindowIsHistory
<1>1. ASSUME pc \in {"match", "token"}, NEW j \in 0 .. len - 1
      PROVE  lookahead[Wrap(uncodedHead + j, MAX_CODED)] = data[Consumed + j]
  <2>1. uncodedHead = Consumed % MAX_CODED
    BY <1>1 DEF Inv, EncoderInv
  <2>2. Consumed \in Nat /\ MAX_CODED \in Nat \ {0} /\ j \in 0 .. MAX_CODED
    BY <1>1, WindowSizes DEF Inv, LookaheadInv, TypeInv, Consumed
  <2>3. Wrap(uncodedHead + j, MAX_CODED) = (Consumed + j) % MAX_CODED
    BY <2>1, <2>2, Wrapped
  <2>. QED
    BY <1>1, <2>3 DEF Inv, LookaheadInv
<1>2. pc \in {"match", "token"} =>
        window = History(data, Consumed) /\ windowHead = Consumed % WINDOW_SIZE
  BY DEF Inv, EncoderInv
<1>3. pc = "flag" => window = History(out, Written) /\ nextChar = Written % WINDOW_SIZE
  BY DEF Inv, DecoderInv
<1>. QED
  BY <1>1, <1>2, <1>3 DEF WindowIsHistory

(* lzss.cpp, "DecodeLZSS must use the same values": whenever the encoder     *)
(* puts a token or the decoder gets one, the window is the last WINDOW_SIZE  *)
(* bytes of the text so far, each at the index its position has, and the     *)
(* lookahead holds the bytes that come next; in every call of a session, for *)
(* every size of the window and of the lookahead that fit together, and for  *)
(* every file that is decoded.                                               *)
THEOREM SameWindows == ProgramSpec => []WindowIsHistory
<1>1. ProgramInit => Inv
  BY InvInit
<1>2. Inv /\ [ProgramNext]_allVars => Inv'
  BY InvNext
<1>3. Inv => WindowIsHistory
  BY InvMeans
<1>. QED
  BY <1>1, <1>2, <1>3, PTL DEF ProgramSpec

-------------------------------------------------------------------------------
(* The bits of numbers. *)

(* Dividing twice is dividing by the product.                                *)
LEMMA NestedDivision ==
  ASSUME NEW x \in Nat, NEW c \in Nat \ {0}, NEW d \in Nat \ {0}
  PROVE  (x \div c) \div d = x \div (c * d)
<1>. DEFINE y == x \div c
            r == x % c
            z == y \div d
            s == y % d
<1>1. y \in Nat /\ r \in 0 .. c - 1 /\ x = c * y + r
  BY Remainder
<1>2. z \in Nat /\ s \in 0 .. d - 1 /\ y = d * z + s
  BY <1>1, Remainder
<1>. HIDE DEF y, r, z, s
<1>3. c * d \in Nat \ {0} /\ c * s + r \in 0 .. c * d - 1
  <2>. DEFINE e == d - 1 - s
              f == c - 1 - r
  <2>1. e \in Nat /\ d = s + 1 + e /\ f \in Nat /\ c = r + 1 + f /\ s \in Nat /\ r \in Nat
    BY <1>1, <1>2
  <2>. HIDE DEF e, f
  <2>2. c * d = c * s + c + c * e /\ c * s \in Nat /\ c * e \in Nat
    BY <2>1
  <2>. QED
    BY <2>1, <2>2
<1>4. x = (c * d) * z + (c * s + r)
  <2>1. c * y = c * (d * z) + c * s
    BY <1>1, <1>2
  <2>2. c * (d * z) = (c * d) * z
    BY <1>2
  <2>3. c * s \in Nat /\ r \in Nat /\ (c * d) * z \in Nat
    BY <1>1, <1>2
  <2>. QED
    BY <1>1, <2>1, <2>2, <2>3
<1>. DEFINE p == c * d
            q == c * s + r
<1>. HIDE DEF p, q
<1>5. (p * z + q) \div p = z
  BY <1>2, <1>3, Remainder DEF p, q
<1>. QED
  BY <1>4, <1>5 DEF p, q, y, z

(* A quotient by a power of 2 has the upper bits of the number.              *)
LEMMA BitAbove ==
  ASSUME NEW x \in Nat, NEW m \in Nat, NEW k \in Nat
  PROVE  BitOf(x \div 2 ^ m, k) = BitOf(x, m + k)
<1>1. 2 ^ m \in Nat \ {0} /\ 2 ^ k \in Nat \ {0} /\ 2 ^ (m + k) = 2 ^ m * 2 ^ k
  BY PowersPositive, PowerOfSum
<1>2. (x \div 2 ^ m) \div 2 ^ k = x \div (2 ^ m * 2 ^ k)
  BY <1>1, NestedDivision
<1>. QED
  BY <1>1, <1>2 DEF BitOf

(* Where the lower m bits of a number come from.                             *)
LEMMA BitsOfSum ==
  ASSUME NEW hi \in Nat, NEW m \in Nat, NEW lo \in 0 .. 2 ^ m - 1, NEW k \in Nat
  PROVE  BitOf(2 ^ m * hi + lo, k) = IF k < m THEN BitOf(lo, k) ELSE BitOf(hi, k - m)
<1>. DEFINE p == 2 ^ m
            x == p * hi + lo
<1>1. p \in Nat \ {0} /\ lo \in Nat
  <2>1. p \in Nat \ {0}
    BY PowersPositive
  <2>. HIDE DEF p
  <2>2. lo \in 0 .. p - 1
    BY DEF p
  <2>. QED
    BY <2>1, <2>2
<1>2. CASE k >= m
  <2>1. x \div p = hi /\ x \in Nat
    <3>1. lo \in 0 .. p - 1
      OBVIOUS
    <3>. HIDE DEF p
    <3>2. (p * hi + lo) \div p = hi
      BY <1>1, <3>1, Remainder
    <3>. QED
      BY <1>1, <3>2
  <2>. HIDE DEF x
  <2>2. k - m \in Nat /\ m + (k - m) = k
    BY <1>2
  <2>3. BitOf(x \div p, k - m) = BitOf(x, m + (k - m))
    BY <2>1, <2>2, BitAbove
  <2>4. BitOf(x, k) = BitOf(hi, k - m)
    BY <2>1, <2>2, <2>3
  <2>. QED
    BY <1>2, <2>4 DEF x
<1>3. CASE k < m
  <2>. DEFINE c == 2 ^ k
              e == 2 ^ (m - k - 1)
              y == lo \div c
              r == lo % c
  <2>1. c \in Nat \ {0} /\ e \in Nat \ {0} /\ p = (2 * c) * e
    <3>1. m - k - 1 \in Nat /\ k + 1 \in Nat /\ (k + 1) + (m - k - 1) = m
      BY <1>3
    <3>2. c \in Nat \ {0} /\ e \in Nat \ {0} /\ 2 ^ (k + 1) = c + c
      BY <3>1, PowersPositive, PowerOfTwo
    <3>3. 2 ^ ((k + 1) + (m - k - 1)) = 2 ^ (k + 1) * e
      BY <3>1, PowerOfSum
    <3>4. p = 2 ^ (k + 1) * e
      BY <3>1, <3>3
    <3>. HIDE DEF p, c, e
    <3>5. p = (c + c) * e
      BY <3>2, <3>4
    <3>. QED
      BY <3>2, <3>5
  <2>2. y \in Nat /\ r \in 0 .. c - 1 /\ lo = c * y + r
    BY <1>1, <2>1, Remainder
  <2>. HIDE DEF p, c, e, y, r
  <2>3. (c * (2 * (e * hi) + y) + r) \div c = 2 * (e * hi) + y
    <3>. DEFINE z == 2 * (e * hi) + y
    <3>1. z \in Nat
      BY <2>1, <2>2
    <3>. HIDE DEF z
    <3>2. (c * z + r) \div c = z
      BY <2>1, <2>2, <3>1, Remainder
    <3>. QED
      BY <3>2 DEF z
  <2>4. x = c * (2 * (e * hi) + y) + r
    <3>. DEFINE h == e * hi
    <3>1. h \in Nat
      BY <2>1
    <3>2. p * hi = (2 * c) * h
      BY <2>1
    <3>. HIDE DEF h
    <3>3. c * (2 * h + y) = (2 * c) * h + c * y
      BY <2>1, <2>2, <3>1
    <3>4. (2 * c) * h \in Nat /\ c * y \in Nat /\ r \in Nat
      BY <2>1, <2>2, <3>1
    <3>5. x = c * (2 * h + y) + r
      BY <2>2, <3>2, <3>3, <3>4
    <3>. QED
      BY <3>5 DEF h
  <2>5. (2 * (e * hi) + y) % 2 = y % 2
    <3>. DEFINE h == e * hi
    <3>1. h \in Nat
      BY <2>1
    <3>. HIDE DEF h
    <3>2. (2 * h + y) % 2 = y % 2
      BY <2>2, <3>1
    <3>. QED
      BY <3>2 DEF h
  <2>6. x \div c = 2 * (e * hi) + y
    BY <2>3, <2>4
  <2>7. BitOf(x, k) = y % 2 /\ BitOf(lo, k) = y % 2
    BY <2>5, <2>6 DEF BitOf, c, y
  <2>. QED
    BY <1>3, <2>7 DEF p
<1>. QED
  BY <1>2, <1>3

(* The conversion to unsigned char keeps the lower bits.                     *)
LEMMA UCharBits ==
  ASSUME NEW x \in Nat, NEW k \in 0 .. ByteBits - 1
  PROVE  BitOf(UChar(x), k) = BitOf(x, k)
<1>. DEFINE p == 2 ^ ByteBits
<1>1. ByteBits \in Nat /\ p \in Nat \ {0} /\ k \in Nat /\ k < ByteBits
  BY ByteRange
<1>. HIDE DEF p
<1>2. x \div p \in Nat /\ x % p \in 0 .. p - 1 /\ x = p * (x \div p) + (x % p)
  BY <1>1, Remainder
<1>. DEFINE h == x \div p
            l == x % p
<1>. HIDE DEF h, l
<1>3. BitOf(p * h + l, k) = BitOf(l, k)
  BY <1>1, <1>2, BitsOfSum DEF p, h, l
<1>. QED
  BY <1>2, <1>3 DEF UChar, p, h, l

(* Of a buffer that is shifted to the top of a byte the lower k bits stay.   *)
LEMMA ShiftedUp ==
  ASSUME NEW x \in Nat, NEW k \in 0 .. ByteBits
  PROVE  /\ 2 ^ k \in Nat \ {0} /\ 2 ^ (ByteBits - k) \in Nat \ {0}
         /\ x % 2 ^ k \in 0 .. 2 ^ k - 1
         /\ UChar(x * 2 ^ (ByteBits - k)) = 2 ^ (ByteBits - k) * (x % 2 ^ k)
<1>. DEFINE p == 2 ^ k
            q == 2 ^ (ByteBits - k)
            m == 2 ^ ByteBits
            a == x \div p
            b == x % p
<1>1. k \in Nat /\ ByteBits - k \in Nat /\ k + (ByteBits - k) = ByteBits
  BY ByteRange
<1>2. p \in Nat \ {0} /\ q \in Nat \ {0} /\ m \in Nat \ {0}
  BY <1>1, PowersPositive, ByteRange
<1>3. m = p * q
  BY <1>1, PowerOfSum
<1>4. UChar(x * q) = (x * q) % m
  BY DEF UChar
<1>5. a \in Nat /\ b \in 0 .. p - 1 /\ x = p * a + b
  BY <1>2, Remainder
<1>. HIDE DEF p, q, m, a, b
<1>6. b * q \in 0 .. m - 1 /\ b \in Nat
  <2>. DEFINE e == p - 1 - b
  <2>1. e \in Nat /\ p = b + e + 1 /\ b \in Nat
    BY <1>2, <1>5
  <2>. HIDE DEF e
  <2>2. p * q = b * q + e * q + q /\ e * q \in Nat /\ b * q \in Nat
    BY <1>2, <2>1
  <2>. QED
    BY <1>2, <1>3, <2>1, <2>2
<1>7. x * q = m * a + b * q
  BY <1>2, <1>3, <1>5, <1>6
<1>8. (x * q) % m = b * q
  <2>. DEFINE r == b * q
  <2>1. r \in 0 .. m - 1
    BY <1>6
  <2>. HIDE DEF r
  <2>2. (m * a + r) % m = r
    BY <1>2, <1>5, <2>1, Remainder
  <2>. QED
    BY <1>7, <2>2 DEF r
<1>9. UChar(x * q) = q * b
  BY <1>2, <1>4, <1>6, <1>8
<1>. QED
  BY <1>2, <1>5, <1>9 DEF p, q, b

(* Numbers of k bits are the same if their bits are.                         *)
LEMMA BitsDetermine ==
  ASSUME NEW k \in Nat, NEW x \in 0 .. 2 ^ k - 1, NEW y \in 0 .. 2 ^ k - 1,
         \A j \in 0 .. k - 1 : BitOf(x, j) = BitOf(y, j)
  PROVE  x = y
<1>. DEFINE Same(n, u, v) == \A j \in 0 .. n - 1 : BitOf(u, j) = BitOf(v, j)
            T == {n \in Nat : \A u, v \in 0 .. 2 ^ n - 1 : Same(n, u, v) => u = v}
<1>1. 0 \in T
  <2>1. 0 .. 2 ^ 0 - 1 = {0}
    BY PowersPositive
  <2>. QED
    BY <2>1
<1>2. ASSUME NEW n \in Nat, n \in T PROVE n + 1 \in T
  <2>. SUFFICES ASSUME NEW u \in 0 .. 2 ^ (n + 1) - 1, NEW v \in 0 .. 2 ^ (n + 1) - 1,
                       Same(n + 1, u, v)
                PROVE  u = v
    BY <1>2
  <2>. DEFINE p == 2 ^ n
  <2>1. p \in Nat \ {0} /\ 2 ^ (n + 1) = p + p /\ 2 ^ 0 = 1 /\ 2 ^ 1 = 2
    <3>1. 2 ^ 0 = 1 /\ 2 ^ (0 + 1) = 2 ^ 0 + 2 ^ 0 /\ 0 + 1 = 1
      BY PowersPositive, PowerOfTwo
    <3>2. 2 ^ 1 = 2
      BY <3>1
    <3>. QED
      BY <3>1, <3>2, PowersPositive, PowerOfTwo
  <2>2. u \in Nat /\ v \in Nat /\ u < p + p /\ v < p + p
    <3>. DEFINE d == 2 ^ (n + 1)
    <3>1. u \in 0 .. d - 1 /\ v \in 0 .. d - 1 /\ d = p + p
      BY <2>1
    <3>. HIDE DEF p, d
    <3>. QED
      BY <2>1, <3>1
  <2>3. u \div 2 \in 0 .. p - 1 /\ v \div 2 \in 0 .. p - 1
    <3>. HIDE DEF p
    <3>. QED
      BY <2>1, <2>2
  <2>4. u % 2 = v % 2
    <3>1. 0 \in 0 .. (n + 1) - 1
      OBVIOUS
    <3>2. BitOf(u, 0) = BitOf(v, 0)
      BY <3>1
    <3>3. u \div 1 = u /\ v \div 1 = v
      BY <2>2
    <3>. QED
      BY <2>1, <3>2, <3>3 DEF BitOf
  <2>5. Same(n, u \div 2, v \div 2)
    <3>. SUFFICES ASSUME NEW j \in 0 .. n - 1
                  PROVE  BitOf(u \div 2, j) = BitOf(v \div 2, j)
      OBVIOUS
    <3>1. 1 + j \in 0 .. (n + 1) - 1 /\ j \in Nat /\ 1 \in Nat
      OBVIOUS
    <3>2. BitOf(u, 1 + j) = BitOf(v, 1 + j)
      BY <3>1
    <3>3. BitOf(u \div 2 ^ 1, j) = BitOf(u, 1 + j) /\ BitOf(v \div 2 ^ 1, j) = BitOf(v, 1 + j)
      BY <2>2, <3>1, BitAbove
    <3>. QED
      BY <2>1, <3>2, <3>3
  <2>6. u \div 2 = v \div 2
    <3>. HIDE DEF Same
    <3>. QED
      BY <1>2, <2>3, <2>5
  <2>. QED
    BY <2>2, <2>4, <2>6
<1>. HIDE DEF Same
<1>3. k \in T
  <2>. HIDE DEF T
  <2>. QED
    BY <1>1, <1>2, AllNumbers
<1>4. Same(k, x, y)
  BY DEF Same
<1>. QED
  BY <1>3, <1>4

(* The upper b bits of a number of a + b bits.                               *)
LEMMA QuotientBelow ==
  ASSUME NEW a \in Nat, NEW b \in Nat, NEW x \in 0 .. 2 ^ (a + b) - 1
  PROVE  x \div 2 ^ a \in 0 .. 2 ^ b - 1
<1>. DEFINE p == 2 ^ a
            q == 2 ^ b
            m == 2 ^ (a + b)
<1>1. p \in Nat \ {0} /\ q \in Nat \ {0} /\ m \in Nat \ {0} /\ m = p * q
  BY PowersPositive, PowerOfSum
<1>2. x \in 0 .. m - 1
  OBVIOUS
<1>. HIDE DEF p, q, m
<1>. DEFINE y == x \div p
<1>3. x \in Nat /\ y \in Nat /\ x % p \in 0 .. p - 1 /\ x = p * y + (x % p)
  <2>1. x \in Nat
    BY <1>1, <1>2
  <2>. QED
    BY <1>1, <2>1, Remainder
<1>. HIDE DEF y
<1>4. y < q
  <2>. SUFFICES ASSUME ~ (y < q) PROVE FALSE
    OBVIOUS
  <2>. DEFINE e == y - q
  <2>1. e \in Nat /\ y = q + e
    BY <1>1, <1>3
  <2>. HIDE DEF e
  <2>2. p * y = p * q + p * e /\ p * e \in Nat
    BY <1>1, <2>1
  <2>3. x >= p * y
    BY <1>1, <1>3
  <2>. QED
    BY <1>1, <1>2, <2>2, <2>3
<1>. QED
  BY <1>1, <1>3, <1>4 DEF y, p, q

(* The lower m bits of a number.                                             *)
LEMMA LowerBits ==
  ASSUME NEW x \in Nat, NEW m \in Nat, NEW k \in Nat, k < m
  PROVE  BitOf(x % 2 ^ m, k) = BitOf(x, k)
<1>. DEFINE p == 2 ^ m
            h == x \div p
            l == x % p
<1>1. p \in Nat \ {0}
  BY PowersPositive
<1>2. h \in Nat /\ l \in 0 .. p - 1 /\ x = p * h + l
  BY <1>1, Remainder
<1>. HIDE DEF p, h, l
<1>3. BitOf(p * h + l, k) = BitOf(l, k)
  BY <1>1, <1>2, BitsOfSum DEF p
<1>. QED
  BY <1>2, <1>3 DEF l, p

(* A bit that is shifted into a buffer of ByteBits bits from below.          *)
LEMMA ShiftedIn ==
  ASSUME NEW x \in Nat, NEW c \in {0, 1}, NEW k \in 0 .. ByteBits - 1
  PROVE  BitOf(UChar(2 * x) + c, k) = IF k = 0 THEN c ELSE BitOf(x, k - 1)
<1>. DEFINE m == ByteBits - 1
            y == x % 2 ^ m
<1>1. m \in 0 .. ByteBits /\ m \in Nat /\ ByteBits - m = 1 /\ 2 ^ 0 = 1 /\ 2 ^ 1 = 2
  <2>1. 2 ^ 0 = 1 /\ 2 ^ (0 + 1) = 2 ^ 0 + 2 ^ 0 /\ 0 + 1 = 1
    BY PowersPositive, PowerOfTwo
  <2>2. 2 ^ 1 = 2
    BY <2>1
  <2>. QED
    BY <2>1, <2>2, ByteRange
<1>2. y \in Nat
  <2>. DEFINE p == 2 ^ m
  <2>1. p \in Nat \ {0}
    BY <1>1, PowersPositive
  <2>. HIDE DEF m, p
  <2>2. x % p \in 0 .. p - 1
    BY <2>1, Remainder
  <2>3. x % p \in Nat
    BY <2>1, <2>2
  <2>. QED
    BY <2>3 DEF p
<1>3. UChar(x * 2 ^ (ByteBits - m)) = 2 ^ (ByteBits - m) * y
  BY <1>1, ShiftedUp
<1>4. 2 * x = x * 2 /\ UChar(2 * x) = 2 * y
  <2>1. 2 * x = x * 2
    OBVIOUS
  <2>. HIDE DEF m
  <2>. QED
    BY <1>1, <1>3, <2>1
<1>5. 1 \in Nat /\ c \in 0 .. 2 ^ 1 - 1 /\ k \in Nat
  BY <1>1, ByteRange
<1>. HIDE DEF y
<1>6. BitOf(2 ^ 1 * y + c, k) = IF k < 1 THEN BitOf(c, k) ELSE BitOf(y, k - 1)
  BY <1>2, <1>5, BitsOfSum
<1>7. BitOf(UChar(2 * x) + c, k) = IF k < 1 THEN BitOf(c, k) ELSE BitOf(y, k - 1)
  BY <1>1, <1>4, <1>6
<1>8. CASE k = 0
  <2>1. c \div 1 = c /\ c % 2 = c
    OBVIOUS
  <2>2. BitOf(c, 0) = c
    BY <1>1, <2>1 DEF BitOf
  <2>. QED
    BY <1>7, <1>8, <2>2
<1>9. CASE k # 0
  <2>1. k - 1 \in Nat /\ k - 1 < m /\ ~ (k < 1)
    BY <1>5, <1>9, ByteRange
  <2>2. BitOf(y, k - 1) = BitOf(x, k - 1)
    BY <1>1, <2>1, LowerBits DEF y
  <2>. QED
    BY <1>7, <1>9, <2>1, <2>2
<1>. QED
  BY <1>8, <1>9

-------------------------------------------------------------------------------
(* The bits of a stream that is written. *)

(* The bits that were put, those that wait in bitBuffer included.            *)
BitsInFile(s) == Len(s.file) * ByteBits
PutSize(s) == BitsInFile(s) + s.bitCount

PutBitAt(s, n) ==
  IF n < BitsInFile(s) THEN FileBit(s.file, n)
  ELSE BitOf(s.bitBuffer, s.bitCount - 1 - (n - BitsInFile(s)))

HasRoom(s, k) == PutSize(s) + k <= s.room * ByteBits

(* t is s with the k bits of b, a function from 0, put behind it.            *)
Puts(s, t, k, b) ==
  /\ t \in Streams /\ t.ok /\ t.room = s.room
  /\ PutSize(t) = PutSize(s) + k
  /\ \A n \in 0 .. PutSize(s) - 1 : PutBitAt(t, n) = PutBitAt(s, n)
  /\ \A j \in 0 .. k - 1 : PutBitAt(t, PutSize(s) + j) = b[j]

(* Bit j of byte k of a file.                                                *)
LEMMA BitPlace ==
  ASSUME NEW k \in Nat, NEW j \in 0 .. ByteBits - 1
  PROVE  /\ k * ByteBits \in Nat
         /\ (k * ByteBits + j) \div ByteBits = k
         /\ (k * ByteBits + j) % ByteBits = j
<1>. DEFINE d == ByteBits
<1>1. d \in Nat \ {0} /\ j \in 0 .. d - 1
  BY ByteRange
<1>. HIDE DEF d
<1>2. k * d = d * k /\ k * d \in Nat
  BY <1>1
<1>3. (d * k + j) \div d = k /\ (d * k + j) % d = j
  BY <1>1, Remainder
<1>4. (k * d + j) \div d = k /\ (k * d + j) % d = j
  BY <1>2, <1>3
<1>. QED
  BY <1>2, <1>4 DEF d

(* Where a bit before the end of a file is.                                  *)
LEMMA BitInside ==
  ASSUME NEW k \in Nat, NEW n \in Nat, n < k * ByteBits
  PROVE  /\ n \div ByteBits \in 0 .. k - 1
         /\ n % ByteBits \in 0 .. ByteBits - 1
<1>. DEFINE d == ByteBits
            q == n \div d
<1>1. d \in Nat \ {0} /\ n < k * d
  BY ByteRange
<1>. HIDE DEF d
<1>2. q \in Nat /\ n % d \in 0 .. d - 1 /\ n = d * q + (n % d)
  BY <1>1, Remainder
<1>. HIDE DEF q
<1>3. q < k
  <2>. SUFFICES ASSUME ~ (q < k) PROVE FALSE
    OBVIOUS
  <2>. DEFINE e == q - k
  <2>1. e \in Nat /\ q = k + e
    BY <1>2
  <2>. HIDE DEF e
  <2>2. d * q = k * d + d * e /\ d * e \in Nat
    BY <1>1, <2>1
  <2>. QED
    BY <1>1, <1>2, <2>2
<1>. QED
  BY <1>2, <1>3 DEF q, d

(* A byte at the end of a file.                                              *)
LEMMA AppendedBits ==
  ASSUME NEW file \in Seq(Byte), NEW v \in Nat
  PROVE  LET new == Append(file, UChar(v))
             l == Len(file)
         IN /\ l \in Nat /\ l * ByteBits \in Nat /\ (l + 1) * ByteBits = l * ByteBits + ByteBits
            /\ new \in Seq(Byte) /\ Len(new) = l + 1
            /\ \A n \in 0 .. l * ByteBits - 1 : FileBit(new, n) = FileBit(file, n)
            /\ \A j \in 0 .. ByteBits - 1 :
                 FileBit(new, l * ByteBits + j) = BitOf(v, ByteBits - 1 - j)
<1>. DEFINE c == UChar(v)
            new == Append(file, c)
            l == Len(file)
            d == ByteBits
<1>1. c \in Byte /\ d \in Nat \ {0}
  BY ByteRange
<1>. HIDE DEF c
<1>2. /\ l \in Nat /\ new \in Seq(Byte) /\ Len(new) = l + 1
      /\ \A x \in 1 .. l : new[x] = file[x]
      /\ new[l + 1] = c
  BY <1>1, AppendProperties
<1>3. l * d \in Nat /\ (l + 1) * d = l * d + d
  <2>. HIDE DEF l, d
  <2>. QED
    BY <1>1, <1>2
<1>4. ASSUME NEW n \in 0 .. l * d - 1 PROVE FileBit(new, n) = FileBit(file, n)
  <2>1. n \in Nat /\ n < l * d
    BY <1>3
  <2>2. n \div d \in 0 .. l - 1
    BY <1>2, <2>1, BitInside
  <2>3. n \div d + 1 \in 1 .. l
    BY <1>2, <2>2
  <2>4. new[(n \div d) + 1] = file[(n \div d) + 1]
    BY <1>2, <2>3
  <2>. HIDE DEF new
  <2>. QED
    BY <2>4 DEF FileBit
<1>5. ASSUME NEW j \in 0 .. d - 1 PROVE FileBit(new, l * d + j) = BitOf(v, d - 1 - j)
  <2>1. (l * d + j) \div d = l /\ (l * d + j) % d = j
    BY <1>2, BitPlace
  <2>2. FileBit(new, l * d + j) = BitOf(c, d - 1 - j)
    <3>. HIDE DEF new, l, d
    <3>. QED
      BY <1>2, <2>1 DEF FileBit, d
  <2>3. d - 1 - j \in 0 .. ByteBits - 1
    BY <1>1
  <2>. QED
    BY <2>2, <2>3, UCharBits DEF c
<1>. HIDE DEF new, l, d
<1>. QED
  BY <1>2, <1>3, <1>4, <1>5 DEF new, l, d, c

(* A byte that the file has room for is written.                             *)
LEMMA WriteByte ==
  ASSUME NEW b \in Nat, NEW s \in StreamsUpTo(b), NEW v \in Nat, Len(s.file) < s.room
  PROVE  FPutC(v, s) = [s EXCEPT !.file = Append(s.file, UChar(v)), !.ok = TRUE]
BY DEF FPutC

(* The number of bits of a stream.                                           *)
LEMMA PutSizes ==
  ASSUME NEW s \in Streams
  PROVE  /\ s.file \in Seq(Byte) /\ Len(s.file) \in Nat /\ s.room \in Nat
         /\ BitsInFile(s) \in Nat /\ s.bitCount \in 0 .. ByteBits - 1 /\ s.bitBuffer \in Nat
         /\ PutSize(s) \in Nat
         /\ \A k \in Nat : HasRoom(s, k) /\ k + s.bitCount > 0 => Len(s.file) < s.room
<1>. DEFINE l == Len(s.file)
            d == ByteBits
            r == s.room
<1>1. /\ s.file \in Seq(Byte) /\ l \in Nat /\ r \in Nat /\ s.bitCount \in 0 .. d - 1
      /\ s.bitBuffer \in Nat /\ d \in Nat \ {0}
  BY ByteRange DEF Streams, StreamsUpTo
<1>2. BitsInFile(s) = l * d /\ PutSize(s) = l * d + s.bitCount
  BY DEF BitsInFile, PutSize
<1>. HIDE DEF l, d
<1>3. l * d \in Nat
  BY <1>1
<1>4. ASSUME NEW k \in Nat, HasRoom(s, k), k + s.bitCount > 0 PROVE l < r
  <2>1. l * d + s.bitCount + k <= r * d
    BY <1>2, <1>4 DEF HasRoom, d
  <2>. SUFFICES ASSUME ~ (l < r) PROVE FALSE
    OBVIOUS
  <2>. DEFINE e == l - r
  <2>2. e \in Nat /\ l = r + e
    BY <1>1
  <2>. HIDE DEF e, r
  <2>3. l * d = r * d + e * d /\ e * d \in Nat /\ r * d \in Nat
    BY <1>1, <2>2
  <2>. QED
    BY <1>1, <1>4, <2>1, <2>3
<1>. QED
  BY <1>1, <1>2, <1>3, <1>4 DEF l, d

(* BitFilePutBit puts one bit behind the others.                             *)
LEMMA PutBitPuts ==
  ASSUME NEW c \in {0, 1}, NEW s \in Streams, HasRoom(s, 1), NEW b, b[0] = c
  PROVE  Puts(s, PutBit(c, s), 1, b)
<1>. DEFINE l == BitsInFile(s)
            w == s.bitCount
            d == ByteBits
            buf == s.bitBuffer
            v == UChar(2 * buf) + c
            t == [s EXCEPT !.bitCount = w + 1, !.bitBuffer = v, !.ok = TRUE]
            u == PutBit(c, s)
<1>1. /\ s.file \in Seq(Byte) /\ Len(s.file) \in Nat /\ s.room \in Nat
      /\ l \in Nat /\ w \in 0 .. d - 1 /\ buf \in Nat /\ d \in Nat \ {0}
      /\ Len(s.file) < s.room /\ PutSize(s) = l + w /\ l = Len(s.file) * d
  <2>1. 1 + s.bitCount > 0
    BY PutSizes
  <2>. QED
    BY <2>1, PutSizes, ByteRange DEF PutSize, BitsInFile
<1>2. v \in Nat /\ \A k \in 0 .. d - 1 : BitOf(v, k) = IF k = 0 THEN c ELSE BitOf(buf, k - 1)
  <2>1. UChar(2 * buf) \in Nat
    <3>1. 2 * buf \in Nat
      BY <1>1
    <3>. QED
      BY <3>1, ByteRange
  <2>. HIDE DEF buf
  <2>2. \A k \in 0 .. d - 1 : BitOf(v, k) = IF k = 0 THEN c ELSE BitOf(buf, k - 1)
    BY <1>1, ShiftedIn
  <2>. QED
    BY <2>1, <2>2
<1>3. u = IF t.bitCount = d THEN Emptied(FPutC(t.bitBuffer, t)) ELSE t
  <2>. DEFINE e == IF c # 0 THEN 1 ELSE 0
              t0 == [s EXCEPT !.bitCount = @ + 1, !.bitBuffer = UChar(2 * @) + e, !.ok = TRUE]
  <2>1. u = IF t0.bitCount = d THEN Emptied(FPutC(t0.bitBuffer, t0)) ELSE t0
    BY DEF PutBit
  <2>2. e = c
    OBVIOUS
  <2>. HIDE DEF e
  <2>3. t0 = t
    BY <2>2
  <2>. HIDE DEF t0, t
  <2>. QED
    BY <2>1, <2>3
<1>4. u \in Streams
  BY PutBitType
<1>5. t.bitCount = w + 1 /\ t.bitBuffer = v /\ t.file = s.file /\ t.room = s.room /\ t.ok
  BY DEF Streams, StreamsUpTo
<1>. HIDE DEF v, w, buf
<1>6. CASE w + 1 = d
  <2>. DEFINE new == Append(s.file, UChar(v))
  <2>1. t \in StreamsUpTo(d)
    <3>1. w + 1 \in 0 .. d
      BY <1>1, <1>6
    <3>. QED
      BY <1>2, <3>1 DEF Streams, StreamsUpTo
  <2>2. FPutC(v, t) = [t EXCEPT !.file = new, !.ok = TRUE]
    <3>1. d \in Nat /\ Len(t.file) < t.room
      BY <1>1, <1>5
    <3>. HIDE DEF t, d
    <3>2. v \in Nat
      BY <1>2
    <3>3. FPutC(v, t) = [t EXCEPT !.file = Append(t.file, UChar(v)), !.ok = TRUE]
      BY <2>1, <3>1, <3>2, WriteByte
    <3>. QED
      BY <1>5, <3>3
  <2>3. u = Emptied([t EXCEPT !.file = new, !.ok = TRUE])
    BY <1>3, <1>5, <1>6, <2>2
  <2>4. u.file = new /\ u.room = s.room /\ u.ok /\ u.bitCount = 0
    BY <2>3 DEF Emptied, Streams, StreamsUpTo
  <2>5. /\ Len(new) = Len(s.file) + 1 /\ (Len(s.file) + 1) * d = l + d
        /\ \A n \in 0 .. l - 1 : FileBit(new, n) = FileBit(s.file, n)
        /\ \A j \in 0 .. d - 1 : FileBit(new, l + j) = BitOf(v, d - 1 - j)
    BY <1>1, <1>2, AppendedBits
  <2>. HIDE DEF new, t, u
  <2>6. BitsInFile(u) = l + d /\ PutSize(u) = l + d
    BY <1>1, <2>4, <2>5 DEF BitsInFile, PutSize
  <2>. HIDE DEF l, d
  <2>7. ASSUME NEW n \in 0 .. PutSize(s) - 1 PROVE PutBitAt(u, n) = PutBitAt(s, n)
    <3>1. n < l + d /\ PutBitAt(u, n) = FileBit(new, n)
      BY <1>1, <2>4, <2>6 DEF PutBitAt
    <3>2. CASE n < l
      <4>1. n \in 0 .. l - 1
        BY <1>1, <3>2
      <4>. QED
        BY <2>5, <3>1, <3>2, <4>1 DEF PutBitAt, l
    <3>3. CASE ~ (n < l)
      <4>. DEFINE j == n - l
      <4>1. /\ j \in 0 .. d - 1 /\ d - 1 - j \in 0 .. d - 1 /\ d - 1 - j # 0
            /\ n = l + j /\ (d - 1 - j) - 1 = w - 1 - j
        BY <1>1, <1>6, <3>3
      <4>. HIDE DEF j
      <4>2. FileBit(new, n) = BitOf(v, d - 1 - j)
        BY <2>5, <4>1
      <4>3. BitOf(v, d - 1 - j) = BitOf(buf, w - 1 - j)
        BY <1>2, <4>1
      <4>4. PutBitAt(s, n) = BitOf(buf, w - 1 - j)
        BY <3>3 DEF PutBitAt, l, buf, w, j
      <4>. QED
        BY <3>1, <4>2, <4>3, <4>4
    <3>. QED
      BY <3>2, <3>3
  <2>8. PutBitAt(u, PutSize(s)) = c
    <3>1. PutSize(s) = l + w /\ w \in 0 .. d - 1 /\ d - 1 - w = 0 /\ 0 \in 0 .. d - 1
      BY <1>1, <1>6
    <3>2. FileBit(new, l + w) = BitOf(v, 0)
      BY <2>5, <3>1
    <3>3. PutBitAt(u, PutSize(s)) = FileBit(new, l + w)
      BY <1>1, <2>4, <2>6, <3>1 DEF PutBitAt
    <3>. QED
      BY <1>2, <3>1, <3>2, <3>3
  <2>9. PutSize(u) = PutSize(s) + 1
    BY <1>1, <1>6, <2>6
  <2>10. \A j \in 0 .. 1 - 1 : PutBitAt(u, PutSize(s) + j) = b[j]
    BY <1>1, <2>8
  <2>. QED
    BY <1>4, <2>4, <2>7, <2>9, <2>10 DEF Puts, u
<1>7. CASE w + 1 # d
  <2>1. u = t
    BY <1>3, <1>5, <1>7
  <2>. HIDE DEF u, t
  <2>2. BitsInFile(u) = l /\ PutSize(u) = l + w + 1
    <3>1. BitsInFile(t) = l
      BY <1>5 DEF BitsInFile
    <3>. HIDE DEF l
    <3>2. PutSize(t) = l + (w + 1)
      BY <1>5, <3>1 DEF PutSize
    <3>3. l \in Nat /\ w \in Int
      BY <1>1
    <3>4. l + (w + 1) = l + w + 1
      BY <3>3
    <3>. QED
      BY <2>1, <3>1, <3>2, <3>4
  <2>. HIDE DEF l, d
  <2>3. ASSUME NEW n \in 0 .. PutSize(s) - 1 PROVE PutBitAt(u, n) = PutBitAt(s, n)
    <3>1. CASE n < l
      BY <1>5, <2>1, <2>2, <3>1 DEF PutBitAt, l
    <3>2. CASE ~ (n < l)
      <4>. DEFINE j == n - l
      <4>1. /\ j \in 0 .. w - 1 /\ w - j \in 0 .. d - 1 /\ w - j # 0
            /\ (w + 1) - 1 - j = w - j /\ (w - j) - 1 = w - 1 - j
        BY <1>1, <1>7, <3>2
      <4>2. PutBitAt(u, n) = BitOf(v, (w + 1) - 1 - j)
        BY <1>5, <2>1, <2>2, <3>2 DEF PutBitAt
      <4>3. PutBitAt(s, n) = BitOf(buf, w - 1 - j)
        BY <3>2 DEF PutBitAt, l, buf, w
      <4>. HIDE DEF j
      <4>4. BitOf(v, w - j) = BitOf(buf, w - 1 - j)
        BY <1>2, <4>1
      <4>. QED
        BY <4>1, <4>2, <4>3, <4>4
    <3>. QED
      BY <3>1, <3>2
  <2>4. PutBitAt(u, PutSize(s)) = c
    <3>1. PutSize(s) = l + w /\ ~ (l + w < l) /\ (w + 1) - 1 - ((l + w) - l) = 0 /\ 0 \in 0 .. d - 1
      BY <1>1
    <3>2. PutBitAt(u, l + w) = BitOf(v, (w + 1) - 1 - ((l + w) - l))
      BY <1>5, <2>1, <2>2, <3>1 DEF PutBitAt
    <3>. QED
      BY <1>2, <3>1, <3>2
  <2>5. \A j \in 0 .. 1 - 1 : PutBitAt(u, PutSize(s) + j) = b[j]
    BY <1>1, <2>4
  <2>6. PutSize(u) = PutSize(s) + 1
    BY <1>1, <2>2
  <2>. QED
    BY <1>4, <1>5, <2>1, <2>3, <2>5, <2>6 DEF Puts, u
<1>. QED
  BY <1>6, <1>7

(* A byte that is put beside k waiting bits: these are its upper bits, and   *)
(* below them are the upper bits of the new byte.                            *)
LEMMA CombinedBits ==
  ASSUME NEW buf \in Nat, NEW c \in Nat, NEW k \in 1 .. ByteBits - 1
  PROVE  LET v == UChar(c) \div 2 ^ k + buf * 2 ^ (ByteBits - k)
         IN /\ v \in Nat
            /\ \A j \in 0 .. ByteBits - 1 :
                 BitOf(v, j) = IF j < ByteBits - k THEN BitOf(c, k + j)
                               ELSE BitOf(buf, j - (ByteBits - k))
<1>. DEFINE m == ByteBits - k
            h == UChar(c) \div 2 ^ k
            q == 2 ^ m
            v == h + buf * q
<1>1. k \in Nat /\ m \in Nat /\ k + m = ByteBits /\ ByteBits \in Nat
  BY ByteRange
<1>2. UChar(c) \in 0 .. 2 ^ (k + m) - 1
  BY <1>1, ByteRange DEF Byte
<1>3. UChar(c) \in Nat
  BY ByteRange
<1>. HIDE DEF m
<1>4. h \in 0 .. q - 1
  BY <1>1, <1>2, QuotientBelow
<1>5. q \in Nat \ {0} /\ h \in Nat
  <2>1. q \in Nat \ {0}
    BY <1>1, PowersPositive
  <2>. HIDE DEF q, h
  <2>. QED
    BY <1>4, <2>1
<1>6. v = q * buf + h /\ v \in Nat
  <2>. HIDE DEF q, h
  <2>. QED
    BY <1>5
<1>7. ASSUME NEW j \in 0 .. ByteBits - 1
      PROVE  BitOf(v, j) = IF j < m THEN BitOf(c, k + j) ELSE BitOf(buf, j - m)
  <2>1. j \in Nat
    BY <1>1
  <2>. HIDE DEF v, h
  <2>2. BitOf(2 ^ m * buf + h, j) = IF j < m THEN BitOf(h, j) ELSE BitOf(buf, j - m)
    <3>1. h \in 0 .. 2 ^ m - 1 /\ m \in Nat
      BY <1>1, <1>4
    <3>. QED
      BY <2>1, <3>1, BitsOfSum
  <2>3. j < m => BitOf(h, j) = BitOf(UChar(c), k + j)
    BY <1>1, <1>3, <2>1, BitAbove DEF h
  <2>4. j < m => BitOf(UChar(c), k + j) = BitOf(c, k + j)
    <3>1. j < m => k + j \in 0 .. ByteBits - 1
      BY <1>1, <2>1
    <3>. QED
      BY <3>1, UCharBits
  <2>. QED
    BY <1>6, <2>2, <2>3, <2>4
<1>. QED
  BY <1>6, <1>7 DEF m

(* The k waiting bits as they come out on top of the last byte.              *)
LEMMA AlignedBits ==
  ASSUME NEW s \in Streams
  PROVE  /\ LeftAligned(s, 0) \in Nat
         /\ \A j \in 0 .. s.bitCount - 1 :
              BitOf(LeftAligned(s, 0), ByteBits - 1 - j) = BitOf(s.bitBuffer, s.bitCount - 1 - j)
<1>. DEFINE k == s.bitCount
            m == ByteBits - k
            buf == s.bitBuffer
            y == buf % 2 ^ k
            v == LeftAligned(s, 0)
<1>1. k \in 0 .. ByteBits - 1 /\ k \in 0 .. ByteBits /\ k \in Nat /\ m \in Nat /\ k + m = ByteBits
      /\ buf \in Nat /\ ByteBits \in Nat
  BY PutSizes, ByteRange
<1>2. v = UChar(buf * 2 ^ m) + 0
  BY DEF LeftAligned
<1>. HIDE DEF v, buf, k
<1>3. UChar(buf * 2 ^ m) = 2 ^ m * y /\ 2 ^ m \in Nat \ {0} /\ y \in Nat /\ 2 ^ k \in Nat \ {0}
  <2>1. /\ UChar(buf * 2 ^ m) = 2 ^ m * y /\ 2 ^ m \in Nat \ {0} /\ y \in 0 .. 2 ^ k - 1
        /\ 2 ^ k \in Nat \ {0}
    BY <1>1, ShiftedUp
  <2>. DEFINE p == 2 ^ k
  <2>2. y \in 0 .. p - 1 /\ p \in Nat
    BY <2>1
  <2>. HIDE DEF p, y
  <2>3. y \in Nat
    BY <2>2
  <2>. QED
    BY <2>1, <2>3
<1>4. v = 2 ^ m * y + 0 /\ v \in Nat
  <2>. DEFINE p == 2 ^ m
              u == UChar(buf * p)
  <2>1. v = u + 0 /\ u = p * y /\ p \in Nat /\ y \in Nat
    BY <1>2, <1>3
  <2>. HIDE DEF p, u, y
  <2>2. v = p * y + 0 /\ v \in Nat
    BY <2>1
  <2>. QED
    BY <2>2 DEF p
<1>5. ASSUME NEW j \in 0 .. k - 1
      PROVE  BitOf(v, ByteBits - 1 - j) = BitOf(buf, k - 1 - j)
  <2>1. /\ ByteBits - 1 - j \in Nat /\ ~ (ByteBits - 1 - j < m)
        /\ (ByteBits - 1 - j) - m = k - 1 - j /\ k - 1 - j \in Nat /\ k - 1 - j < k
    BY <1>1
  <2>2. 0 \in 0 .. 2 ^ m - 1
    <3>. DEFINE p == 2 ^ m
    <3>1. p \in Nat \ {0}
      BY <1>3
    <3>. HIDE DEF p
    <3>2. 0 \in 0 .. p - 1
      BY <3>1
    <3>. QED
      BY <3>2 DEF p
  <2>. DEFINE x == ByteBits - 1 - j
  <2>. HIDE DEF m, y, x
  <2>3. BitOf(2 ^ m * y + 0, x) = BitOf(y, x - m)
    <3>1. y \in Nat /\ m \in Nat /\ x \in Nat /\ ~ (x < m)
      BY <1>1, <1>3, <2>1 DEF x
    <3>2. BitOf(2 ^ m * y + 0, x) = IF x < m THEN BitOf(0, x) ELSE BitOf(y, x - m)
      BY <2>2, <3>1, BitsOfSum
    <3>. QED
      BY <3>1, <3>2
  <2>4. BitOf(y, k - 1 - j) = BitOf(buf, k - 1 - j)
    BY <1>1, <2>1, LowerBits DEF y
  <2>. QED
    BY <1>4, <2>1, <2>3, <2>4 DEF x
<1>. QED
  BY <1>4, <1>5 DEF v, buf, k

(* BitFilePutChar puts the bits of a byte behind the others, from the top.   *)
LEMMA PutCharPuts ==
  ASSUME NEW c \in Nat, NEW s \in Streams, HasRoom(s, ByteBits),
         NEW b, \A j \in 0 .. ByteBits - 1 : b[j] = BitOf(c, ByteBits - 1 - j)
  PROVE  Puts(s, PutChar(c, s), ByteBits, b)
<1>. DEFINE l == BitsInFile(s)
            w == s.bitCount
            d == ByteBits
            buf == s.bitBuffer
            v == IF w = 0 THEN c ELSE UChar(c) \div 2 ^ w + buf * 2 ^ (d - w)
            new == Append(s.file, UChar(v))
            rest == IF w = 0 THEN buf ELSE UChar(c)
            u == PutChar(c, s)
<1>1. /\ s.file \in Seq(Byte) /\ Len(s.file) \in Nat /\ s.room \in Nat
      /\ l \in Nat /\ w \in 0 .. d - 1 /\ buf \in Nat /\ d \in Nat \ {0}
      /\ Len(s.file) < s.room /\ PutSize(s) = l + w /\ l = Len(s.file) * d
  <2>1. ByteBits + s.bitCount > 0 /\ ByteBits \in Nat
    BY PutSizes, ByteRange
  <2>. QED
    BY <2>1, PutSizes, ByteRange DEF PutSize, BitsInFile
<1>2. v \in Nat
  <2>1. CASE w = 0
    BY <2>1
  <2>2. CASE w # 0
    <3>1. w \in 1 .. d - 1
      BY <1>1, <2>2
    <3>. QED
      BY <1>1, <2>2, <3>1, CombinedBits
  <2>. QED
    BY <2>1, <2>2
<1>3. u = [s EXCEPT !.file = new, !.ok = TRUE, !.bitBuffer = rest]
  <2>. HIDE DEF v
  <2>1. FPutC(v, s) = [s EXCEPT !.file = new, !.ok = TRUE]
    <3>1. s \in StreamsUpTo(d - 1) /\ d - 1 \in Nat
      BY <1>1 DEF Streams
    <3>. QED
      BY <1>1, <1>2, <3>1, WriteByte
  <2>. DEFINE f == FPutC(v, s)
  <2>2. u = IF w = 0 THEN f ELSE IF f.ok THEN [f EXCEPT !.bitBuffer = UChar(c)] ELSE f
    BY DEF PutChar, Rest, v
  <2>3. f.ok /\ [f EXCEPT !.bitBuffer = rest] = [s EXCEPT !.file = new, !.ok = TRUE, !.bitBuffer = rest]
    BY <2>1 DEF Streams, StreamsUpTo
  <2>4. w = 0 => f = [f EXCEPT !.bitBuffer = rest]
    BY <2>1 DEF Streams, StreamsUpTo
  <2>. HIDE DEF f, u, new
  <2>. QED
    BY <2>2, <2>3, <2>4
<1>4. u \in Streams
  BY PutCharType
<1>5. u.file = new /\ u.room = s.room /\ u.ok /\ u.bitCount = w /\ u.bitBuffer = rest
  BY <1>3 DEF Streams, StreamsUpTo
<1>6. /\ Len(new) = Len(s.file) + 1 /\ (Len(s.file) + 1) * d = l + d
      /\ \A n \in 0 .. l - 1 : FileBit(new, n) = FileBit(s.file, n)
      /\ \A j \in 0 .. d - 1 : FileBit(new, l + j) = BitOf(v, d - 1 - j)
  <2>. HIDE DEF v
  <2>. QED
    BY <1>1, <1>2, AppendedBits
<1>7. \A j \in 0 .. d - 1 :
        BitOf(v, d - 1 - j) = IF j < w THEN BitOf(buf, w - 1 - j)
                              ELSE BitOf(c, d - 1 - (j - w))
  <2>1. CASE w = 0
    <3>1. \A j \in 0 .. d - 1 : ~ (j < w) /\ j - w = j
      BY <1>1, <2>1
    <3>. QED
      BY <2>1, <3>1
  <2>2. CASE w # 0
    <3>1. w \in 1 .. d - 1
      BY <1>1, <2>2
    <3>2. \A j \in 0 .. d - 1 :
            BitOf(v, j) = IF j < d - w THEN BitOf(c, w + j) ELSE BitOf(buf, j - (d - w))
      <4>1. v = UChar(c) \div 2 ^ w + buf * 2 ^ (d - w) /\ buf \in Nat
        BY <1>1, <2>2
      <4>. HIDE DEF v, w, buf
      <4>. QED
        BY <3>1, <4>1, CombinedBits
    <3>. HIDE DEF v, w, d
    <3>3. ASSUME NEW j \in 0 .. d - 1
          PROVE  BitOf(v, d - 1 - j) = IF j < w THEN BitOf(buf, w - 1 - j)
                                       ELSE BitOf(c, d - 1 - (j - w))
      <4>1. d - 1 - j \in 0 .. d - 1
        BY <1>1
      <4>2. j < w => ~ (d - 1 - j < d - w) /\ (d - 1 - j) - (d - w) = w - 1 - j
        BY <1>1, <3>1
      <4>3. ~ (j < w) => d - 1 - j < d - w /\ w + (d - 1 - j) = d - 1 - (j - w)
        BY <1>1, <3>1
      <4>. QED
        BY <3>2, <4>1, <4>2, <4>3
    <3>. QED
      BY <3>3
  <2>. QED
    BY <2>1, <2>2
<1>. HIDE DEF new, u, v, rest
<1>8. BitsInFile(u) = l + d /\ PutSize(u) = l + w + d
  <2>1. BitsInFile(u) = l + d
    BY <1>1, <1>5, <1>6 DEF BitsInFile
  <2>. HIDE DEF l, d, w
  <2>2. PutSize(u) = (l + d) + w
    BY <1>5, <2>1 DEF PutSize
  <2>3. l \in Nat /\ d \in Nat /\ w \in Int
    BY <1>1
  <2>. QED
    BY <2>1, <2>2, <2>3
<1>9. \A x \in 0 .. d - 1 : BitOf(UChar(c), x) = BitOf(c, x)
  BY UCharBits
<1>. HIDE DEF l, d, w, buf
<1>10. l \in Nat /\ d \in Nat \ {0} /\ w \in 0 .. d - 1
  BY <1>1
<1>11. ASSUME NEW n \in 0 .. PutSize(s) - 1 PROVE PutBitAt(u, n) = PutBitAt(s, n)
  <2>1. n < l + d /\ n \in Int
    BY <1>1, <1>10
  <2>2. PutBitAt(u, n) = FileBit(new, n)
    BY <1>5, <1>8, <2>1 DEF PutBitAt
  <2>3. CASE n < l
    <3>1. n \in 0 .. l - 1
      BY <1>10, <2>3
    <3>. QED
      BY <1>6, <2>2, <2>3, <3>1 DEF PutBitAt, l
  <2>4. CASE ~ (n < l)
    <3>. DEFINE j == n - l
    <3>1. j \in 0 .. d - 1 /\ n = l + j /\ j < w
      BY <1>1, <1>10, <2>1, <2>4
    <3>2. PutBitAt(s, n) = BitOf(buf, w - 1 - j)
      BY <2>4 DEF PutBitAt, l, buf, w
    <3>. HIDE DEF j
    <3>. QED
      BY <1>6, <1>7, <2>2, <3>1, <3>2
  <2>. QED
    BY <2>3, <2>4
<1>12. ASSUME NEW j \in 0 .. d - 1 PROVE PutBitAt(u, PutSize(s) + j) = b[j]
  <2>1. b[j] = BitOf(c, d - 1 - j)
    BY DEF d
  <2>2. CASE w + j < d
    <3>1. PutSize(s) + j = l + (w + j) /\ l + (w + j) < l + d /\ w + j \in 0 .. d - 1
          /\ ~ (w + j < w) /\ (w + j) - w = j
      <4>1. PutSize(s) = l + w /\ j \in Nat
        BY <1>1, <1>10
      <4>. QED
        BY <1>10, <2>2, <4>1
    <3>2. PutBitAt(u, l + (w + j)) = FileBit(new, l + (w + j))
      BY <1>5, <1>8, <3>1 DEF PutBitAt
    <3>3. FileBit(new, l + (w + j)) = BitOf(v, d - 1 - (w + j))
      BY <1>6, <3>1
    <3>4. BitOf(v, d - 1 - (w + j)) = BitOf(c, d - 1 - j)
      BY <1>7, <3>1
    <3>. QED
      BY <2>1, <3>1, <3>2, <3>3, <3>4
  <2>3. CASE ~ (w + j < d)
    <3>1. /\ ~ (PutSize(s) + j < l + d) /\ w - 1 - ((PutSize(s) + j) - (l + d)) = d - 1 - j
          /\ d - 1 - j \in 0 .. d - 1 /\ w # 0
      BY <1>1, <1>10, <2>3
    <3>2. rest = UChar(c)
      BY <3>1 DEF rest
    <3>3. PutBitAt(u, PutSize(s) + j) = BitOf(UChar(c), d - 1 - j)
      BY <1>5, <1>8, <3>1, <3>2 DEF PutBitAt
    <3>. QED
      BY <1>9, <2>1, <3>1, <3>3
  <2>. QED
    BY <2>2, <2>3
<1>13. PutSize(u) = PutSize(s) + d
  BY <1>1, <1>8, <1>10
<1>. QED
  BY <1>4, <1>5, <1>11, <1>12, <1>13 DEF Puts, d, u

-------------------------------------------------------------------------------
(* What is put in several calls. *)

(* No bits are there already.                                                *)
LEMMA PutsNothing ==
  ASSUME NEW s \in Streams, NEW b
  PROVE  Puts(s, [s EXCEPT !.ok = TRUE], 0, b)
<1>. DEFINE t == [s EXCEPT !.ok = TRUE]
<1>1. /\ t \in Streams /\ t.ok /\ t.room = s.room /\ t.file = s.file
      /\ t.bitCount = s.bitCount /\ t.bitBuffer = s.bitBuffer
  BY DEF Streams, StreamsUpTo
<1>. HIDE DEF t
<1>2. BitsInFile(t) = BitsInFile(s) /\ PutSize(t) = PutSize(s) /\ PutSize(s) \in Nat
  BY <1>1, PutSizes DEF BitsInFile, PutSize
<1>3. \A n : PutBitAt(t, n) = PutBitAt(s, n)
  BY <1>1, <1>2 DEF PutBitAt
<1>4. PutSize(t) = PutSize(s) + 0 /\ 0 .. 0 - 1 = {}
  BY <1>2
<1>. QED
  BY <1>1, <1>3, <1>4 DEF Puts, t

(* Bits behind bits.                                                         *)
LEMMA PutsMore ==
  ASSUME NEW s \in Streams, NEW t, NEW u, NEW k \in Nat, NEW m \in Nat, NEW b, NEW c, NEW e,
         Puts(s, t, k, b), Puts(t, u, m, c),
         \A j \in 0 .. k - 1 : e[j] = b[j], \A j \in 0 .. m - 1 : e[k + j] = c[j]
  PROVE  Puts(s, u, k + m, e)
<1>. DEFINE l == PutSize(s)
<1>1. /\ t.room = s.room /\ PutSize(t) = l + k /\ l \in Nat
      /\ \A n \in 0 .. l - 1 : PutBitAt(t, n) = PutBitAt(s, n)
      /\ \A j \in 0 .. k - 1 : PutBitAt(t, l + j) = b[j]
  BY PutSizes DEF Puts
<1>2. /\ u \in Streams /\ u.ok /\ u.room = t.room /\ PutSize(u) = PutSize(t) + m
      /\ \A n \in 0 .. PutSize(t) - 1 : PutBitAt(u, n) = PutBitAt(t, n)
      /\ \A j \in 0 .. m - 1 : PutBitAt(u, PutSize(t) + j) = c[j]
  BY DEF Puts
<1>. HIDE DEF l
<1>3. \A n \in 0 .. l - 1 : PutBitAt(u, n) = PutBitAt(s, n)
  <2>1. \A n \in 0 .. l - 1 : n \in 0 .. PutSize(t) - 1
    BY <1>1
  <2>. QED
    BY <1>1, <1>2, <2>1
<1>4. ASSUME NEW j \in 0 .. (k + m) - 1 PROVE PutBitAt(u, l + j) = e[j]
  <2>1. CASE j < k
    <3>1. j \in 0 .. k - 1 /\ l + j \in 0 .. PutSize(t) - 1
      BY <1>1, <2>1
    <3>. QED
      BY <1>1, <1>2, <3>1
  <2>2. CASE ~ (j < k)
    <3>. DEFINE i0 == j - k
    <3>1. i0 \in 0 .. m - 1 /\ j = k + i0 /\ l + j = PutSize(t) + i0
      BY <1>1, <2>2
    <3>. HIDE DEF i0
    <3>. QED
      BY <1>2, <3>1
  <2>. QED
    BY <2>1, <2>2
<1>5. PutSize(u) = l + (k + m)
  BY <1>1, <1>2
<1>. QED
  BY <1>1, <1>2, <1>3, <1>4, <1>5 DEF Puts, l

(* What the room is still enough for.                                        *)
LEMMA RoomLeft ==
  ASSUME NEW s \in Streams, NEW t, NEW k \in Nat, NEW b, Puts(s, t, k, b),
         NEW m \in Nat, NEW n \in Nat, k + m <= n, HasRoom(s, n)
  PROVE  HasRoom(t, m)
<1>. DEFINE r == s.room * ByteBits
<1>1. PutSize(s) \in Nat /\ PutSize(t) = PutSize(s) + k /\ t.room = s.room
  BY PutSizes DEF Puts
<1>2. PutSize(s) + n <= r /\ r \in Nat
  <2>1. s.room \in Nat /\ ByteBits \in Nat
    BY PutSizes, ByteRange
  <2>. QED
    BY <2>1 DEF HasRoom
<1>. HIDE DEF r
<1>3. PutSize(t) + m <= r
  BY <1>1, <1>2
<1>. QED
  BY <1>1, <1>3 DEF HasRoom, r

(* A byte of a number is one.                                                *)
LEMMA ByteOfRange ==
  ASSUME NEW v \in Nat, NEW k \in Nat
  PROVE  ByteOf(v, k) \in Byte /\ ByteOf(v, k) \in Nat
<1>. DEFINE e == k * ByteBits
            p == 2 ^ e
<1>1. e \in Nat
  BY ByteRange
<1>. HIDE DEF e
<1>2. p \in Nat \ {0}
  BY <1>1, PowersPositive
<1>. HIDE DEF p
<1>3. v \div p \in Nat
  BY <1>2, Remainder
<1>4. UChar(v \div p) \in Byte /\ UChar(v \div p) \in Nat
  BY <1>3, ByteRange
<1>. QED
  BY <1>4 DEF ByteOf, p, e

(* BitFilePutBitsNum puts the bits of a number.                              *)
LEMMA PutNumPuts ==
  ASSUME NEW v \in Nat, NEW count \in Nat, NEW s \in Streams, HasRoom(s, count),
         NEW b, \A n \in 0 .. count - 1 : b[n] = NumBit(v, count, n)
  PROVE  Puts(s, PutBitsNum(v, count, s), count, b)
<1>. DEFINE d == ByteBits
            q == count \div d
            r == count % d
            bytes == [x \in 1 .. q |-> ByteOf(v, x - 1)]
            bits == [x \in 1 .. r |-> BitOf(ByteOf(v, q), r - x)]
            t == [s EXCEPT !.ok = TRUE]
            c == FoldLeft(CharPut, t, bytes)
            W == [k \in 0 .. q |-> {x \in Streams : Puts(s, x, k * d, b)}]
            X == [k \in 0 .. r |-> {x \in Streams : Puts(s, x, q * d + k, b)}]
<1>1. d \in Nat \ {0} /\ q \in Nat /\ r \in 0 .. d - 1 /\ r \in Nat /\ count = d * q + r
  <2>1. d \in Nat \ {0}
    BY ByteRange
  <2>. HIDE DEF d
  <2>2. q \in Nat /\ r \in 0 .. d - 1 /\ count = d * q + r
    BY <2>1, Remainder
  <2>. HIDE DEF q, r
  <2>. QED
    BY <2>1, <2>2
<1>2. q * d \in Nat /\ count = q * d + r
  <2>. HIDE DEF d, q, r
  <2>. QED
    BY <1>1
<1>3. PutBitsNum(v, count, s) = FoldLeft(BitPut, c, bits)
  BY DEF PutBitsNum, PutAll, FoldLeft, MapThenFoldSet, BitPut, CharPut
<1>4. t \in Streams /\ Puts(s, t, 0, b)
  <2>1. t \in Streams
    BY DEF Streams, StreamsUpTo
  <2>. QED
    BY <2>1, PutsNothing
<1>5. /\ bytes \in Seq(Nat) /\ Len(bytes) = q /\ \A k \in 1 .. q : bytes[k] = ByteOf(v, k - 1)
  <2>1. \A k \in 1 .. q : ByteOf(v, k - 1) \in Nat
    <3>1. \A k \in 1 .. q : k - 1 \in Nat
      BY <1>1
    <3>. QED
      BY <3>1, ByteOfRange
  <2>. HIDE DEF q
  <2>. QED
    BY <1>1, <2>1
<1>6. /\ bits \in Seq(Nat) /\ Len(bits) = r
      /\ \A k \in 1 .. r : bits[k] = BitOf(ByteOf(v, q), r - k) /\ bits[k] \in {0, 1}
  <2>1. \A k \in 1 .. r : BitOf(ByteOf(v, q), r - k) \in {0, 1}
    <3>1. \A k \in 1 .. r : r - k \in Nat
      BY <1>1
    <3>. HIDE DEF q, r
    <3>. QED
      BY <1>1, <3>1, ByteOfRange, BitRange
  <2>. HIDE DEF q, r
  <2>. QED
    BY <1>1, <2>1
<1>. HIDE DEF d, q, r, bytes, bits, t
<1>7. t \in W[0]
  <2>1. 0 * d = 0 /\ 0 \in 0 .. q
    BY <1>1
  <2>. QED
    BY <1>4, <2>1
<1>8. ASSUME NEW k \in 1 .. q, NEW x \in Streams \cap W[k - 1]
      PROVE  CharPut(x, bytes[k]) \in W[k]
  <2>. DEFINE o == (k - 1) * d
              f == [j \in 0 .. d - 1 |-> BitOf(ByteOf(v, k - 1), d - 1 - j)]
  <2>1. /\ k - 1 \in 0 .. q /\ k \in 0 .. q /\ k - 1 \in Nat /\ o \in Nat
        /\ o + d = k * d /\ o + d <= count
    <3>1. k - 1 \in 0 .. q /\ k \in 0 .. q /\ k - 1 \in Nat /\ o \in Nat /\ o + d = k * d
      BY <1>1
    <3>2. k * d <= q * d
      <4>. DEFINE e == q - k
      <4>1. e \in Nat /\ q = k + e
        BY <1>1
      <4>. HIDE DEF e
      <4>2. q * d = k * d + e * d /\ e * d \in Nat /\ k * d \in Nat
        BY <1>1, <4>1
      <4>. QED
        BY <4>2
    <3>. QED
      BY <1>1, <1>2, <3>1, <3>2
  <2>2. Puts(s, x, o, b)
    BY <2>1
  <2>. HIDE DEF o
  <2>3. HasRoom(x, d)
    BY <1>1, <2>1, <2>2, RoomLeft
  <2>4. Puts(x, PutChar(ByteOf(v, k - 1), x), d, f)
    <3>1. \A j \in 0 .. ByteBits - 1 : f[j] = BitOf(ByteOf(v, k - 1), ByteBits - 1 - j)
      BY DEF d
    <3>. HIDE DEF f
    <3>. QED
      BY <2>1, <2>3, <3>1, ByteOfRange, PutCharPuts DEF d
  <2>5. ASSUME NEW j \in 0 .. d - 1 PROVE b[o + j] = f[j]
    <3>1. (o + j) \div d = k - 1 /\ (o + j) % d = j
      BY <2>1, BitPlace DEF d, o
    <3>2. o + j \in 0 .. count - 1 /\ o + j < q * d
      <4>1. q - k \in Nat /\ q = k + (q - k)
        BY <1>1
      <4>2. q * d = k * d + (q - k) * d /\ (q - k) * d \in Nat
        <5>. DEFINE e == q - k
        <5>1. e \in Nat /\ q = k + e
          BY <4>1
        <5>. HIDE DEF e
        <5>2. q * d = k * d + e * d /\ e * d \in Nat
          BY <1>1, <5>1
        <5>. QED
          BY <5>2 DEF e
      <4>. DEFINE z == (q - k) * d
                  y == q * d
                  a == k * d
      <4>3. z \in Nat /\ y = a + z /\ o + d = a /\ o \in Nat /\ count = y + r
        BY <1>2, <2>1, <4>2
      <4>. HIDE DEF z, y, a
      <4>4. o + j \in 0 .. count - 1 /\ o + j < y
        BY <1>1, <4>3
      <4>. QED
        BY <4>4 DEF y
    <3>3. b[o + j] = BitOf(ByteOf(v, (o + j) \div d), d - 1 - ((o + j) % d))
      BY <3>2 DEF NumBit, d, q
    <3>. QED
      BY <3>1, <3>3
  <2>6. Puts(s, PutChar(ByteOf(v, k - 1), x), o + d, b)
    <3>. HIDE DEF f
    <3>. QED
      BY <1>1, <2>1, <2>2, <2>4, <2>5, PutsMore
  <2>7. CharPut(x, bytes[k]) = PutChar(ByteOf(v, k - 1), x)
    BY <1>5, <2>2 DEF CharPut, Puts
  <2>8. PutChar(ByteOf(v, k - 1), x) \in Streams
    BY <2>6 DEF Puts
  <2>. QED
    BY <2>1, <2>6, <2>7, <2>8
<1>9. c \in Streams /\ Puts(s, c, q * d, b)
  <2>1. \A k \in 1 .. Len(bytes) : \A x \in Streams \cap W[k - 1] : CharPut(x, bytes[k]) \in W[k]
    BY <1>5, <1>8
  <2>2. q \in 0 .. q
    BY <1>1
  <2>3. c \in Streams \cap W[q]
    <3>. HIDE DEF W
    <3>. QED
      BY <1>4, <1>5, <1>7, <2>1, CharsPutFrom
  <2>. HIDE DEF c
  <2>. QED
    BY <2>2, <2>3
<1>. HIDE DEF c, W
<1>10. c \in X[0]
  <2>1. q * d + 0 = q * d /\ 0 \in 0 .. r
    BY <1>1, <1>2
  <2>. QED
    BY <1>9, <2>1
<1>11. ASSUME NEW k \in 1 .. r, NEW x \in Streams \cap X[k - 1]
      PROVE  BitPut(x, bits[k]) \in X[k]
  <2>. DEFINE o == q * d + (k - 1)
              f == [j \in {0} |-> bits[k]]
  <2>1. /\ k - 1 \in 0 .. r /\ k \in 0 .. r /\ o \in Nat /\ o + 1 = q * d + k /\ o + 1 <= count
        /\ o \in 0 .. count - 1 /\ ~ (o < q * d) /\ count - 1 - o = r - k
    <3>. DEFINE y == q * d
    <3>1. y \in Nat /\ count = y + r
      BY <1>2
    <3>. HIDE DEF y
    <3>2. /\ k - 1 \in 0 .. r /\ k \in 0 .. r /\ y + (k - 1) \in Nat /\ (y + (k - 1)) + 1 = y + k
          /\ (y + (k - 1)) + 1 <= count /\ y + (k - 1) \in 0 .. count - 1 /\ ~ (y + (k - 1) < y)
          /\ count - 1 - (y + (k - 1)) = r - k
      BY <1>1, <3>1
    <3>. QED
      BY <3>2 DEF y
  <2>2. Puts(s, x, o, b)
    BY <2>1
  <2>3. b[o] = bits[k]
    <3>1. b[o] = NumBit(v, count, o)
      BY <2>1
    <3>. HIDE DEF o
    <3>2. NumBit(v, count, o) = BitOf(ByteOf(v, q), count - 1 - o)
      BY <2>1 DEF NumBit, q, d
    <3>. QED
      BY <1>6, <2>1, <3>1, <3>2
  <2>. HIDE DEF o
  <2>4. HasRoom(x, 1)
    BY <2>1, <2>2, RoomLeft
  <2>5. Puts(x, PutBit(bits[k], x), 1, f)
    <3>1. f[0] = bits[k] /\ bits[k] \in {0, 1}
      BY <1>6
    <3>. HIDE DEF f
    <3>. QED
      BY <2>4, <3>1, PutBitPuts
  <2>6. \A j \in 0 .. 1 - 1 : b[o + j] = f[j]
    BY <2>1, <2>3
  <2>7. Puts(s, PutBit(bits[k], x), o + 1, b)
    <3>. HIDE DEF f
    <3>. QED
      BY <2>1, <2>2, <2>5, <2>6, PutsMore
  <2>8. BitPut(x, bits[k]) = PutBit(bits[k], x)
    BY <2>2 DEF BitPut, Puts
  <2>9. PutBit(bits[k], x) \in Streams
    BY <2>7 DEF Puts
  <2>. QED
    BY <2>1, <2>7, <2>8, <2>9
<1>12. FoldLeft(BitPut, c, bits) \in Streams \cap X[r]
  <2>1. \A k \in 1 .. Len(bits) : \A x \in Streams \cap X[k - 1] : BitPut(x, bits[k]) \in X[k]
    BY <1>6, <1>11
  <2>. HIDE DEF X
  <2>. QED
    BY <1>6, <1>9, <1>10, <2>1, BitsPutFrom
<1>13. r \in 0 .. r
  BY <1>1
<1>. QED
  BY <1>2, <1>3, <1>12, <1>13

(* BitFileFlushOutput fills the last byte up: the file has all bits that     *)
(* were put, and fewer than ByteBits ones more.                              *)
LEMMA FlushedFile ==
  ASSUME NEW s \in Streams, HasRoom(s, 0)
  PROVE  LET file == FlushOutput(0, s).file
         IN /\ file \in Seq(Byte)
            /\ Len(file) * ByteBits \in Nat
            /\ PutSize(s) <= Len(file) * ByteBits
            /\ Len(file) * ByteBits < PutSize(s) + ByteBits
            /\ \A n \in 0 .. PutSize(s) - 1 : FileBit(file, n) = PutBitAt(s, n)
<1>. DEFINE l == BitsInFile(s)
            w == s.bitCount
            d == ByteBits
            v == LeftAligned(s, 0)
            new == Append(s.file, UChar(v))
            file == FlushOutput(0, s).file
<1>1. /\ s.file \in Seq(Byte) /\ Len(s.file) \in Nat
      /\ l \in Nat /\ w \in 0 .. d - 1 /\ d \in Nat \ {0}
      /\ PutSize(s) = l + w /\ l = Len(s.file) * d
      /\ w > 0 => Len(s.file) < s.room
  <2>1. 0 + w > 0 <=> w > 0
    BY PutSizes
  <2>. QED
    BY <2>1, PutSizes, ByteRange DEF PutSize, BitsInFile
<1>2. v \in Nat /\ \A j \in 0 .. w - 1 : BitOf(v, d - 1 - j) = BitOf(s.bitBuffer, w - 1 - j)
  BY AlignedBits
<1>. HIDE DEF v
<1>3. CASE w = 0
  <2>1. file = s.file
    BY <1>3 DEF FlushOutput, Emptied, Streams, StreamsUpTo
  <2>2. \A n \in 0 .. PutSize(s) - 1 : n < l
    BY <1>1, <1>3
  <2>3. \A n \in 0 .. PutSize(s) - 1 : FileBit(file, n) = PutBitAt(s, n)
    <3>. HIDE DEF file
    <3>. QED
      BY <2>1, <2>2 DEF PutBitAt
  <2>. HIDE DEF file, l, w, d
  <2>4. PutSize(s) = l /\ l < l + d
    BY <1>1, <1>3
  <2>5. Len(file) * d = l /\ l \in Nat /\ l <= l
    BY <1>1, <2>1
  <2>. QED
    BY <1>1, <2>1, <2>3, <2>4, <2>5 DEF file, d
<1>4. CASE w # 0
  <2>1. Len(s.file) < s.room
    BY <1>1, <1>4
  <2>2. file = new
    <3>1. s \in StreamsUpTo(d - 1) /\ d - 1 \in Nat
      BY <1>1 DEF Streams
    <3>2. FPutC(v, s) = [s EXCEPT !.file = Append(s.file, UChar(v)), !.ok = TRUE]
      BY <1>2, <2>1, <3>1, WriteByte
    <3>3. FPutC(v, s).file = new /\ Emptied(FPutC(v, s)).file = new
      BY <3>2 DEF Emptied, Streams, StreamsUpTo
    <3>4. FlushOutput(0, s) = Emptied(FPutC(v, s))
      BY <1>4 DEF FlushOutput, v
    <3>. QED
      BY <3>3, <3>4
  <2>3. /\ new \in Seq(Byte) /\ Len(new) = Len(s.file) + 1 /\ (Len(s.file) + 1) * d = l + d
        /\ \A n \in 0 .. l - 1 : FileBit(new, n) = FileBit(s.file, n)
        /\ \A j \in 0 .. d - 1 : FileBit(new, l + j) = BitOf(v, d - 1 - j)
    BY <1>1, <1>2, AppendedBits
  <2>. HIDE DEF new, file, l, w, d
  <2>4. Len(file) * d = l + d
    BY <2>2, <2>3
  <2>5. l \in Nat /\ d \in Nat /\ w \in 1 .. d - 1 /\ PutSize(s) = l + w
    BY <1>1, <1>4
  <2>6. l + d \in Nat /\ PutSize(s) <= l + d /\ l + d < PutSize(s) + d
    BY <2>5
  <2>7. ASSUME NEW n \in 0 .. PutSize(s) - 1 PROVE FileBit(file, n) = PutBitAt(s, n)
    <3>1. CASE n < l
      <4>1. n \in 0 .. l - 1
        BY <2>5, <3>1
      <4>. QED
        BY <2>2, <2>3, <3>1, <4>1 DEF PutBitAt, l
    <3>2. CASE ~ (n < l)
      <4>. DEFINE j == n - l
      <4>1. j \in 0 .. d - 1 /\ n = l + j /\ j \in 0 .. w - 1
        BY <2>5, <3>2
      <4>2. PutBitAt(s, n) = BitOf(s.bitBuffer, w - 1 - j)
        BY <3>2 DEF PutBitAt, l, w, j
      <4>. HIDE DEF j
      <4>. QED
        BY <1>2, <2>2, <2>3, <4>1, <4>2
    <3>. QED
      BY <3>1, <3>2
  <2>. QED
    BY <2>2, <2>3, <2>4, <2>6, <2>7 DEF file, d
<1>. QED
  BY <1>3, <1>4, <1>1

-------------------------------------------------------------------------------
(* The bits of a stream that is read. *)

(* The buffer has the last byte that was got, as long as bits of it wait.    *)
Reading(s) ==
  /\ s \in Streams
  /\ s.pos <= Len(s.file)
  /\ s.bitCount # 0 => s.pos >= 1 /\ s.bitBuffer = s.file[s.pos]

(* The bits that were got.                                                   *)
GetPos(s) == s.pos * ByteBits - s.bitCount

(* t is s with k more bits got.                                              *)
Gets(s, t, k) ==
  /\ Reading(t) /\ t.ok /\ t.file = s.file /\ t.room = s.room
  /\ GetPos(t) = GetPos(s) + k

(* t is s after bits were got or lost.                                       *)
Moved(s, t) ==
  /\ Reading(t) /\ t.file = s.file /\ t.room = s.room
  /\ GetPos(s) <= GetPos(t)

(* The numbers of bits of a stream that is read.                             *)
LEMMA GetSizes ==
  ASSUME NEW s, Reading(s)
  PROVE  /\ s.file \in Seq(Byte) /\ Len(s.file) \in Nat
         /\ s.pos \in Nat /\ s.pos <= Len(s.file)
         /\ s.bitCount \in 0 .. ByteBits - 1 /\ s.bitBuffer \in Nat
         /\ s.bitCount # 0 => s.pos \in Nat \ {0} /\ s.bitBuffer = s.file[s.pos]
         /\ s.pos * ByteBits \in Nat
         /\ BitsInFile(s) = Len(s.file) * ByteBits
         /\ BitsInFile(s) \in Nat
         /\ GetPos(s) \in Nat /\ GetPos(s) <= BitsInFile(s)
<1>. DEFINE d == ByteBits
            l == Len(s.file)
            p == s.pos
            w == s.bitCount
<1>1. /\ s.file \in Seq(Byte) /\ l \in Nat /\ p \in Nat /\ p <= l
      /\ w \in 0 .. d - 1 /\ s.bitBuffer \in Nat /\ d \in Nat \ {0}
      /\ w # 0 => p >= 1 /\ s.bitBuffer = s.file[p]
  BY ByteRange DEF Reading, Streams, StreamsUpTo
<1>2. BitsInFile(s) = l * d /\ GetPos(s) = p * d - w
  BY DEF BitsInFile, GetPos
<1>. HIDE DEF d, l, p, w
<1>3. p * d \in Nat /\ l * d \in Nat /\ p * d <= l * d
  <2>1. d * p <= d * l
    BY <1>1, ProductMonotonic
  <2>. QED
    BY <1>1, <2>1
<1>4. p * d - w \in Nat /\ p * d - w <= l * d
  <2>1. CASE w = 0
    BY <1>1, <1>3, <2>1
  <2>2. CASE w # 0
    <3>1. d * 1 <= d * p
      BY <1>1, <2>2, ProductMonotonic
    <3>2. d <= p * d
      BY <1>1, <3>1
    <3>. QED
      BY <1>1, <1>3, <3>2
  <2>. QED
    BY <2>1, <2>2
<1>5. w # 0 => p \in Nat \ {0}
  BY <1>1
<1>. QED
  BY <1>1, <1>2, <1>3, <1>4, <1>5 DEF d, l, p, w

(* At the end of the file nothing is got.                                    *)
LEMMA NothingGot ==
  ASSUME NEW s, Reading(s), NEW u, u = [s EXCEPT !.val = 0, !.ok = FALSE]
  PROVE  ~ u.ok /\ Moved(s, u)
<1>1. s \in Streams
  BY DEF Reading
<1>2. /\ u \in Streams /\ ~ u.ok /\ u.file = s.file /\ u.room = s.room
      /\ u.pos = s.pos /\ u.bitCount = s.bitCount /\ u.bitBuffer = s.bitBuffer
  BY <1>1 DEF Streams, StreamsUpTo
<1>3. Reading(u) /\ GetPos(u) = GetPos(s)
  BY <1>2 DEF Reading, GetPos
<1>4. GetPos(s) \in Nat
  BY GetSizes
<1>. QED
  BY <1>2, <1>3, <1>4 DEF Moved

(* BitFileGetBit gets the next bit, unless there is none.                    *)
LEMMA GetBitGets ==
  ASSUME NEW s, Reading(s)
  PROVE  IF GetPos(s) + 1 <= BitsInFile(s)
         THEN Gets(s, GetBit(s), 1) /\ GetBit(s).val = FileBit(s.file, GetPos(s))
         ELSE ~ GetBit(s).ok /\ Moved(s, GetBit(s))
<1>. DEFINE d == ByteBits
            l == Len(s.file)
            p == s.pos
            w == s.bitCount
            u == GetBit(s)
<1>1. /\ s \in Streams /\ s.file \in Seq(Byte) /\ l \in Nat /\ p \in Nat /\ p <= l
      /\ w \in 0 .. d - 1 /\ d \in Nat \ {0}
      /\ w # 0 => p \in Nat \ {0} /\ s.bitBuffer = s.file[p]
      /\ p * d \in Nat /\ BitsInFile(s) = l * d /\ GetPos(s) = p * d - w
  BY ByteRange, GetSizes DEF Reading, GetPos
<1>2. u \in Streams
  BY <1>1, GetBitType
<1>3. CASE w = 0 /\ p < l
  <2>. DEFINE c == s.file[p + 1]
              x == BitOf(c, d - 1)
  <2>1. c \in Nat
    <3>1. p + 1 \in 1 .. l
      BY <1>1, <1>3
    <3>2. c \in Byte
      BY <1>1, <3>1
    <3>. QED
      BY <3>2, ByteRange
  <2>2. u = [s EXCEPT !.pos = p + 1, !.val = x, !.ok = TRUE, !.bitCount = d - 1, !.bitBuffer = c]
    BY <1>1, <1>3 DEF GetBit, FGetC, Streams, StreamsUpTo
  <2>3. /\ u.pos = p + 1 /\ u.val = x /\ u.ok /\ u.bitCount = d - 1 /\ u.bitBuffer = c
        /\ u.file = s.file /\ u.room = s.room
    BY <1>1, <2>2 DEF Streams, StreamsUpTo
  <2>. HIDE DEF u, c, x
  <2>4. Reading(u)
    BY <1>1, <1>2, <1>3, <2>3 DEF Reading, c
  <2>5. GetPos(u) = (p + 1) * d - (d - 1)
    BY <2>3 DEF GetPos
  <2>6. FileBit(s.file, p * d + 0) = BitOf(s.file[p + 1], d - 1 - 0)
    <3>1. 0 \in 0 .. d - 1
      BY <1>1
    <3>. QED
      BY <1>1, <3>1, BitPlace DEF FileBit
  <2>7. FileBit(s.file, GetPos(s)) = x
    BY <1>1, <1>3, <2>6 DEF x, c
  <2>. HIDE DEF d, l, p, w
  <2>8. (p + 1) * d - (d - 1) = (p * d - w) + 1
    BY <1>1, <1>3
  <2>9. Gets(s, u, 1)
    BY <1>1, <2>3, <2>4, <2>5, <2>8 DEF Gets
  <2>10. p * d - w + 1 <= l * d
    <3>1. d * (p + 1) <= d * l
      BY <1>1, <1>3, ProductMonotonic
    <3>2. p * d + d <= l * d
      BY <1>1, <3>1
    <3>3. l * d \in Nat
      BY <1>1
    <3>. QED
      BY <1>1, <1>3, <3>2, <3>3
  <2>. QED
    BY <1>1, <2>3, <2>7, <2>9, <2>10 DEF u
<1>4. CASE w = 0 /\ ~ (p < l)
  <2>1. ~ u.ok /\ Moved(s, u)
    <3>1. u = [s EXCEPT !.val = 0, !.ok = FALSE]
      BY <1>1, <1>4 DEF GetBit, FGetC, Streams, StreamsUpTo
    <3>. QED
      BY <1>1, <1>2, <3>1, NothingGot
  <2>. HIDE DEF u, d, l, p, w
  <2>2. p = l
    BY <1>1, <1>4
  <2>3. ~ (p * d - w + 1 <= l * d)
    BY <1>1, <1>4, <2>2
  <2>. QED
    BY <1>1, <2>1, <2>3 DEF u
<1>5. CASE w # 0
  <2>. DEFINE c == s.bitBuffer
              x == BitOf(c, w - 1)
  <2>1. u = [s EXCEPT !.val = x, !.ok = TRUE, !.bitCount = w - 1]
    BY <1>1, <1>5 DEF GetBit, Streams, StreamsUpTo
  <2>2. /\ u.pos = p /\ u.val = x /\ u.ok /\ u.bitCount = w - 1 /\ u.bitBuffer = c
        /\ u.file = s.file /\ u.room = s.room
    BY <1>1, <2>1 DEF Streams, StreamsUpTo
  <2>. HIDE DEF u, x
  <2>3. Reading(u)
    BY <1>1, <1>2, <1>5, <2>2 DEF Reading
  <2>4. GetPos(u) = p * d - (w - 1)
    BY <2>2 DEF GetPos
  <2>5. FileBit(s.file, (p - 1) * d + (d - w)) = BitOf(s.file[p - 1 + 1], d - 1 - (d - w))
    <3>1. d - w \in 0 .. d - 1 /\ p - 1 \in Nat
      BY <1>1, <1>5
    <3>. QED
      BY <1>1, <3>1, BitPlace DEF FileBit
  <2>. HIDE DEF d, l, p, w, c
  <2>6. (p - 1) * d + (d - w) = p * d - w /\ p - 1 + 1 = p /\ d - 1 - (d - w) = w - 1
    BY <1>1, <1>5
  <2>7. FileBit(s.file, GetPos(s)) = x
    BY <1>1, <1>5, <2>5, <2>6 DEF x, c
  <2>8. p * d - (w - 1) = (p * d - w) + 1
    BY <1>1, <1>5
  <2>9. Gets(s, u, 1)
    BY <1>1, <2>2, <2>3, <2>4, <2>8 DEF Gets
  <2>10. p * d - w + 1 <= l * d
    <3>1. d * p <= d * l
      BY <1>1, ProductMonotonic
    <3>2. p * d <= l * d /\ l * d \in Nat
      BY <1>1, <3>1
    <3>. QED
      BY <1>1, <1>5, <3>2
  <2>. QED
    BY <1>1, <2>2, <2>7, <2>9, <2>10 DEF u
<1>. QED
  BY <1>3, <1>4, <1>5

(* The bits of a byte that begins within one of the file.                    *)
LEMMA JoinedBits ==
  ASSUME NEW s \in Streams, s.bitCount # 0, NEW c \in Byte, NEW j \in 0 .. ByteBits - 1
  PROVE  BitOf(Joined(s, c), ByteBits - 1 - j)
           = IF j < s.bitCount THEN BitOf(s.bitBuffer, s.bitCount - 1 - j)
             ELSE BitOf(c, ByteBits - 1 - (j - s.bitCount))
<1>. DEFINE d == ByteBits
            w == s.bitCount
            m == d - w
            buf == s.bitBuffer
            h == c \div 2 ^ w
            y == buf % 2 ^ w
            x == d - 1 - j
<1>1. /\ d \in Nat \ {0} /\ w \in 0 .. d - 1 /\ w \in 0 .. d /\ w \in Nat /\ m \in Nat
      /\ w + m = d /\ buf \in Nat /\ x \in Nat /\ x \in 0 .. d - 1
  BY ByteRange DEF Streams, StreamsUpTo
<1>2. c \in Nat /\ c \in 0 .. 2 ^ (w + m) - 1
  BY <1>1, ByteRange DEF Byte
<1>3. Joined(s, c) = h + UChar(buf * 2 ^ m)
  BY DEF Joined
<1>. HIDE DEF d, w, m, buf, x
<1>4. h \in 0 .. 2 ^ m - 1
  BY <1>1, <1>2, QuotientBelow
<1>5. UChar(buf * 2 ^ m) = 2 ^ m * y /\ y \in Nat /\ 2 ^ m \in Nat /\ h \in Nat
  <2>1. /\ UChar(buf * 2 ^ m) = 2 ^ m * y /\ 2 ^ m \in Nat \ {0} /\ y \in 0 .. 2 ^ w - 1
        /\ 2 ^ w \in Nat \ {0}
    BY <1>1, ShiftedUp DEF d, m
  <2>. DEFINE p == 2 ^ w
              q == 2 ^ m
  <2>2. y \in 0 .. p - 1 /\ p \in Nat /\ h \in 0 .. q - 1 /\ q \in Nat
    BY <1>4, <2>1
  <2>. HIDE DEF p, q, y, h
  <2>3. y \in Nat /\ h \in Nat
    BY <2>2
  <2>. QED
    BY <2>1, <2>3
<1>6. Joined(s, c) = 2 ^ m * y + h
  <2>. DEFINE q == 2 ^ m
              e == UChar(buf * q)
  <2>1. Joined(s, c) = h + e /\ e = q * y /\ q \in Nat /\ y \in Nat /\ h \in Nat
    BY <1>3, <1>5
  <2>. HIDE DEF q, e, y, h
  <2>2. Joined(s, c) = q * y + h
    BY <2>1
  <2>. QED
    BY <2>2 DEF q
<1>. HIDE DEF h, y
<1>7. BitOf(Joined(s, c), x) = IF x < m THEN BitOf(h, x) ELSE BitOf(y, x - m)
  BY <1>1, <1>4, <1>5, <1>6, BitsOfSum
<1>8. BitOf(h, x) = BitOf(c, w + x)
  BY <1>1, <1>2, BitAbove DEF h
<1>9. CASE j < w
  <2>1. ~ (x < m) /\ x - m = w - 1 - j /\ w - 1 - j \in Nat /\ w - 1 - j < w
    BY <1>1, <1>9 DEF x, m
  <2>2. BitOf(y, w - 1 - j) = BitOf(buf, w - 1 - j)
    BY <1>1, <2>1, LowerBits DEF y
  <2>. QED
    BY <1>7, <1>9, <2>1, <2>2 DEF d, w, buf, x
<1>10. CASE ~ (j < w)
  <2>1. x < m /\ w + x = d - 1 - (j - w)
    BY <1>1, <1>10 DEF x, m
  <2>. QED
    BY <1>7, <1>8, <1>10, <2>1 DEF d, w, buf, x
<1>. QED
  BY <1>9, <1>10

(* BitFileGetChar gets the next byte, unless there are too few bits.         *)
LEMMA GetCharGets ==
  ASSUME NEW s, Reading(s)
  PROVE  IF GetPos(s) + ByteBits <= BitsInFile(s)
         THEN /\ Gets(s, GetChar(s), ByteBits)
              /\ \A j \in 0 .. ByteBits - 1 :
                   BitOf(GetChar(s).val, ByteBits - 1 - j) = FileBit(s.file, GetPos(s) + j)
         ELSE ~ GetChar(s).ok /\ Moved(s, GetChar(s))
<1>. DEFINE d == ByteBits
            l == Len(s.file)
            p == s.pos
            w == s.bitCount
            u == GetChar(s)
            c == s.file[p + 1]
            x == IF w = 0 THEN c ELSE Joined(s, c)
<1>1. /\ s \in Streams /\ s.file \in Seq(Byte) /\ l \in Nat /\ p \in Nat /\ p <= l
      /\ w \in 0 .. d - 1 /\ d \in Nat \ {0}
      /\ w # 0 => p \in Nat \ {0} /\ s.bitBuffer = s.file[p]
      /\ p * d \in Nat /\ BitsInFile(s) = l * d /\ GetPos(s) = p * d - w
  BY ByteRange, GetSizes DEF Reading, GetPos
<1>2. u \in Streams
  BY <1>1, GetCharType
<1>3. CASE p < l
  <2>1. c \in Byte /\ c \in Nat
    <3>1. p + 1 \in 1 .. l
      BY <1>1, <1>3
    <3>2. c \in Byte
      BY <1>1, <3>1
    <3>. QED
      BY <3>2, ByteRange
  <2>2. /\ u.pos = p + 1 /\ u.val = x /\ u.ok /\ u.bitCount = w
        /\ w # 0 => u.bitBuffer = c
        /\ u.file = s.file /\ u.room = s.room
    <3>. DEFINE t == FGetC(s)
    <3>1. t = [s EXCEPT !.pos = p + 1, !.val = c, !.ok = TRUE]
      BY <1>3 DEF FGetC
    <3>2. /\ t.pos = p + 1 /\ t.val = c /\ t.ok /\ t.bitCount = w
          /\ t.file = s.file /\ t.room = s.room /\ t \in Streams
      <4>1. t \in Streams
        BY <1>1, FGetCType
      <4>. QED
        BY <1>1, <3>1, <4>1 DEF Streams, StreamsUpTo
    <3>3. u = IF w = 0 \/ ~ t.ok THEN t ELSE [t EXCEPT !.bitBuffer = t.val, !.val = Joined(s, t.val)]
      BY DEF GetChar
    <3>. HIDE DEF t, c, u
    <3>. QED
      BY <3>2, <3>3 DEF Streams, StreamsUpTo
  <2>. HIDE DEF u
  <2>3. Reading(u)
    <3>1. p + 1 >= 1 /\ p + 1 <= l
      BY <1>1, <1>3
    <3>. QED
      BY <1>2, <2>2, <3>1 DEF Reading
  <2>4. GetPos(u) = (p + 1) * d - w
    BY <2>2 DEF GetPos
  <2>5. ASSUME NEW j \in 0 .. d - 1
        PROVE  BitOf(x, d - 1 - j) = FileBit(s.file, (p * d - w) + j)
    <3>1. CASE w = 0
      <4>1. FileBit(s.file, p * d + j) = BitOf(s.file[p + 1], d - 1 - j)
        BY <1>1, BitPlace DEF FileBit
      <4>2. (p * d - w) + j = p * d + j
        BY <1>1, <3>1
      <4>. QED
        BY <3>1, <4>1, <4>2
    <3>2. CASE w # 0 /\ j < w
      <4>. DEFINE e == d - w + j
                  q == p - 1
      <4>1. e \in 0 .. d - 1 /\ q \in Nat
        BY <1>1, <3>2
      <4>. HIDE DEF e, q
      <4>2. FileBit(s.file, q * d + e) = BitOf(s.file[q + 1], d - 1 - e)
        BY <4>1, BitPlace DEF FileBit
      <4>3. BitOf(x, d - 1 - j) = BitOf(s.bitBuffer, w - 1 - j)
        <5>1. BitOf(Joined(s, c), d - 1 - j) = BitOf(s.bitBuffer, w - 1 - j)
          BY <1>1, <2>1, <3>2, JoinedBits
        <5>. QED
          BY <3>2, <5>1
      <4>. HIDE DEF d, w, p
      <4>4. (p * d - w) + j = q * d + e /\ q + 1 = p /\ d - 1 - e = w - 1 - j
        BY <1>1, <3>2 DEF q, e
      <4>. HIDE DEF x
      <4>. QED
        BY <1>1, <3>2, <4>2, <4>3, <4>4
    <3>3. CASE w # 0 /\ ~ (j < w)
      <4>. DEFINE e == j - w
      <4>1. e \in 0 .. d - 1
        BY <1>1, <3>3
      <4>. HIDE DEF e
      <4>2. FileBit(s.file, p * d + e) = BitOf(c, d - 1 - e)
        BY <1>1, <4>1, BitPlace DEF FileBit
      <4>3. BitOf(x, d - 1 - j) = BitOf(c, d - 1 - e)
        <5>1. BitOf(Joined(s, c), d - 1 - j) = BitOf(c, d - 1 - e)
          BY <1>1, <2>1, <3>3, JoinedBits DEF e
        <5>. QED
          BY <3>3, <5>1
      <4>. HIDE DEF d, w, p
      <4>4. (p * d - w) + j = p * d + e
        BY <1>1, <3>3 DEF e
      <4>. HIDE DEF x, c
      <4>. QED
        BY <4>2, <4>3, <4>4
    <3>. QED
      BY <3>1, <3>2, <3>3
  <2>. HIDE DEF x, c
  <2>6. \A j \in 0 .. d - 1 : BitOf(u.val, d - 1 - j) = FileBit(s.file, GetPos(s) + j)
    BY <1>1, <2>2, <2>5
  <2>. HIDE DEF d, l, p, w
  <2>7. (p + 1) * d - w = (p * d - w) + d
    BY <1>1
  <2>8. Gets(s, u, d)
    BY <1>1, <2>2, <2>3, <2>4, <2>7 DEF Gets
  <2>9. p * d - w + d <= l * d
    <3>1. d * (p + 1) <= d * l
      BY <1>1, <1>3, ProductMonotonic
    <3>2. p * d + d <= l * d
      BY <1>1, <3>1
    <3>3. l * d \in Nat
      BY <1>1
    <3>. QED
      BY <1>1, <3>2, <3>3
  <2>. QED
    BY <1>1, <2>6, <2>8, <2>9 DEF u, d
<1>4. CASE ~ (p < l)
  <2>1. ~ u.ok /\ Moved(s, u)
    <3>1. u = [s EXCEPT !.val = 0, !.ok = FALSE]
      BY <1>1, <1>4 DEF GetChar, FGetC, Streams, StreamsUpTo
    <3>. QED
      BY <1>1, <1>2, <3>1, NothingGot
  <2>. HIDE DEF u, d, l, p, w
  <2>2. p = l
    BY <1>1, <1>4
  <2>3. ~ (p * d - w + d <= l * d)
    BY <1>1, <2>2
  <2>. QED
    BY <1>1, <2>1, <2>3 DEF u, d
<1>. QED
  BY <1>3, <1>4

(* A number is put together again from its lowest n bytes and what is above. *)
LEMMA NumberOfBytes ==
  ASSUME NEW n \in Nat, NEW v \in Nat
  PROVE  FoldRight(NumberFrom, [x \in 1 .. n |-> ByteOf(v, x - 1)], v \div 2 ^ (n * ByteBits)) = v
<1>. DEFINE seq == [x \in 1 .. n |-> ByteOf(v, x - 1)]
            above(k) == v \div 2 ^ (k * ByteBits)
            base == above(n)
            T == 1 .. n
            op(x, t) == NumberFrom(seq[x], t)
            Is(h) == h = [S \in SUBSET T |-> IF S = {} THEN base
                                             ELSE op(Min(S), h[S \ {Min(S)}])]
            g == [p \in T \X Nat |-> op(p[1], p[2])]
            H == CHOOSE x : Is(x)
            V == [k \in 0 .. n |-> {above(n - k)}]
<1>1. ASSUME NEW k \in Nat
      PROVE  above(k) \in Nat /\ above(k) = ByteOf(v, k) + 2 ^ ByteBits * above(k + 1)
  <2>. DEFINE e == k * ByteBits
              p == 2 ^ e
              m == 2 ^ ByteBits
              y == v \div p
  <2>1. e \in Nat /\ (k + 1) * ByteBits = e + ByteBits /\ ByteBits \in Nat
    <3>1. ByteBits \in Nat
      BY ByteRange
    <3>. QED
      BY <3>1
  <2>. HIDE DEF e
  <2>2. p \in Nat \ {0} /\ m \in Nat \ {0} /\ 2 ^ (e + ByteBits) = p * m
    BY <2>1, PowersPositive, PowerOfSum
  <2>. HIDE DEF p, m
  <2>3. y \in Nat /\ y = m * (y \div m) + (y % m) /\ y % m \in Nat /\ y \div m \in Nat
    <3>1. y \in Nat
      BY <2>2, Remainder
    <3>. HIDE DEF y
    <3>2. y = m * (y \div m) + (y % m) /\ y % m \in 0 .. m - 1 /\ y \div m \in Nat
      BY <2>2, <3>1, Remainder
    <3>. DEFINE r == y % m
    <3>3. r \in 0 .. m - 1
      BY <3>2
    <3>. HIDE DEF r
    <3>4. r \in Nat
      BY <2>2, <3>3
    <3>. QED
      BY <3>1, <3>2, <3>4 DEF r
  <2>4. y \div m = v \div (p * m)
    BY <2>2, NestedDivision
  <2>. HIDE DEF y
  <2>5. above(k + 1) = y \div m
    BY <2>1, <2>2, <2>4
  <2>6. ByteOf(v, k) = y % m /\ above(k) = y
    BY DEF ByteOf, UChar, y, p, m, e
  <2>. HIDE DEF above
  <2>7. y = ByteOf(v, k) + m * above(k + 1)
    <3>. DEFINE a == m * (y \div m)
                b == y % m
    <3>1. m * (y \div m) \in Nat
      BY <2>2, <2>3
    <3>2. y = a + b /\ a \in Nat /\ b \in Nat
      BY <2>3, <3>1
    <3>. HIDE DEF a, b
    <3>3. y = b + a
      BY <3>2
    <3>. QED
      BY <2>5, <2>6, <3>3 DEF a, b
  <2>. QED
    BY <2>3, <2>6, <2>7 DEF m
<1>2. /\ n \in Nat /\ DOMAIN seq = 1 .. n
      /\ \A x \in 1 .. n : seq[x] = ByteOf(v, x - 1) /\ seq[x] \in Nat
  BY ByteOfRange
<1>3. seq \in Seq(Nat)
  BY <1>2
<1>. HIDE DEF seq
<1>4. base \in Nat
  BY <1>1
<1>5. \A x \in T, t \in Nat : op(x, t) \in Nat
  <2>1. ASSUME NEW x \in T, NEW t \in Nat PROVE NumberFrom(seq[x], t) \in Nat
    <3>1. seq[x] \in Nat /\ 2 ^ ByteBits \in Nat
      BY <1>2, ByteRange
    <3>2. \A c, p \in Nat : c + p * t \in Nat
      OBVIOUS
    <3>. QED
      BY <3>1, <3>2 DEF NumberFrom
  <2>. QED
    BY <2>1
<1>. HIDE DEF above, base
<1>6. FoldRight(NumberFrom, seq, base) = H[T]
  BY <1>2 DEF FoldRight, MapThenFoldSet
<1>. HIDE DEF op
<1>7. \A x \in T, t \in Nat : g[<<x, t>>] = op(x, t) /\ g[<<x, t>>] \in Nat
  BY <1>5
<1>. HIDE DEF g
<1>8. \E h : Is(h)
  <2>1. PICK h \in [SUBSET T -> Nat] : IsRightFold(h, g, base, n)
    <3>1. \A x \in 1 .. n, t \in Nat : g[<<x, t>>] \in Nat
      BY <1>7
    <3>. QED
      BY <1>2, <1>4, <3>1, RightFoldExists
  <2>2. ASSUME NEW S \in SUBSET T, S # {} PROVE Min(S) \in T
    <3>1. S \in SUBSET (0 .. n)
      BY <1>2
    <3>. QED
      BY <1>2, <2>2, <3>1, MaxIn
  <2>3. ASSUME NEW S \in SUBSET T, S # {}
        PROVE  h[S] = op(Min(S), h[S \ {Min(S)}])
    BY <1>7, <2>1, <2>2, <2>3 DEF IsRightFold
  <2>4. Is(h)
    BY <2>1, <2>3 DEF IsRightFold
  <2>. QED
    BY <2>4
<1>9. Is(H)
  BY <1>8
<1>10. \A S \in SUBSET T : H[S] = IF S = {} THEN base ELSE op(Min(S), H[S \ {Min(S)}])
  BY <1>9
<1>. HIDE DEF H
<1>11. H[(n + 1) .. n] \in V[0]
  <2>1. (n + 1) .. n = {} /\ {} \in SUBSET T /\ n - 0 = n /\ 0 \in 0 .. n
    BY <1>2
  <2>2. H[(n + 1) .. n] = base
    BY <1>10, <2>1
  <2>. QED
    BY <2>1, <2>2 DEF base
<1>12. ASSUME NEW k \in 1 .. n, H[(k + 1) .. n] \in V[n - k] PROVE H[k .. n] \in V[n - k + 1]
  <2>1. /\ k .. n \in SUBSET T /\ k .. n # {}
        /\ Min(k .. n) = k /\ (k .. n) \ {k} = (k + 1) .. n
    BY <1>2, SuffixSteps
  <2>2. H[k .. n] = op(Min(k .. n), H[(k .. n) \ {Min(k .. n)}])
    BY <1>10, <2>1
  <2>3. H[k .. n] = op(k, H[(k + 1) .. n])
    BY <2>1, <2>2
  <2>4. /\ n - k \in 0 .. n /\ n - k + 1 \in 0 .. n /\ n - (n - k) = k /\ n - (n - k + 1) = k - 1
        /\ k - 1 \in Nat /\ (k - 1) + 1 = k
    BY <1>2
  <2>5. H[(k + 1) .. n] = above(k)
    BY <1>12, <2>4
  <2>6. op(k, above(k)) = above(k - 1)
    <3>1. above(k - 1) = ByteOf(v, k - 1) + 2 ^ ByteBits * above(k)
      BY <1>1, <2>4
    <3>. QED
      BY <1>2, <3>1 DEF op, NumberFrom
  <2>. QED
    BY <2>3, <2>4, <2>5, <2>6
<1>. HIDE DEF V
<1>13. H[T] \in V[n]
  BY <1>2, <1>11, <1>12, SuffixInduction
<1>14. n \in 0 .. n /\ n - n = 0
  BY <1>2
<1>15. above(0) = v
  <2>1. 0 * ByteBits = 0
    BY ByteRange
  <2>2. v \div 1 = v
    OBVIOUS
  <2>. QED
    BY <2>1, <2>2, PowersPositive DEF above
<1>. QED
  BY <1>6, <1>13, <1>14, <1>15 DEF V, seq, base, above

(* t is s after k more bits were got, or at the end of the file.             *)
GotTo(s, k, t) ==
  IF GetPos(s) + k <= BitsInFile(s) THEN Gets(s, t, k) ELSE ~ t.ok /\ Moved(s, t)

(* The next count bits are those of the number v.                            *)
NumberNext(s, v, count) ==
  \A j \in 0 .. count - 1 : FileBit(s.file, GetPos(s) + j) = NumBit(v, count, j)

(* Getting in two steps.                                                     *)
LEMMA GetsMore ==
  ASSUME NEW s, Reading(s), NEW t, NEW u, NEW k \in Nat, NEW m \in Nat,
         Gets(s, t, k), GotTo(t, m, u)
  PROVE  GotTo(s, k + m, u)
<1>1. /\ Reading(t) /\ t.file = s.file /\ t.room = s.room /\ GetPos(t) = GetPos(s) + k
      /\ BitsInFile(t) = BitsInFile(s) /\ GetPos(s) \in Nat
  BY GetSizes DEF Gets, BitsInFile
<1>2. GetPos(t) + m = GetPos(s) + (k + m)
  BY <1>1
<1>3. ASSUME Moved(t, u) PROVE Moved(s, u)
  <2>1. GetPos(u) \in Nat /\ GetPos(t) \in Nat
    BY <1>1, <1>3, GetSizes DEF Moved
  <2>. QED
    BY <1>1, <1>3, <2>1 DEF Moved
<1>. QED
  BY <1>1, <1>2, <1>3 DEF GotTo, Gets

(* Once the end is reached it stays so.                                      *)
LEMMA EndReached ==
  ASSUME NEW s, Reading(s), NEW t, NEW k \in Nat, NEW m \in Nat, GotTo(s, k, t), ~ t.ok
  PROVE  GotTo(s, k + m, t)
<1>1. GetPos(s) \in Nat /\ BitsInFile(s) \in Nat
  BY GetSizes
<1>2. ~ (GetPos(s) + k <= BitsInFile(s))
  BY DEF GotTo, Gets
<1>3. ~ (GetPos(s) + (k + m) <= BitsInFile(s))
  BY <1>1, <1>2
<1>. QED
  BY <1>2, <1>3 DEF GotTo

(* Both loops get the bytes of the number whose bits are next, unless there  *)
(* are too few.                                                              *)
LEMMA GetAllGets ==
  ASSUME NEW s, Reading(s), NEW count \in Nat, NEW v \in 0 .. 2 ^ count - 1
  PROVE  LET got == GetAll(count, s)
             whole == count \div ByteBits
         IN /\ got.s \in Streams /\ GotTo(s, count, got.s)
            /\ got.s.ok /\ NumberNext(s, v, count)
                 => /\ got.bytes = [x \in 1 .. whole |-> ByteOf(v, x - 1)]
                    /\ got.last = ByteOf(v, whole)
            /\ v \in Nat /\ v \div 2 ^ (whole * ByteBits) = ByteOf(v, whole)
<1>. DEFINE d == ByteBits
            q == count \div d
            r == count % d
            y == ByteOf(v, q)
            known == NumberNext(s, v, count)
            full(k) == [x \in 1 .. k |-> ByteOf(v, x - 1)]
            start == [s |-> [s EXCEPT !.ok = TRUE], bytes |-> << >>, last |-> 0]
            mid == FoldLeft(CharGot, start, [x \in 1 .. q |-> x])
            end == FoldLeft(BitGot, mid, [x \in 1 .. r |-> x])
            W == [k \in 0 .. q |->
                    {a \in Gatherings :
                       /\ GotTo(s, k * d, a.s)
                       /\ a.s.ok => a.last = 0 /\ (known => a.bytes = full(k))}]
            X == [k \in 0 .. r |->
                    {a \in Gatherings :
                       /\ GotTo(s, q * d + k, a.s)
                       /\ a.s.ok /\ known => a.bytes = full(q) /\ a.last = y \div 2 ^ (r - k)}]
<1>1. d \in Nat \ {0} /\ q \in Nat /\ r \in 0 .. d - 1 /\ r \in Nat /\ count = d * q + r
  <2>1. d \in Nat \ {0}
    BY ByteRange
  <2>. HIDE DEF d
  <2>2. q \in Nat /\ r \in 0 .. d - 1 /\ count = d * q + r
    BY <2>1, Remainder
  <2>. HIDE DEF r
  <2>3. r \in Nat
    BY <2>1, <2>2
  <2>. QED
    BY <2>1, <2>2, <2>3
<1>2. q * d \in Nat /\ count = q * d + r
  <2>. HIDE DEF d, q, r
  <2>. QED
    BY <1>1
<1>3. GetAll(count, s) = end
  BY DEF GetAll, FoldLeft, MapThenFoldSet, CharGot, BitGot
<1>4. v \in Nat /\ v \div 2 ^ (q * d) = y /\ y \in Byte /\ y \in Nat /\ y \div 2 ^ r = 0
  <2>1. v \in Nat
    <3>. DEFINE p == 2 ^ count
    <3>1. p \in Nat /\ v \in 0 .. p - 1
      BY PowersPositive
    <3>. HIDE DEF p
    <3>. QED
      BY <3>1
  <2>. DEFINE z == v \div 2 ^ (q * d)
              b == 2 ^ r
              m == 2 ^ d
  <2>2. z \in 0 .. b - 1
    BY <1>1, <1>2, QuotientBelow
  <2>3. b \in Nat \ {0} /\ m \in Nat \ {0} /\ b <= m
    <3>1. r + (d - r) = d /\ d - r \in Nat
      BY <1>1
    <3>. QED
      BY <1>1, <3>1, PowerOfSum, PowersPositive
  <2>. HIDE DEF z, b, m
  <2>4. z \in Nat /\ z < b /\ z < m /\ z \in 0 .. m - 1
    BY <2>2, <2>3
  <2>5. z % m = z
    <3>1. 0 \in Nat /\ (m * 0 + z) % m = z
      BY <2>3, <2>4, Remainder
    <3>2. m * 0 + z = z
      BY <2>3, <2>4
    <3>. QED
      BY <3>1, <3>2
  <2>6. z \div b = 0
    <3>1. 0 \in Nat /\ (b * 0 + z) \div b = 0
      BY <2>2, <2>3, Remainder
    <3>2. b * 0 + z = z
      BY <2>3, <2>4
    <3>. QED
      BY <3>1, <3>2
  <2>7. y = z % m
    BY DEF ByteOf, UChar, z, m
  <2>. QED
    BY <1>1, <2>1, <2>4, <2>5, <2>6, <2>7 DEF z, b, m, Byte
<1>5. Gets(s, [s EXCEPT !.ok = TRUE], 0) /\ start \in Gatherings
  <2>. DEFINE t == [s EXCEPT !.ok = TRUE]
  <2>1. s \in Streams
    BY DEF Reading
  <2>2. /\ t \in Streams /\ t.ok /\ t.file = s.file /\ t.room = s.room
        /\ t.pos = s.pos /\ t.bitCount = s.bitCount /\ t.bitBuffer = s.bitBuffer
    BY <2>1 DEF Streams, StreamsUpTo
  <2>. HIDE DEF t
  <2>3. Reading(t) /\ GetPos(t) = GetPos(s)
    BY <2>2 DEF Reading, GetPos
  <2>4. GetPos(s) \in Nat
    BY GetSizes
  <2>5. start = [s |-> t, bytes |-> << >>, last |-> 0]
    BY DEF t
  <2>6. start \in Gatherings
    <3>1. << >> \in Seq(Byte) /\ 0 \in Nat
      OBVIOUS
    <3>. HIDE DEF start
    <3>. QED
      BY <2>2, <2>5, <3>1 DEF Gatherings
  <2>. QED
    BY <2>2, <2>3, <2>4, <2>6 DEF Gets, t
<1>6. GetPos(s) \in Nat /\ BitsInFile(s) \in Nat
  BY GetSizes
<1>7. start \in W[0]
  <2>1. 0 * d = 0 /\ 0 \in 0 .. q
    BY <1>1
  <2>2. GetPos(s) + 0 <= BitsInFile(s)
    BY GetSizes
  <2>3. start.s = [s EXCEPT !.ok = TRUE] /\ start.last = 0 /\ start.bytes = << >>
    OBVIOUS
  <2>4. full(0) = << >>
    OBVIOUS
  <2>. HIDE DEF start, full, d, q
  <2>5. GotTo(s, 0 * d, start.s)
    BY <1>5, <2>1, <2>2, <2>3 DEF GotTo
  <2>. QED
    BY <1>5, <2>1, <2>3, <2>4, <2>5
<1>8. ASSUME NEW k \in 1 .. q, NEW a \in Gatherings \cap W[k - 1]
      PROVE  CharGot(a, k) \in W[k]
  <2>. DEFINE o == (k - 1) * d
              u == GetChar(a.s)
              b == [a EXCEPT !.s = u, !.bytes = Append(a.bytes, u.val)]
  <2>1. /\ k - 1 \in 0 .. q /\ k \in 0 .. q /\ k - 1 \in Nat /\ o \in Nat /\ o + d = k * d
        /\ o + d <= q * d /\ o + d <= count
    <3>1. k - 1 \in 0 .. q /\ k \in 0 .. q /\ k - 1 \in Nat /\ k \in Nat /\ k <= q
      BY <1>1
    <3>. HIDE DEF d, q, r
    <3>2. o \in Nat /\ o + d = k * d
      BY <1>1, <3>1
    <3>3. d * k <= d * q
      BY <1>1, <3>1, ProductMonotonic
    <3>4. k * d <= q * d
      BY <1>1, <3>1, <3>3
    <3>. DEFINE e == q * d
    <3>5. e \in Nat /\ o + d <= e /\ count = e + r
      BY <1>2, <3>2, <3>4
    <3>. HIDE DEF e, o
    <3>6. o + d <= count
      BY <1>1, <3>2, <3>5
    <3>. QED
      BY <3>1, <3>2, <3>4, <3>6
  <2>2. /\ a \in Gatherings /\ GotTo(s, o, a.s)
        /\ a.s.ok => a.last = 0 /\ (known => a.bytes = full(k - 1))
    BY <2>1
  <2>3. CharGot(a, k) = IF a.s.ok THEN b ELSE a
    BY DEF CharGot
  <2>4. CharGot(a, k) \in Gatherings
    <3>1. Len(a.bytes) \in Nat /\ a \in Gathered(Len(a.bytes))
      BY <2>2 DEF Gathered, Gatherings
    <3>. QED
      BY <3>1, CharGotStep DEF Gathered
  <2>5. CASE ~ a.s.ok
    <3>. HIDE DEF full, known, d, o
    <3>1. d \in Nat
      BY <1>1
    <3>2. GotTo(s, o + d, a.s)
      BY <2>1, <2>2, <2>5, <3>1, EndReached
    <3>3. CharGot(a, k) = a /\ GotTo(s, k * d, a.s)
      BY <2>1, <2>3, <2>5, <3>2
    <3>. QED
      BY <2>1, <2>4, <2>5, <3>3
  <2>6. CASE a.s.ok
    <3>1. Gets(s, a.s, o) /\ Reading(a.s) /\ a.s \in Streams /\ a.s.file = s.file
          /\ BitsInFile(a.s) = BitsInFile(s) /\ GetPos(a.s) = GetPos(s) + o
      BY <2>2, <2>6 DEF GotTo, Gets, BitsInFile, Reading
    <3>2. /\ GotTo(a.s, d, u)
          /\ u.ok => \A j \in 0 .. d - 1 :
                       BitOf(u.val, d - 1 - j) = FileBit(s.file, GetPos(a.s) + j)
      BY <3>1, GetCharGets DEF GotTo
    <3>3. u.val \in Byte /\ u \in Streams
      BY <3>1, GetCharType
    <3>. HIDE DEF u
    <3>4. GotTo(s, k * d, u)
      <4>1. d \in Nat
        BY <1>1
      <4>. HIDE DEF d, o
      <4>2. GotTo(s, o + d, u)
        BY <2>1, <3>1, <3>2, <4>1, GetsMore
      <4>. QED
        BY <2>1, <4>2
    <3>5. ASSUME u.ok, known PROVE u.val = ByteOf(v, k - 1)
      <4>1. ASSUME NEW j \in 0 .. d - 1
            PROVE  BitOf(u.val, d - 1 - j) = BitOf(ByteOf(v, k - 1), d - 1 - j)
        <5>1. BitOf(u.val, d - 1 - j) = FileBit(s.file, (GetPos(s) + o) + j)
          BY <3>1, <3>2, <3>5
        <5>2. (GetPos(s) + o) + j = GetPos(s) + (o + j) /\ o + j \in 0 .. count - 1 /\ o + j < q * d
          <6>1. d \in Nat
            BY <1>1
          <6>. DEFINE e == q * d
          <6>2. o \in Nat /\ o + d <= e /\ o + d <= count /\ e \in Nat
            BY <1>2, <2>1
          <6>. HIDE DEF o, d, e
          <6>3. o + j \in 0 .. count - 1 /\ o + j < e
            BY <6>1, <6>2
          <6>4. (GetPos(s) + o) + j = GetPos(s) + (o + j)
            <7>. DEFINE g == GetPos(s)
            <7>1. g \in Nat
              BY <1>6
            <7>. HIDE DEF g
            <7>2. (g + o) + j = g + (o + j)
              BY <6>1, <6>2, <7>1
            <7>. QED
              BY <7>2 DEF g
          <6>. QED
            BY <6>3, <6>4 DEF e
        <5>3. FileBit(s.file, GetPos(s) + (o + j)) = NumBit(v, count, o + j)
          <6>. HIDE DEF o
          <6>. QED
            BY <3>5, <5>2 DEF NumberNext
        <5>4. NumBit(v, count, o + j) = BitOf(ByteOf(v, k - 1), d - 1 - j)
          <6>1. (o + j) \div d = k - 1 /\ (o + j) % d = j
            BY <2>1, BitPlace
          <6>. QED
            BY <5>2, <6>1 DEF NumBit
        <5>. QED
          BY <5>1, <5>2, <5>3, <5>4
      <4>2. ASSUME NEW x \in 0 .. d - 1 PROVE BitOf(u.val, x) = BitOf(ByteOf(v, k - 1), x)
        <5>1. d - 1 - x \in 0 .. d - 1 /\ d - 1 - (d - 1 - x) = x
          BY <1>1
        <5>2. BitOf(u.val, d - 1 - (d - 1 - x)) = BitOf(ByteOf(v, k - 1), d - 1 - (d - 1 - x))
          BY <4>1, <5>1
        <5>. QED
          BY <5>1, <5>2
      <4>3. ByteOf(v, k - 1) \in Byte
        BY <1>4, <2>1, ByteOfRange
      <4>4. d \in Nat /\ u.val \in 0 .. 2 ^ d - 1 /\ ByteOf(v, k - 1) \in 0 .. 2 ^ d - 1
        BY <1>1, <3>3, <4>3 DEF Byte
      <4>. QED
        BY <4>2, <4>4, BitsDetermine
    <3>6. b.s = u /\ b.bytes = Append(a.bytes, u.val) /\ b.last = a.last
      BY <2>2 DEF Gatherings
    <3>7. CharGot(a, k) = b
      BY <2>3, <2>6
    <3>8. ASSUME u.ok, known PROVE b.bytes = full(k)
      <4>1. a.bytes = full(k - 1) /\ u.val = ByteOf(v, k - 1)
        BY <2>2, <2>6, <3>5, <3>8
      <4>2. k \in Nat /\ k >= 1 /\ k - 1 + 1 = k
        BY <2>1
      <4>. DEFINE c == [x \in 1 .. k |-> ByteOf(v, x - 1)]
                  e == [x \in 1 .. (k - 1) |-> ByteOf(v, x - 1)]
      <4>3. \A x \in 1 .. k : ByteOf(v, x - 1) \in Nat
        <5>1. \A x \in 1 .. k : x - 1 \in Nat
          BY <4>2
        <5>. QED
          BY <1>4, <5>1, ByteOfRange
      <4>4. /\ c \in Seq(Nat) /\ e \in Seq(Nat) /\ Len(c) = k /\ Len(e) = k - 1
        BY <4>2, <4>3
      <4>. DEFINE f == Append(e, ByteOf(v, k - 1))
      <4>5. f \in Seq(Nat) /\ Len(f) = k
        BY <4>2, <4>3, <4>4
      <4>6. \A x \in 1 .. k : f[x] = c[x]
        <5>1. ASSUME NEW x \in 1 .. k PROVE f[x] = c[x]
          <6>1. CASE x = k
            BY <4>2, <4>4, <6>1
          <6>2. CASE x # k
            <7>1. x \in 1 .. (k - 1)
              BY <4>2, <6>2
            <7>. QED
              BY <4>4, <7>1
          <6>. QED
            BY <6>1, <6>2
        <5>. QED
          BY <5>1
      <4>. HIDE DEF c, e, f
      <4>7. f = c
        BY <4>2, <4>4, <4>5, <4>6
      <4>. QED
        BY <3>6, <4>1, <4>7 DEF c, e, f
    <3>9. b \in Gatherings
      BY <2>4, <3>7
    <3>. HIDE DEF b, full, known, d
    <3>. QED
      BY <2>1, <2>2, <2>6, <3>4, <3>6, <3>7, <3>8, <3>9
  <2>. QED
    BY <2>5, <2>6
<1>9. mid \in Gatherings \cap W[q]
  <2>. HIDE DEF W, start, q
  <2>. QED
    BY <1>1, <1>5, <1>7, <1>8, CharsGotFrom
<1>. HIDE DEF mid, start
<1>10. mid \in X[0]
  <2>1. q \in 0 .. q /\ 0 \in 0 .. r /\ r - 0 = r
    BY <1>1
  <2>2. q * d + 0 = q * d
    BY <1>2
  <2>. HIDE DEF full, known, d, q, r, y
  <2>3. /\ mid \in Gatherings /\ GotTo(s, q * d, mid.s)
        /\ mid.s.ok => mid.last = 0 /\ (known => mid.bytes = full(q))
    BY <1>9, <2>1
  <2>. QED
    BY <1>4, <2>1, <2>2, <2>3
<1>11. ASSUME NEW k \in 1 .. r, NEW a \in Gatherings \cap X[k - 1]
      PROVE  BitGot(a, k) \in X[k]
  <2>. DEFINE e == q * d
              o == e + (k - 1)
              u == GetBit(a.s)
              b == [a EXCEPT !.s = u, !.last = 2 * a.last + u.val]
  <2>1. /\ k - 1 \in 0 .. r /\ k \in 0 .. r /\ o \in Nat /\ o + 1 = e + k
        /\ o \in 0 .. count - 1 /\ ~ (o < e) /\ count - 1 - o = r - k /\ r - k \in Nat
        /\ r - (k - 1) = (r - k) + 1
    <3>1. e \in Nat /\ count = e + r /\ r \in Nat /\ k \in 1 .. r
      BY <1>1, <1>2
    <3>. HIDE DEF e, d, q, r
    <3>2. /\ k - 1 \in 0 .. r /\ k \in 0 .. r /\ r - k \in Nat
          /\ r - (k - 1) = (r - k) + 1
      BY <3>1
    <3>3. o \in Nat /\ o + 1 = e + k /\ ~ (o < e) /\ o < e + r
      BY <3>1
    <3>4. count - 1 - o = r - k
      BY <3>1
    <3>5. o \in 0 .. count - 1
      BY <3>1, <3>3
    <3>. QED
      BY <3>2, <3>3, <3>4, <3>5
  <2>2. /\ a \in Gatherings /\ GotTo(s, o, a.s)
        /\ a.s.ok /\ known => a.bytes = full(q) /\ a.last = y \div 2 ^ (r - (k - 1))
    BY <2>1
  <2>3. BitGot(a, k) = IF a.s.ok THEN b ELSE a
    BY DEF BitGot
  <2>4. BitGot(a, k) \in Gatherings
    <3>1. Len(a.bytes) \in Nat /\ a \in Gathered(Len(a.bytes))
      BY <2>2 DEF Gathered, Gatherings
    <3>. QED
      BY <3>1, BitGotStep DEF Gathered
  <2>5. CASE ~ a.s.ok
    <3>. HIDE DEF full, known, o
    <3>1. GotTo(s, o + 1, a.s)
      BY <2>1, <2>2, <2>5, EndReached
    <3>2. BitGot(a, k) = a /\ GotTo(s, e + k, a.s)
      BY <2>1, <2>3, <2>5, <3>1
    <3>. QED
      BY <2>1, <2>4, <2>5, <3>2
  <2>6. CASE a.s.ok
    <3>1. Gets(s, a.s, o) /\ Reading(a.s) /\ a.s \in Streams /\ a.s.file = s.file
          /\ BitsInFile(a.s) = BitsInFile(s) /\ GetPos(a.s) = GetPos(s) + o
      BY <2>2, <2>6 DEF GotTo, Gets, BitsInFile, Reading
    <3>2. /\ GotTo(a.s, 1, u)
          /\ u.ok => u.val = FileBit(s.file, GetPos(s) + o)
      BY <3>1, GetBitGets DEF GotTo
    <3>. HIDE DEF u
    <3>3. GotTo(s, e + k, u)
      <4>. HIDE DEF o, e
      <4>1. GotTo(s, o + 1, u)
        BY <2>1, <3>1, <3>2, GetsMore
      <4>. QED
        BY <2>1, <4>1
    <3>4. ASSUME u.ok, known PROVE u.val = BitOf(y, r - k)
      <4>1. FileBit(s.file, GetPos(s) + o) = NumBit(v, count, o)
        <5>. HIDE DEF o
        <5>. QED
          BY <2>1, <3>4 DEF NumberNext
      <4>2. NumBit(v, count, o) = BitOf(y, r - k)
        <5>1. NumBit(v, count, o) = BitOf(y, count - 1 - o)
          <6>. HIDE DEF o
          <6>. QED
            BY <2>1 DEF NumBit
        <5>. QED
          BY <2>1, <5>1
      <4>. QED
        BY <3>2, <3>4, <4>1, <4>2
    <3>5. 2 * (y \div 2 ^ (r - (k - 1))) + BitOf(y, r - k) = y \div 2 ^ (r - k)
      <4>. DEFINE p == 2 ^ (r - k)
                  z == y \div p
      <4>1. p \in Nat \ {0} /\ 2 ^ ((r - k) + 1) = p * 2
        <5>1. 2 ^ ((r - k) + 1) = p + p /\ p \in Nat \ {0}
          BY <2>1, PowerOfTwo, PowersPositive
        <5>. HIDE DEF p
        <5>. QED
          BY <5>1
      <4>. HIDE DEF p
      <4>2. z \in Nat /\ z \div 2 = y \div (p * 2)
        <5>1. z \in Nat
          BY <1>4, <4>1, Remainder
        <5>2. 2 \in Nat \ {0} /\ y \in Nat
          BY <1>4
        <5>. HIDE DEF y
        <5>3. (y \div p) \div 2 = y \div (p * 2)
          BY <4>1, <5>2, NestedDivision
        <5>. QED
          BY <5>1, <5>3
      <4>. HIDE DEF z
      <4>3. z = 2 * (z \div 2) + (z % 2)
        BY <4>2
      <4>. QED
        BY <2>1, <4>1, <4>2, <4>3 DEF BitOf, z, p
    <3>6. b.s = u /\ b.bytes = a.bytes /\ b.last = 2 * a.last + u.val
      BY <2>2 DEF Gatherings
    <3>7. BitGot(a, k) = b
      BY <2>3, <2>6
    <3>8. b \in Gatherings
      BY <2>4, <3>7
    <3>9. ASSUME u.ok, known PROVE b.bytes = full(q) /\ b.last = y \div 2 ^ (r - k)
      <4>1. a.bytes = full(q) /\ a.last = y \div 2 ^ (r - (k - 1))
        BY <2>2, <2>6, <3>9
      <4>. HIDE DEF b, full
      <4>. QED
        BY <3>4, <3>5, <3>6, <3>9, <4>1
    <3>. HIDE DEF b, full, known, y
    <3>. QED
      BY <2>1, <3>3, <3>6, <3>7, <3>8, <3>9
  <2>. QED
    BY <2>5, <2>6
<1>12. end \in Gatherings \cap X[r]
  <2>. HIDE DEF X, r
  <2>. QED
    BY <1>1, <1>9, <1>10, <1>11, BitsGotFrom
<1>. HIDE DEF end
<1>13. /\ end.s \in Streams /\ GotTo(s, count, end.s)
       /\ end.s.ok /\ known => end.bytes = full(q) /\ end.last = y
  <2>1. r \in 0 .. r /\ r - r = 0 /\ y \div 2 ^ 0 = y
    <3>1. y \div 1 = y
      BY <1>4
    <3>. QED
      BY <1>1, <3>1, PowersPositive
  <2>. HIDE DEF full, known, y, q, d, r
  <2>2. /\ end \in Gatherings /\ GotTo(s, q * d + r, end.s)
        /\ end.s.ok /\ known => end.bytes = full(q) /\ end.last = y \div 2 ^ (r - r)
    BY <1>12, <2>1
  <2>. QED
    BY <1>2, <2>1, <2>2 DEF Gatherings
<1>. HIDE DEF full, known, y, q, d
<1>. QED
  BY <1>3, <1>4, <1>13 DEF full, known, y, q, d

(* BitFileGetBitsNum gets the number whose bits are next, unless there are   *)
(* too few.                                                                  *)
LEMMA GetNumGets ==
  ASSUME NEW s, Reading(s), NEW count \in Nat, NEW v \in 0 .. 2 ^ count - 1
  PROVE  /\ GotTo(s, count, GetBitsNum(count, s))
         /\ GetBitsNum(count, s).ok /\ NumberNext(s, v, count) => GetBitsNum(count, s).val = v
<1>. DEFINE end == GetAll(count, s)
            q == count \div ByteBits
            known == NumberNext(s, v, count)
            full == [x \in 1 .. q |-> ByteOf(v, x - 1)]
            w == FoldRight(NumberFrom, end.bytes, end.last)
            t == GetBitsNum(count, s)
<1>1. t = [end.s EXCEPT !.val = w]
  BY DEF GetBitsNum, FoldRight, MapThenFoldSet, NumberFrom
<1>2. /\ end.s \in Streams /\ GotTo(s, count, end.s)
      /\ end.s.ok /\ known => end.bytes = full /\ end.last = ByteOf(v, q)
      /\ v \in Nat /\ v \div 2 ^ (q * ByteBits) = ByteOf(v, q)
  BY GetAllGets
<1>3. q \in Nat
  BY ByteRange, Remainder
<1>. HIDE DEF end, q
<1>4. w = v \/ ~ (end.s.ok /\ known)
  <2>1. SUFFICES ASSUME end.s.ok, known PROVE w = v
    OBVIOUS
  <2>2. w = FoldRight(NumberFrom, full, v \div 2 ^ (q * ByteBits))
    BY <1>2, <2>1
  <2>. QED
    BY <1>2, <1>3, <2>2, NumberOfBytes
<1>5. t \in Streams
  BY GetBitsNumType DEF Reading
<1>. HIDE DEF w, t, known
<1>6. /\ t.ok = end.s.ok /\ t.val = w /\ t.file = end.s.file /\ t.room = end.s.room
      /\ t.pos = end.s.pos /\ t.bitCount = end.s.bitCount /\ t.bitBuffer = end.s.bitBuffer
  BY <1>1, <1>2 DEF Streams, StreamsUpTo
<1>7. GotTo(s, count, t)
  BY <1>2, <1>5, <1>6 DEF GotTo, Gets, Moved, Reading, GetPos
<1>. QED
  BY <1>4, <1>6, <1>7 DEF t, known

-------------------------------------------------------------------------------
(* Tokens. *)

(* The bits that were put, and the bits of a file.                           *)
WrittenBits(s) == [n \in 0 .. PutSize(s) - 1 |-> PutBitAt(s, n)]
BitsOfFile(s) == [n \in 0 .. BitsInFile(s) - 1 |-> FileBit(s.file, n)]

(* From bit a on there is the token for byte p of the text ...               *)
PlainToken(f, text, a, p) ==
  /\ f[a] = UNCODED
  /\ \A j \in 0 .. ByteBits - 1 : f[a + 1 + j] = BitOf(text[p], ByteBits - 1 - j)

(* ... or for the k + MAX_UNCODED + 1 bytes from there on, which are in the  *)
(* window at an offset.                                                      *)
StringToken(f, text, a, p, offset, k) ==
  /\ f[a] = ENCODED
  /\ \A j \in 0 .. OFFSET_BITS - 1 : f[a + 1 + j] = NumBit(offset, OFFSET_BITS, j)
  /\ \A j \in 0 .. LENGTH_BITS - 1 :
       f[a + 1 + OFFSET_BITS + j] = NumBit(k, LENGTH_BITS, j)
  /\ \A j \in 0 .. k + MAX_UNCODED :
       History(text, p)[Wrap(offset + j, WINDOW_SIZE)] = text[p + j]

Lengths == 0 .. 2 ^ LENGTH_BITS - 1

(* A mark is a number of bits and the number of bytes they stand for: there  *)
(* is one token between the marks m and n.                                   *)
PlainNext(f, text, m, n) ==
  n = <<m[1] + (1 + ByteBits), m[2] + 1>> /\ PlainToken(f, text, m[1], m[2])
StringNext(f, text, m, n, offset, k) ==
  /\ n = <<m[1] + (1 + OFFSET_BITS + LENGTH_BITS), m[2] + (k + MAX_UNCODED + 1)>>
  /\ StringToken(f, text, m[1], m[2], offset, k)
Token(f, text, m, n) ==
  \/ PlainNext(f, text, m, n)
  \/ \E offset \in Indices, k \in Lengths : StringNext(f, text, m, n, offset, k)

(* Token by token the bits up to the last mark stand for a text.             *)
Marks == Nat \X Nat
Tiling(f, text, marks, end) ==
  /\ marks \subseteq Marks /\ <<0, 0>> \in marks /\ end \in marks
  /\ \A m \in marks :
       /\ m[1] <= end[1] /\ m[2] <= end[2]
       /\ m = end \/ \E n \in marks : Token(f, text, m, n)

(* No bits stand for no bytes.                                               *)
LEMMA NoTokens ==
  ASSUME NEW f, NEW text
  PROVE  Tiling(f, text, {<<0, 0>>}, <<0, 0>>)
BY DEF Tiling, Marks

(* Of the bits a token depends on its own ones only.                         *)
LEMMA TokenBits ==
  ASSUME NEW f, NEW g, NEW text, NEW m \in Marks, NEW n \in Marks, Token(f, text, m, n),
         \A x \in 0 .. n[1] - 1 : f[x] = g[x]
  PROVE  Token(g, text, m, n)
<1>. DEFINE a == m[1]
            p == m[2]
            d == ByteBits
            o == OFFSET_BITS
            l == LENGTH_BITS
<1>1. a \in Nat /\ d \in Nat \ {0} /\ o \in Nat /\ l \in Nat
  BY ByteRange, WindowSizes DEF Marks
<1>2. CASE PlainNext(f, text, m, n)
  <2>1. n = <<a + (1 + d), p + 1>> /\ PlainToken(f, text, a, p)
    BY <1>2 DEF PlainNext
  <2>2. n[1] = a + (1 + d)
    BY <2>1
  <2>. HIDE DEF a, d
  <2>3. a \in 0 .. n[1] - 1 /\ \A j \in 0 .. d - 1 : a + 1 + j \in 0 .. n[1] - 1
    BY <1>1, <2>2
  <2>4. PlainToken(g, text, a, p)
    BY <2>1, <2>3 DEF PlainToken, d
  <2>. QED
    BY <2>1, <2>4 DEF Token, PlainNext, a, d
<1>3. CASE \E offset \in Indices, k \in Lengths : StringNext(f, text, m, n, offset, k)
  <2>1. PICK offset \in Indices, k \in Lengths : StringNext(f, text, m, n, offset, k)
    BY <1>3
  <2>2. /\ n = <<a + (1 + o + l), p + (k + MAX_UNCODED + 1)>>
        /\ StringToken(f, text, a, p, offset, k)
    BY <2>1 DEF StringNext
  <2>3. n[1] = a + (1 + o + l)
    BY <2>2
  <2>. HIDE DEF a, o, l
  <2>4. /\ a \in 0 .. n[1] - 1
        /\ \A j \in 0 .. o - 1 : a + 1 + j \in 0 .. n[1] - 1
        /\ \A j \in 0 .. l - 1 : a + 1 + o + j \in 0 .. n[1] - 1
    BY <1>1, <2>3
  <2>5. StringToken(g, text, a, p, offset, k)
    BY <2>2, <2>4 DEF StringToken, o, l
  <2>6. StringNext(g, text, m, n, offset, k)
    BY <2>2, <2>5 DEF StringNext, a, o, l
  <2>. QED
    BY <2>6 DEF Token
<1>. QED
  BY <1>2, <1>3 DEF Token

(* So the bits behind the last mark do not matter.                           *)
LEMMA TilingBits ==
  ASSUME NEW f, NEW g, NEW text, NEW marks, NEW end, Tiling(f, text, marks, end),
         \A x \in 0 .. end[1] - 1 : f[x] = g[x]
  PROVE  Tiling(g, text, marks, end)
<1>1. ASSUME NEW m \in marks, m # end
      PROVE  \E n \in marks : Token(g, text, m, n)
  <2>1. PICK n \in marks : Token(f, text, m, n)
    BY <1>1 DEF Tiling
  <2>2. m \in Marks /\ n \in Marks /\ n[1] <= end[1] /\ end \in Marks
    BY DEF Tiling
  <2>3. n[1] \in Nat /\ end[1] \in Nat
    BY <2>2 DEF Marks
  <2>4. \A x \in 0 .. n[1] - 1 : f[x] = g[x]
    BY <2>2, <2>3
  <2>. QED
    BY <2>1, <2>2, <2>4, TokenBits
<1>. QED
  BY <1>1 DEF Tiling

(* One token more.                                                           *)
LEMMA TilingMore ==
  ASSUME NEW f, NEW text, NEW marks, NEW end, Tiling(f, text, marks, end),
         NEW new \in Marks, Token(f, text, end, new), end[1] <= new[1], end[2] <= new[2]
  PROVE  Tiling(f, text, marks \cup {new}, new)
<1>1. /\ marks \subseteq Marks /\ <<0, 0>> \in marks /\ end \in marks
      /\ \A m \in marks : /\ m[1] <= end[1] /\ m[2] <= end[2]
                          /\ m = end \/ \E n \in marks : Token(f, text, m, n)
  BY DEF Tiling
<1>2. \A m \in Marks : m[1] \in Nat /\ m[2] \in Nat
  BY DEF Marks
<1>3. \A m \in marks \cup {new} : m[1] <= new[1] /\ m[2] <= new[2]
  <2>1. ASSUME NEW m \in marks PROVE m[1] <= new[1] /\ m[2] <= new[2]
    <3>1. /\ m[1] \in Nat /\ m[2] \in Nat /\ end[1] \in Nat /\ end[2] \in Nat
          /\ new[1] \in Nat /\ new[2] \in Nat
      BY <1>1, <1>2
    <3>. QED
      BY <1>1, <3>1
  <2>2. new[1] <= new[1] /\ new[2] <= new[2]
    BY <1>2
  <2>. QED
    BY <2>1, <2>2
<1>4. ASSUME NEW m \in marks \cup {new}
      PROVE  m = new \/ \E n \in marks \cup {new} : Token(f, text, m, n)
  BY <1>1
<1>. QED
  BY <1>1, <1>3, <1>4 DEF Tiling

(* What the functions of the bit file do does not change its room.           *)
LEMMA BitRoomKept ==
  ASSUME NEW s \in Streams, NEW c
  PROVE  /\ PutBit(c, s).room = s.room /\ PutChar(c, s).room = s.room
         /\ FlushOutput(0, s).room = s.room
         /\ GetBit(s).room = s.room /\ GetChar(s).room = s.room
<1>1. \A v, b : \A t \in StreamsUpTo(b) : FPutC(v, t).room = t.room
  BY DEF FPutC, StreamsUpTo
<1>2. \A b : \A t \in StreamsUpTo(b) : FGetC(t).room = t.room
  BY DEF FGetC, StreamsUpTo
<1>3. s \in StreamsUpTo(ByteBits - 1)
  BY DEF Streams
<1>4. PutBit(c, s).room = s.room
  BY DEF PutBit, Emptied, FPutC, Streams, StreamsUpTo
<1>5. PutChar(c, s).room = s.room
  BY DEF PutChar, FPutC, Streams, StreamsUpTo
<1>6. FlushOutput(0, s).room = s.room
  BY DEF FlushOutput, Emptied, FPutC, Streams, StreamsUpTo
<1>7. GetBit(s).room = s.room
  BY DEF GetBit, FGetC, Streams, StreamsUpTo
<1>8. GetChar(s).room = s.room
  BY DEF GetChar, FGetC, Streams, StreamsUpTo
<1>. QED
  BY <1>4, <1>5, <1>6, <1>7, <1>8

(* The same for numbers that are put.                                        *)
LEMMA PutNumRoom ==
  ASSUME NEW v \in Nat, NEW count \in Nat, NEW s \in Streams
  PROVE  PutBitsNum(v, count, s).room = s.room
<1>. DEFINE q == count \div ByteBits
            r == count % ByteBits
            bytes == [x \in 1 .. q |-> ByteOf(v, x - 1)]
            bits == [x \in 1 .. r |-> BitOf(ByteOf(v, q), r - x)]
            t == [s EXCEPT !.ok = TRUE]
            same == {x \in Streams : x.room = s.room}
            W == [k \in 0 .. q |-> same]
            X == [k \in 0 .. r |-> same]
            c == FoldLeft(CharPut, t, bytes)
<1>1. q \in Nat /\ r \in Nat
  BY ByteRange, Remainder
<1>2. PutBitsNum(v, count, s) = FoldLeft(BitPut, c, bits)
  BY DEF PutBitsNum, PutAll, FoldLeft, MapThenFoldSet, BitPut, CharPut
<1>. HIDE DEF q, r
<1>3. bytes \in Seq(Nat) /\ Len(bytes) = q /\ \A x \in 1 .. q : bytes[x] \in Nat
  <2>1. \A x \in 1 .. q : ByteOf(v, x - 1) \in Nat
    <3>1. \A x \in 1 .. q : x - 1 \in Nat
      BY <1>1
    <3>. QED
      BY <3>1, ByteOfRange
  <2>. QED
    BY <1>1, <2>1
<1>4. bits \in Seq(Nat) /\ Len(bits) = r /\ \A x \in 1 .. r : bits[x] \in Nat
  <2>1. \A x \in 1 .. r : BitOf(ByteOf(v, q), r - x) \in Nat
    <3>1. \A x \in 1 .. r : r - x \in Nat
      BY <1>1
    <3>2. ByteOf(v, q) \in Nat
      BY <1>1, ByteOfRange
    <3>3. \A x \in 1 .. r : BitOf(ByteOf(v, q), r - x) \in {0, 1}
      BY <3>1, <3>2, BitRange
    <3>. QED
      BY <3>3
  <2>. QED
    BY <1>1, <2>1
<1>5. t \in same
  BY DEF Streams, StreamsUpTo
<1>. HIDE DEF bytes, bits, t
<1>6. \A x \in same : \A y \in Nat : CharPut(x, y) \in same /\ BitPut(x, y) \in same
  BY PutCharType, PutBitType, BitRoomKept DEF CharPut, BitPut
<1>. HIDE DEF same
<1>7. same \subseteq Streams
  BY DEF same
<1>8. c \in same
  <2>1. t \in W[0]
    BY <1>1, <1>5
  <2>2. \A k \in 1 .. q : \A x \in Streams \cap W[k - 1] : CharPut(x, bytes[k]) \in W[k]
    <3>1. \A k \in 1 .. q : k - 1 \in 0 .. q /\ k \in 0 .. q
      BY <1>1
    <3>. QED
      BY <1>3, <1>6, <3>1
  <2>3. t \in Streams
    BY <1>5, <1>7
  <2>. HIDE DEF W
  <2>4. c \in Streams \cap W[q]
    BY <1>3, <2>1, <2>2, <2>3, CharsPutFrom
  <2>5. q \in 0 .. q
    BY <1>1
  <2>. QED
    BY <2>4, <2>5 DEF W
<1>. HIDE DEF c
<1>9. FoldLeft(BitPut, c, bits) \in same
  <2>1. c \in X[0]
    BY <1>1, <1>8
  <2>2. \A k \in 1 .. r : \A x \in Streams \cap X[k - 1] : BitPut(x, bits[k]) \in X[k]
    <3>1. \A k \in 1 .. r : k - 1 \in 0 .. r /\ k \in 0 .. r
      BY <1>1
    <3>. QED
      BY <1>4, <1>6, <3>1
  <2>3. c \in Streams
    BY <1>7, <1>8
  <2>. HIDE DEF X
  <2>4. FoldLeft(BitPut, c, bits) \in Streams \cap X[r]
    BY <1>4, <2>1, <2>2, <2>3, BitsPutFrom
  <2>5. r \in 0 .. r
    BY <1>1
  <2>. QED
    BY <2>4, <2>5 DEF X
<1>. QED
  BY <1>2, <1>9 DEF same

(* And for numbers that are got.                                             *)
LEMMA GetNumRoom ==
  ASSUME NEW count \in Nat, NEW s \in Streams
  PROVE  GetBitsNum(count, s).room = s.room
<1>. DEFINE q == count \div ByteBits
            r == count % ByteBits
            start == [s |-> [s EXCEPT !.ok = TRUE], bytes |-> << >>, last |-> 0]
            mid == FoldLeft(CharGot, start, [x \in 1 .. q |-> x])
            end == FoldLeft(BitGot, mid, [x \in 1 .. r |-> x])
            same == {a \in Gatherings : a.s.room = s.room}
            W == [k \in 0 .. q |-> same]
            X == [k \in 0 .. r |-> same]
<1>1. q \in Nat /\ r \in Nat
  BY ByteRange, Remainder
<1>2. GetAll(count, s) = end
  BY DEF GetAll, FoldLeft, MapThenFoldSet, CharGot, BitGot
<1>. HIDE DEF q, r
<1>3. start \in same
  <2>. DEFINE t == [s EXCEPT !.ok = TRUE]
  <2>1. t \in Streams /\ t.room = s.room
    BY DEF Streams, StreamsUpTo
  <2>2. << >> \in Seq(Byte) /\ 0 \in Nat
    OBVIOUS
  <2>. HIDE DEF t
  <2>3. [s |-> t, bytes |-> << >>, last |-> 0] \in same
    BY <2>1, <2>2 DEF Gatherings
  <2>. QED
    BY <2>3 DEF t
<1>. HIDE DEF start
<1>4. ASSUME NEW a \in same, NEW k
      PROVE  CharGot(a, k) \in same /\ BitGot(a, k) \in same
  <2>1. a \in Gatherings /\ a.s \in Streams /\ a.s.room = s.room /\ a.last \in Nat
    BY DEF Gatherings
  <2>2. CharGot(a, k) \in Gatherings /\ BitGot(a, k) \in Gatherings
    <3>1. Len(a.bytes) \in Nat /\ a \in Gathered(Len(a.bytes))
      BY <2>1 DEF Gathered, Gatherings
    <3>. QED
      BY <3>1, CharGotStep, BitGotStep DEF Gathered
  <2>3. CharGot(a, k).s = IF a.s.ok THEN GetChar(a.s) ELSE a.s
    BY <2>1 DEF CharGot, Gatherings
  <2>4. BitGot(a, k).s = IF a.s.ok THEN GetBit(a.s) ELSE a.s
    BY <2>1 DEF BitGot, Gatherings
  <2>. QED
    BY <2>1, <2>2, <2>3, <2>4, BitRoomKept
<1>. HIDE DEF same
<1>5. same \subseteq Gatherings
  BY DEF same
<1>6. mid \in same
  <2>1. start \in W[0] /\ start \in Gatherings
    BY <1>1, <1>3, <1>5
  <2>2. \A k \in 1 .. q : \A a \in Gatherings \cap W[k - 1] : CharGot(a, k) \in W[k]
    <3>1. \A k \in 1 .. q : k - 1 \in 0 .. q /\ k \in 0 .. q
      BY <1>1
    <3>. QED
      BY <1>4, <3>1
  <2>. HIDE DEF W
  <2>3. mid \in Gatherings \cap W[q]
    BY <1>1, <2>1, <2>2, CharsGotFrom
  <2>4. q \in 0 .. q
    BY <1>1
  <2>. QED
    BY <2>3, <2>4 DEF W
<1>. HIDE DEF mid
<1>7. end \in same
  <2>1. mid \in X[0] /\ mid \in Gatherings
    BY <1>1, <1>5, <1>6
  <2>2. \A k \in 1 .. r : \A a \in Gatherings \cap X[k - 1] : BitGot(a, k) \in X[k]
    <3>1. \A k \in 1 .. r : k - 1 \in 0 .. r /\ k \in 0 .. r
      BY <1>1
    <3>. QED
      BY <1>4, <3>1
  <2>. HIDE DEF X
  <2>3. end \in Gatherings \cap X[r]
    BY <1>1, <2>1, <2>2, BitsGotFrom
  <2>4. r \in 0 .. r
    BY <1>1
  <2>. QED
    BY <2>3, <2>4 DEF X
<1>. DEFINE w == FoldRight(NumberFrom, end.bytes, end.last)
<1>8. GetBitsNum(count, s) = [end.s EXCEPT !.val = w]
  BY <1>2 DEF GetBitsNum, FoldRight, MapThenFoldSet, NumberFrom
<1>. HIDE DEF end, w
<1>9. end.s \in Streams /\ end.s.room = s.room
  BY <1>7 DEF same, Gatherings
<1>. QED
  BY <1>8, <1>9 DEF Streams, StreamsUpTo

(* What was put is read back among the bits that were put.                   *)
LEMMA WrittenNow ==
  ASSUME NEW s \in Streams, NEW t, NEW k \in Nat, NEW b, Puts(s, t, k, b)
  PROVE  /\ \A x \in 0 .. PutSize(s) - 1 : WrittenBits(s)[x] = WrittenBits(t)[x]
         /\ \A j \in 0 .. k - 1 : WrittenBits(t)[PutSize(s) + j] = b[j]
<1>. DEFINE a == PutSize(s)
            z == PutSize(t)
<1>1. /\ a \in Nat /\ z = a + k
      /\ \A n \in 0 .. a - 1 : PutBitAt(t, n) = PutBitAt(s, n)
      /\ \A j \in 0 .. k - 1 : PutBitAt(t, a + j) = b[j]
  BY PutSizes DEF Puts
<1>2. /\ \A x \in 0 .. a - 1 : WrittenBits(s)[x] = PutBitAt(s, x)
      /\ \A x \in 0 .. z - 1 : WrittenBits(t)[x] = PutBitAt(t, x)
  BY DEF WrittenBits
<1>. HIDE DEF a, z
<1>3. /\ \A x \in 0 .. a - 1 : x \in 0 .. z - 1
      /\ \A j \in 0 .. k - 1 : a + j \in 0 .. z - 1
  BY <1>1
<1>4. \A x \in 0 .. a - 1 : WrittenBits(s)[x] = WrittenBits(t)[x]
  BY <1>1, <1>2, <1>3
<1>5. \A j \in 0 .. k - 1 : WrittenBits(t)[a + j] = b[j]
  BY <1>1, <1>2, <1>3
<1>. QED
  BY <1>4, <1>5 DEF a

(* The encoder puts the token for a byte ...                                 *)
LEMMA PlainTokenPut ==
  ASSUME NEW s \in Streams, NEW text, NEW p, text[p] \in Nat, HasRoom(s, 1 + ByteBits)
  PROVE  LET t == PutChar(text[p], PutBit(UNCODED, s))
         IN /\ \E b : Puts(s, t, 1 + ByteBits, b)
            /\ PlainToken(WrittenBits(t), text, PutSize(s), p)
<1>. DEFINE c == text[p]
            d == ByteBits
            flag == PutBit(UNCODED, s)
            t == PutChar(c, flag)
            b == [j \in 0 .. 0 |-> UNCODED]
            e == [j \in 0 .. d - 1 |-> BitOf(c, d - 1 - j)]
            f == [j \in 0 .. d |-> IF j = 0 THEN UNCODED ELSE BitOf(c, d - j)]
            w == WrittenBits(t)
            a == PutSize(s)
<1>1. c \in Nat /\ d \in Nat \ {0} /\ a \in Nat
  BY PutSizes, ByteRange
<1>2. UNCODED \in {0, 1} /\ b[0] = UNCODED
  BY DEF UNCODED
<1>. HIDE DEF c
<1>3. HasRoom(s, 1)
  <2>. DEFINE z == s.room * ByteBits
  <2>1. z \in Nat
    BY <1>1, PutSizes
  <2>2. a + (1 + d) <= z
    BY DEF HasRoom
  <2>. HIDE DEF z, a, d
  <2>3. a + 1 <= z
    BY <1>1, <2>1, <2>2
  <2>. QED
    BY <2>3 DEF HasRoom, z, a
<1>4. Puts(s, flag, 1, b)
  BY <1>2, <1>3, PutBitPuts
<1>5. flag \in Streams
  BY <1>4 DEF Puts
<1>. HIDE DEF flag, b
<1>6. HasRoom(flag, d)
  <2>1. 1 + d <= 1 + d /\ 1 \in Nat /\ d \in Nat /\ 1 + d \in Nat
    BY <1>1
  <2>2. HasRoom(s, 1 + d)
    OBVIOUS
  <2>. HIDE DEF d
  <2>. QED
    BY <1>4, <2>1, <2>2, RoomLeft
<1>7. Puts(flag, t, d, e)
  <2>1. \A j \in 0 .. d - 1 : e[j] = BitOf(c, d - 1 - j)
    OBVIOUS
  <2>. HIDE DEF e
  <2>. QED
    BY <1>1, <1>5, <1>6, <2>1, PutCharPuts
<1>. HIDE DEF t
<1>8. /\ \A j \in 0 .. 0 : f[j] = b[j]
      /\ \A j \in 0 .. d - 1 : f[1 + j] = e[j]
  <2>1. \A j \in 0 .. d - 1 : 1 + j \in 0 .. d /\ 1 + j # 0 /\ d - (1 + j) = d - 1 - j
    BY <1>1
  <2>2. f[0] = UNCODED
    BY <1>1
  <2>. QED
    BY <1>2, <2>1, <2>2 DEF b
<1>9. Puts(s, t, 1 + d, f)
  <2>1. 1 \in Nat /\ d \in Nat /\ \A j \in 0 .. 1 - 1 : f[j] = b[j]
    BY <1>1, <1>8
  <2>. HIDE DEF f, e, d
  <2>. QED
    BY <1>4, <1>7, <1>8, <2>1, PutsMore
<1>10. \A j \in 0 .. (1 + d) - 1 : w[a + j] = f[j]
  <2>1. 1 + d \in Nat
    BY <1>1
  <2>. HIDE DEF f, d
  <2>. QED
    BY <1>9, <2>1, WrittenNow
<1>11. w[a] = UNCODED
  <2>1. 0 \in 0 .. (1 + d) - 1 /\ a + 0 = a /\ 0 \in 0 .. d
    BY <1>1
  <2>. HIDE DEF w, a
  <2>. QED
    BY <1>10, <2>1
<1>12. \A j \in 0 .. d - 1 : w[a + 1 + j] = BitOf(c, d - 1 - j)
  <2>1. \A j \in 0 .. d - 1 : /\ 1 + j \in 0 .. (1 + d) - 1 /\ a + (1 + j) = a + 1 + j
    BY <1>1
  <2>. HIDE DEF w, a
  <2>2. \A j \in 0 .. d - 1 : w[a + 1 + j] = f[1 + j]
    BY <1>10, <2>1
  <2>. QED
    BY <1>8, <2>2
<1>13. PlainToken(w, text, a, p)
  BY <1>11, <1>12 DEF PlainToken, c
<1>. QED
  BY <1>9, <1>13 DEF t, flag, c

(* ... and the one for a string.                                             *)
LEMMA StringTokenPut ==
  ASSUME NEW s \in Streams, NEW text, NEW p, NEW offset \in Nat, NEW k \in Nat,
         HasRoom(s, 1 + OFFSET_BITS + LENGTH_BITS),
         \A j \in 0 .. k + MAX_UNCODED :
           History(text, p)[Wrap(offset + j, WINDOW_SIZE)] = text[p + j]
  PROVE  LET t == PutBitsNum(k, LENGTH_BITS,
                    PutBitsNum(offset, OFFSET_BITS, PutBit(ENCODED, s)))
         IN /\ \E b : Puts(s, t, 1 + OFFSET_BITS + LENGTH_BITS, b)
            /\ StringToken(WrittenBits(t), text, PutSize(s), p, offset, k)
<1>. DEFINE o == OFFSET_BITS
            l == LENGTH_BITS
            flag == PutBit(ENCODED, s)
            u == PutBitsNum(offset, o, flag)
            t == PutBitsNum(k, l, u)
            b == [j \in 0 .. 0 |-> ENCODED]
            c == [j \in 0 .. o - 1 |-> NumBit(offset, o, j)]
            e == [j \in 0 .. l - 1 |-> NumBit(k, l, j)]
            g == [j \in 0 .. o |-> IF j = 0 THEN ENCODED ELSE NumBit(offset, o, j - 1)]
            f == [j \in 0 .. o + l |-> IF j < 1 + o THEN g[j] ELSE NumBit(k, l, j - (1 + o))]
            w == WrittenBits(t)
            a == PutSize(s)
<1>1. o \in Nat /\ l \in Nat /\ a \in Nat
  BY PutSizes, WindowSizes
<1>2. ENCODED \in {0, 1} /\ b[0] = ENCODED
  BY DEF ENCODED
<1>3. HasRoom(s, 1)
  <2>. DEFINE z == s.room * ByteBits
  <2>1. z \in Nat
    BY PutSizes, ByteRange
  <2>2. a + (1 + o + l) <= z
    BY DEF HasRoom
  <2>. HIDE DEF z, a, o, l
  <2>3. a + 1 <= z
    BY <1>1, <2>1, <2>2
  <2>. QED
    BY <2>3 DEF HasRoom, z, a
<1>4. Puts(s, flag, 1, b)
  BY <1>2, <1>3, PutBitPuts
<1>5. flag \in Streams
  BY <1>4 DEF Puts
<1>. HIDE DEF flag, b
<1>6. HasRoom(flag, o)
  <2>1. 1 + o <= 1 + o + l /\ 1 \in Nat /\ 1 + o + l \in Nat
    BY <1>1
  <2>2. HasRoom(s, 1 + o + l)
    OBVIOUS
  <2>. HIDE DEF o, l
  <2>. QED
    BY <1>1, <1>4, <2>1, <2>2, RoomLeft
<1>7. Puts(flag, u, o, c)
  <2>1. \A j \in 0 .. o - 1 : c[j] = NumBit(offset, o, j)
    OBVIOUS
  <2>. HIDE DEF c
  <2>. QED
    BY <1>1, <1>5, <1>6, <2>1, PutNumPuts
<1>8. u \in Streams
  BY <1>7 DEF Puts
<1>. HIDE DEF u
<1>9. /\ \A j \in 0 .. 1 - 1 : g[j] = b[j]
      /\ \A j \in 0 .. o - 1 : g[1 + j] = c[j]
  <2>1. \A j \in 0 .. o - 1 : 1 + j \in 0 .. o /\ 1 + j # 0 /\ (1 + j) - 1 = j
    BY <1>1
  <2>2. \A j \in 0 .. 1 - 1 : j = 0
    OBVIOUS
  <2>3. g[0] = ENCODED
    BY <1>1
  <2>. QED
    BY <1>2, <2>1, <2>2, <2>3 DEF b
<1>10. Puts(s, u, 1 + o, g)
  <2>1. 1 \in Nat
    OBVIOUS
  <2>. HIDE DEF g, c, o
  <2>. QED
    BY <1>1, <1>4, <1>7, <1>9, <2>1, PutsMore
<1>11. HasRoom(u, l)
  <2>1. (1 + o) + l <= 1 + o + l /\ 1 + o \in Nat /\ 1 + o + l \in Nat
    BY <1>1
  <2>2. HasRoom(s, 1 + o + l)
    OBVIOUS
  <2>. HIDE DEF o, l, g
  <2>. QED
    BY <1>1, <1>10, <2>1, <2>2, RoomLeft
<1>12. Puts(u, t, l, e)
  <2>1. \A j \in 0 .. l - 1 : e[j] = NumBit(k, l, j)
    OBVIOUS
  <2>. HIDE DEF e
  <2>. QED
    BY <1>1, <1>8, <1>11, <2>1, PutNumPuts
<1>. HIDE DEF t
<1>13. /\ \A j \in 0 .. (1 + o) - 1 : f[j] = g[j]
       /\ \A j \in 0 .. l - 1 : f[(1 + o) + j] = e[j]
  <2>. HIDE DEF g
  <2>1. \A j \in 0 .. (1 + o) - 1 : j \in 0 .. o + l /\ j < 1 + o
    BY <1>1
  <2>2. \A j \in 0 .. l - 1 : /\ (1 + o) + j \in 0 .. o + l
                              /\ ~ ((1 + o) + j < 1 + o) /\ ((1 + o) + j) - (1 + o) = j
    BY <1>1
  <2>. QED
    BY <2>1, <2>2
<1>14. Puts(s, t, (1 + o) + l, f)
  <2>1. 1 + o \in Nat
    BY <1>1
  <2>. HIDE DEF f, e, g, o, l
  <2>. QED
    BY <1>1, <1>10, <1>12, <1>13, <2>1, PutsMore
<1>15. \A j \in 0 .. ((1 + o) + l) - 1 : w[a + j] = f[j]
  <2>1. (1 + o) + l \in Nat
    BY <1>1
  <2>. HIDE DEF f, o, l
  <2>. QED
    BY <1>14, <2>1, WrittenNow
<1>. HIDE DEF f, w, a
<1>16. w[a] = ENCODED
  <2>1. /\ 0 \in 0 .. ((1 + o) + l) - 1 /\ a + 0 = a /\ 0 \in 0 .. (1 + o) - 1
        /\ 0 \in 0 .. 1 - 1
    BY <1>1
  <2>2. w[a + 0] = f[0]
    BY <1>15, <2>1
  <2>3. f[0] = g[0] /\ g[0] = b[0]
    BY <1>9, <1>13, <2>1
  <2>. QED
    BY <1>2, <2>1, <2>2, <2>3
<1>17. \A j \in 0 .. o - 1 : w[a + 1 + j] = NumBit(offset, o, j)
  <2>1. \A j \in 0 .. o - 1 : /\ 1 + j \in 0 .. ((1 + o) + l) - 1 /\ 1 + j \in 0 .. (1 + o) - 1
                              /\ a + (1 + j) = a + 1 + j
    BY <1>1
  <2>2. \A j \in 0 .. o - 1 : w[a + 1 + j] = c[j]
    BY <1>9, <1>13, <1>15, <2>1
  <2>. QED
    BY <2>2
<1>18. \A j \in 0 .. l - 1 : w[a + 1 + o + j] = NumBit(k, l, j)
  <2>1. \A j \in 0 .. l - 1 : /\ (1 + o) + j \in 0 .. ((1 + o) + l) - 1
                              /\ a + ((1 + o) + j) = a + 1 + o + j
    BY <1>1
  <2>2. \A j \in 0 .. l - 1 : w[a + 1 + o + j] = e[j]
    BY <1>13, <1>15, <2>1
  <2>. QED
    BY <2>2
<1>19. StringToken(w, text, a, p, offset, k)
  BY <1>16, <1>17, <1>18 DEF StringToken
<1>. QED
  BY <1>14, <1>19 DEF t, u, flag, w, a

(* The tokens so far, and one more.                                          *)
LEMMA TilingPut ==
  ASSUME NEW s \in Streams, NEW t, NEW k \in Nat, NEW b, Puts(s, t, k, b),
         NEW text, NEW marks, NEW n \in Nat, NEW m \in Nat, n <= m,
         Tiling(WrittenBits(s), text, marks, <<PutSize(s), n>>),
         Token(WrittenBits(t), text, <<PutSize(s), n>>, <<PutSize(s) + k, m>>)
  PROVE  Tiling(WrittenBits(t), text, marks \cup {<<PutSize(t), m>>}, <<PutSize(t), m>>)
<1>. DEFINE a == PutSize(s)
            z == PutSize(t)
            old == <<a, n>>
            new == <<z, m>>
            f == WrittenBits(s)
            g == WrittenBits(t)
<1>1. a \in Nat /\ z = a + k
  BY PutSizes DEF Puts
<1>2. \A x \in 0 .. a - 1 : f[x] = g[x]
  BY WrittenNow
<1>3. Tiling(f, text, marks, old) /\ Token(g, text, old, new)
  BY <1>1
<1>. HIDE DEF a, z, f, g
<1>4. a <= z /\ z \in Nat
  BY <1>1
<1>5. /\ old[1] = a /\ old[2] = n /\ new[1] = z /\ new[2] = m /\ new \in Marks
  BY <1>4 DEF Marks
<1>. HIDE DEF old, new
<1>6. Tiling(g, text, marks, old)
  BY <1>2, <1>3, <1>5, TilingBits
<1>7. old[1] <= new[1] /\ old[2] <= new[2]
  BY <1>4, <1>5
<1>8. Tiling(g, text, marks \cup {new}, new)
  BY <1>3, <1>5, <1>6, <1>7, TilingMore
<1>. QED
  BY <1>8 DEF g, new, z

-------------------------------------------------------------------------------
(* The encoder puts the tokens of the input. *)

(* How much of the input the tokens stand for that were put.                 *)
Reached == IF pc = "replace" THEN Consumed + (match.length - i) ELSE Consumed

(* The bits that were put stand for the first n bytes of a text, and are not *)
(* more than two bytes for each of them.                                     *)
Encodes(s, text, n) ==
  /\ PutSize(s) <= 2 * ByteBits * n
  /\ \E marks : Tiling(WrittenBits(s), text, marks, <<PutSize(s), n>>)

(* A match that was found is one.                                            *)
MatchInv ==
  pc = "token" =>
    \/ match.length = 0
    \/ SameBytes(window, match.offset, lookahead, uncodedHead, match.length)

(* The encoder begins with an empty file, and then its tokens stand for what *)
(* it has read.                                                              *)
EncodedInv ==
  /\ pc = "fill" => bf.file = << >> /\ bf.bitCount = 0
  /\ EnoughRoom /\ pc \in {"match", "token", "replace"} => Encodes(bf, data, Reached)

(* The next token fits into the output.                                      *)
LEMMA TokenFits ==
  ASSUME NEW s \in Streams, NEW n \in Nat, NEW k \in Nat, NEW F \in Nat, NEW bits \in Nat,
         PutSize(s) <= 2 * ByteBits * n, bits <= 2 * ByteBits * k,
         n + k <= F, s.room >= 2 * F
  PROVE  HasRoom(s, bits) /\ PutSize(s) + bits <= 2 * ByteBits * (n + k)
<1>. DEFINE d == ByteBits
            a == PutSize(s)
            r == s.room
            x == 2 * d * n
            y == 2 * d * k
            z == 2 * d * (n + k)
<1>1. d \in Nat /\ a \in Nat /\ r \in Nat
  BY PutSizes, ByteRange
<1>2. a <= x /\ bits <= y
  OBVIOUS
<1>. HIDE DEF d, a, r
<1>3. x \in Nat /\ y \in Nat /\ z = x + y
  BY <1>1
<1>4. z <= r * d
  <2>1. PICK m \in Nat : r = 2 * (n + k) + m
    <3>1. r >= 2 * (n + k)
      BY <1>1 DEF r
    <3>2. r - 2 * (n + k) \in Nat /\ r = 2 * (n + k) + (r - 2 * (n + k))
      BY <1>1, <3>1
    <3>. QED
      BY <3>2
  <2>2. r * d = z + m * d
    BY <1>1, <2>1
  <2>3. m * d \in Nat /\ z \in Nat
    BY <1>1, <1>3
  <2>. HIDE DEF z
  <2>4. z <= z + m * d
    BY <2>3
  <2>. QED
    BY <2>2, <2>4
<1>. DEFINE w == r * d
<1>5. w \in Nat
  BY <1>1
<1>. HIDE DEF x, y, z, w
<1>6. a + bits <= z /\ a + bits <= w
  BY <1>1, <1>2, <1>3, <1>4, <1>5 DEF w
<1>. QED
  BY <1>6 DEF HasRoom, a, d, r, w, z

(* One token more.                                                           *)
LEMMA EncodesMore ==
  ASSUME NEW s \in Streams, NEW t, NEW bits \in Nat, NEW b, Puts(s, t, bits, b),
         NEW text, NEW n \in Nat, NEW k \in Nat, Encodes(s, text, n),
         PutSize(s) + bits <= 2 * ByteBits * (n + k),
         Token(WrittenBits(t), text, <<PutSize(s), n>>, <<PutSize(s) + bits, n + k>>)
  PROVE  Encodes(t, text, n + k)
<1>1. PICK marks : Tiling(WrittenBits(s), text, marks, <<PutSize(s), n>>)
  BY DEF Encodes
<1>2. n <= n + k /\ n + k \in Nat
  OBVIOUS
<1>3. Tiling(WrittenBits(t), text, marks \cup {<<PutSize(t), n + k>>}, <<PutSize(t), n + k>>)
  BY <1>1, <1>2, TilingPut
<1>4. PutSize(t) <= 2 * ByteBits * (n + k)
  BY DEF Puts
<1>. QED
  BY <1>3, <1>4 DEF Encodes

(* Where the encoder is in the input.                                        *)
LEMMA EncoderPlace ==
  ASSUME Inv, pc \in {"match", "token", "replace"}
  PROVE  /\ Consumed \in Nat /\ FileSize \in Nat /\ len \in Nat
         /\ Consumed + len = inPos /\ Consumed + len <= FileSize
         /\ len = 0 => Consumed = FileSize
         /\ bf \in Streams
<1>. DEFINE C == Consumed
            F == FileSize
<1>1. /\ inPos \in Nat /\ len \in 0 .. MAX_CODED /\ inPos <= F /\ len <= inPos
      /\ inPos < F => len = MAX_CODED
      /\ F \in Nat /\ bf \in Streams
  BY DEF Inv, TypeInv, LookaheadInv, IsText, FileSize
<1>2. C = inPos - len
  BY DEF Consumed
<1>. HIDE DEF C, F
<1>. QED
  BY <1>1, <1>2, WindowSizes DEF C, F

(* The token for one byte.                                                   *)
LEMMA PutUncodedEncodes ==
  ASSUME Inv, EncodedInv, PutUncoded
  PROVE  EncodedInv'
<1>. DEFINE C == Consumed
            F == FileSize
            c == lookahead[uncodedHead]
            after == PutChar(c, PutBit(UNCODED, bf))
            d == ByteBits
            a == PutSize(bf)
<1>1. PutToken(1, after)
  BY DEF PutUncoded
<1>2. /\ pc = "token" /\ len > 0 /\ pc' = "replace" /\ i' = 0 /\ bf' = after
      /\ match' = [match EXCEPT !.length = 1]
      /\ UNCHANGED <<data, inPos, len, lookahead>>
  BY <1>1 DEF PutToken, encoder, buffers
<1>3. /\ C \in Nat /\ F \in Nat /\ len \in Nat /\ C + len <= F /\ bf \in Streams
  BY <1>2, EncoderPlace
<1>4. C + 1 <= F /\ 0 \in 0 .. len - 1 /\ C + 0 = C
  BY <1>2, <1>3
<1>5. c = data[C]
  <2>1. uncodedHead = C % MAX_CODED
    BY <1>2 DEF Inv, EncoderInv
  <2>2. lookahead[(C + 0) % MAX_CODED] = data[C + 0]
    BY <1>2, <1>4 DEF Inv, LookaheadInv
  <2>. QED
    BY <1>4, <2>1, <2>2
<1>6. data[C] \in Nat
  <2>1. data \in [0 .. F - 1 -> Byte]
    BY DEF Inv, TypeInv, IsText, FileSize
  <2>2. C \in 0 .. F - 1
    BY <1>3, <1>4
  <2>. QED
    BY <2>1, <2>2, ByteRange
<1>7. Reached' = C + 1
  <2>1. match'.length = 1
    BY <1>2 DEF Inv, TypeInv
  <2>2. Consumed' = C
    BY <1>2 DEF Consumed
  <2>3. Reached' = Consumed' + (match'.length - i')
    BY <1>2 DEF Reached
  <2>. QED
    BY <1>2, <1>3, <2>1, <2>2, <2>3
<1>8. after = PutChar(data[C], PutBit(UNCODED, bf))
  BY <1>5
<1>9. PutBit(UNCODED, bf) \in Streams /\ PutBit(UNCODED, bf).room = bf.room
  BY <1>3, PutBitType, BitRoomKept
<1>10. after.room = bf.room
  BY <1>8, <1>9, BitRoomKept
<1>. HIDE DEF c, after
<1>11. ASSUME EnoughRoom' PROVE Encodes(bf', data', Reached')
  <2>1. bf.room >= 2 * F
    BY <1>2, <1>10, <1>11 DEF EnoughRoom, FileSize
  <2>2. Encodes(bf, data, C)
    BY <1>2, <2>1 DEF EncodedInv, Reached, EnoughRoom
  <2>3. /\ d \in Nat \ {0} /\ 1 + d \in Nat /\ 1 + d <= 2 * d * 1 /\ 1 \in Nat
    BY ByteRange
  <2>4. a <= 2 * d * C
    BY <2>2 DEF Encodes
  <2>5. HasRoom(bf, 1 + d) /\ a + (1 + d) <= 2 * d * (C + 1)
    <3>. HIDE DEF C, F, a
    <3>. QED
      BY <1>3, <1>4, <2>1, <2>3, <2>4, TokenFits DEF a
  <2>6. /\ \E b : Puts(bf, after, 1 + d, b)
        /\ PlainToken(WrittenBits(after), data, a, C)
    <3>. HIDE DEF C
    <3>. QED
      BY <1>3, <1>6, <1>8, <2>5, PlainTokenPut
  <2>7. Token(WrittenBits(after), data, <<a, C>>, <<a + (1 + d), C + 1>>)
    <3>. DEFINE m == <<a, C>>
    <3>1. m[1] = a /\ m[2] = C
      OBVIOUS
    <3>. HIDE DEF m
    <3>2. PlainNext(WrittenBits(after), data, m, <<a + (1 + d), C + 1>>)
      BY <2>6, <3>1 DEF PlainNext
    <3>. QED
      BY <3>2 DEF Token, m
  <2>8. PICK b : Puts(bf, after, 1 + d, b)
    BY <2>6
  <2>. HIDE DEF C, d
  <2>9. Encodes(after, data, C + 1)
    BY <1>3, <2>2, <2>3, <2>5, <2>7, <2>8, EncodesMore DEF d
  <2>. QED
    BY <1>2, <1>7, <2>9
<1>. QED
  BY <1>2, <1>11 DEF EncodedInv

(* The token for a string, which the window has.                             *)
LEMMA PutEncodedEncodes ==
  ASSUME Inv, EncodedInv, MatchInv, PutEncoded
  PROVE  EncodedInv'
<1>. DEFINE C == Consumed
            F == FileSize
            W == WINDOW_SIZE
            l == MatchLength
            u == MAX_UNCODED
            k == l - (u + 1)
            p == match.offset
            flag == PutBit(ENCODED, bf)
            after == PutBitsNum(k, LENGTH_BITS, PutBitsNum(p, OFFSET_BITS, flag))
            d == ByteBits
            e == 1 + OFFSET_BITS + LENGTH_BITS
            a == PutSize(bf)
<1>1. PutToken(l, after) /\ l > u
  BY DEF PutEncoded
<1>2. /\ pc = "token" /\ len > 0 /\ pc' = "replace" /\ i' = 0 /\ bf' = after
      /\ match' = [match EXCEPT !.length = l]
      /\ UNCHANGED <<data, inPos, len, lookahead>>
  BY <1>1 DEF PutToken, encoder, buffers
<1>3. /\ C \in Nat /\ F \in Nat /\ len \in Nat /\ C + len <= F /\ bf \in Streams
  BY <1>2, EncoderPlace
<1>4. /\ l \in 0 .. MAX_CODED /\ l <= len /\ u \in Nat /\ p \in Indices /\ p \in Nat
      /\ W \in Nat \ {0} /\ OFFSET_BITS \in Nat /\ LENGTH_BITS \in Nat
  BY MatchLengthRange, WindowSizes DEF Inv, TypeInv, Indices
<1>5. l <= match.length /\ match.length \in Nat
  <2>. DEFINE h == match.length
  <2>1. h \in Nat
    BY WindowSizes DEF Inv, TypeInv
  <2>. HIDE DEF h
  <2>2. Min({h, len}) = IF h <= len THEN h ELSE len
    BY <1>3, <2>1, SmallerOf
  <2>3. Min({h, len}) <= h
    BY <1>3, <2>1, <2>2
  <2>. QED
    BY <2>1, <2>3 DEF h, MatchLength
<1>6. k \in Lengths /\ k \in Nat /\ k + u = l - 1 /\ k + u + 1 = l
  <2>. DEFINE x == 2 ^ LENGTH_BITS
  <2>1. MAX_CODED = x + u /\ x \in Nat
    BY WindowSizes, PowersPositive
  <2>. HIDE DEF x, l, u
  <2>2. k \in 0 .. x - 1 /\ k \in Nat /\ k + u = l - 1 /\ k + u + 1 = l
    BY <1>1, <1>4, <2>1
  <2>. QED
    BY <2>2 DEF Lengths, x
<1>7. \A j \in 0 .. k + u : History(data, C)[Wrap(p + j, W)] = data[C + j]
  <2>1. /\ window = History(data, C)
        /\ \A j \in 0 .. len - 1 : lookahead[Wrap(uncodedHead + j, MAX_CODED)] = data[C + j]
    BY <1>2, InvMeans DEF WindowIsHistory
  <2>2. SameBytes(window, p, lookahead, uncodedHead, match.length)
    <3>. DEFINE h == match.length
    <3>1. h >= l /\ h \in Nat
      BY <1>5
    <3>. HIDE DEF h, l, u
    <3>2. h # 0
      BY <1>1, <1>4, <3>1
    <3>. QED
      BY <1>2, <3>2 DEF MatchInv, h
  <2>3. \A j \in 0 .. match.length - 1 :
          window[Wrap(p + j, W)] = lookahead[Wrap(uncodedHead + j, MAX_CODED)]
    BY <2>2 DEF SameBytes
  <2>4. \A j \in 0 .. k + u : j \in 0 .. match.length - 1 /\ j \in 0 .. len - 1
    <3>. DEFINE h == match.length
    <3>1. h >= l /\ h \in Nat
      BY <1>5
    <3>. HIDE DEF h, l, u, k
    <3>2. \A j \in 0 .. k + u : j \in 0 .. h - 1 /\ j \in 0 .. len - 1
      BY <1>3, <1>4, <1>6, <3>1
    <3>. QED
      BY <3>2 DEF h
  <2>. HIDE DEF p, l, k, u
  <2>. QED
    BY <2>1, <2>3, <2>4
<1>8. Reached' = C + l
  <2>1. match'.length = l
    BY <1>2 DEF Inv, TypeInv
  <2>2. Consumed' = C
    BY <1>2 DEF Consumed
  <2>3. Reached' = Consumed' + (match'.length - i')
    BY <1>2 DEF Reached
  <2>. HIDE DEF l
  <2>. QED
    BY <1>2, <1>3, <1>4, <2>1, <2>2, <2>3
<1>9. flag \in Streams /\ flag.room = bf.room
  BY <1>3, PutBitType, BitRoomKept
<1>10. after.room = bf.room
  <2>. HIDE DEF flag, k, p
  <2>1. PutBitsNum(p, OFFSET_BITS, flag) \in Streams
    BY <1>4, <1>9, PutBitsNumType
  <2>2. PutBitsNum(p, OFFSET_BITS, flag).room = flag.room
    BY <1>4, <1>9, PutNumRoom
  <2>3. after.room = PutBitsNum(p, OFFSET_BITS, flag).room
    BY <1>4, <1>6, <2>1, PutNumRoom
  <2>. QED
    BY <1>9, <2>2, <2>3
<1>11. ASSUME EnoughRoom' PROVE Encodes(bf', data', Reached')
  <2>. HIDE DEF l
  <2>1. bf.room >= 2 * F
    <3>. HIDE DEF after
    <3>. QED
      BY <1>2, <1>10, <1>11 DEF EnoughRoom, FileSize
  <2>2. Encodes(bf, data, C)
    BY <1>2, <2>1 DEF EncodedInv, Reached, EnoughRoom
  <2>3. e \in Nat /\ e <= 2 * d * l
    <3>1. e <= 2 * d * (u + 1) /\ e \in Nat
      BY <1>4, TokenAssumption
    <3>2. d \in Nat /\ u + 1 <= l /\ l \in Nat
      BY <1>1, <1>4, ByteRange
    <3>. HIDE DEF d, e, u
    <3>3. u \in Nat
      BY <1>4
    <3>4. 2 * d * l = 2 * d * (u + 1) + 2 * d * (l - (u + 1))
      BY <3>2, <3>3
    <3>5. l - (u + 1) \in Nat
      BY <3>2, <3>3
    <3>. DEFINE x == 2 * d * (u + 1)
                y == 2 * d * (l - (u + 1))
    <3>6. x \in Nat /\ y \in Nat
      BY <3>2, <3>3, <3>5
    <3>7. 2 * d * l = x + y /\ e <= x
      BY <3>1, <3>4
    <3>. HIDE DEF x, y
    <3>8. e <= x + y
      BY <3>1, <3>6, <3>7
    <3>. QED
      BY <3>1, <3>7, <3>8
  <2>4. a <= 2 * d * C
    BY <2>2 DEF Encodes
  <2>5. C + l <= F /\ l \in Nat
    <3>. HIDE DEF C, F
    <3>. QED
      BY <1>3, <1>4
  <2>6. HasRoom(bf, e) /\ a + e <= 2 * d * (C + l)
    <3>. HIDE DEF C, F, a, e
    <3>. QED
      BY <1>3, <2>1, <2>3, <2>4, <2>5, TokenFits DEF a
  <2>7. /\ \E b : Puts(bf, after, e, b)
        /\ StringToken(WrittenBits(after), data, a, C, p, k)
    <3>. HIDE DEF C, k, p
    <3>. QED
      BY <1>3, <1>4, <1>6, <1>7, <2>6, StringTokenPut
  <2>. HIDE DEF after
  <2>8. Token(WrittenBits(after), data, <<a, C>>, <<a + e, C + l>>)
    <3>. DEFINE m == <<a, C>>
    <3>1. m[1] = a /\ m[2] = C
      OBVIOUS
    <3>. HIDE DEF m, k, C, a
    <3>2. StringNext(WrittenBits(after), data, m, <<a + e, C + l>>, p, k)
      BY <1>6, <2>7, <3>1 DEF StringNext
    <3>. QED
      BY <1>4, <1>6, <3>2 DEF Token, m
  <2>9. PICK b : Puts(bf, after, e, b)
    BY <2>7
  <2>. HIDE DEF C, d, e
  <2>10. Encodes(after, data, C + l)
    BY <1>3, <2>2, <2>3, <2>5, <2>6, <2>8, <2>9, EncodesMore DEF d
  <2>. QED
    BY <1>2, <1>8, <2>10
<1>. QED
  BY <1>2, <1>11 DEF EncodedInv

-------------------------------------------------------------------------------
(* The decoder gets them. *)

(* The bits of a stream that is being read.                                  *)
LEMMA BitsAhead ==
  ASSUME NEW s, Reading(s), NEW t, NEW k \in Nat, Gets(s, t, k)
  PROVE  /\ Reading(t) /\ t.ok /\ t.room = s.room
         /\ GetPos(s) \in Nat /\ BitsInFile(s) \in Nat
         /\ GetPos(t) = GetPos(s) + k
         /\ BitsInFile(t) = BitsInFile(s) /\ BitsOfFile(t) = BitsOfFile(s)
         /\ \A n \in 0 .. BitsInFile(s) - 1 : FileBit(t.file, n) = BitsOfFile(s)[n]
<1>1. t.file = s.file
  BY DEF Gets
<1>2. BitsInFile(t) = BitsInFile(s) /\ BitsOfFile(t) = BitsOfFile(s)
  BY <1>1 DEF BitsInFile, BitsOfFile
<1>3. \A n \in 0 .. BitsInFile(s) - 1 : FileBit(t.file, n) = BitsOfFile(s)[n]
  BY <1>1 DEF BitsOfFile
<1>4. GetPos(s) \in Nat /\ BitsInFile(s) \in Nat
  BY GetSizes
<1>. QED
  BY <1>2, <1>3, <1>4 DEF Gets

(* The decoder gets the byte that a token stands for ...                     *)
LEMMA PlainTokenGot ==
  ASSUME NEW s, Reading(s), NEW text, NEW p, text[p] \in Byte,
         PlainToken(BitsOfFile(s), text, GetPos(s), p),
         GetPos(s) + (1 + ByteBits) <= BitsInFile(s)
  PROVE  LET flag == GetBit(s)
             char == GetChar(flag)
         IN /\ flag.ok /\ flag.val = UNCODED
            /\ char.ok /\ char.val = text[p]
            /\ Gets(s, char, 1 + ByteBits)
<1>. DEFINE d == ByteBits
            g == GetPos(s)
            z == BitsInFile(s)
            w == BitsOfFile(s)
            flag == GetBit(s)
            char == GetChar(flag)
            c == char.val
            x == text[p]
<1>1. d \in Nat \ {0} /\ g \in Nat /\ z \in Nat /\ g + (1 + d) <= z
  BY ByteRange, GetSizes
<1>2. w[g] = UNCODED /\ \A j \in 0 .. d - 1 : w[g + 1 + j] = BitOf(x, d - 1 - j)
  BY DEF PlainToken
<1>. HIDE DEF d, g, z, w, x
<1>3. /\ g + 1 <= z /\ g \in 0 .. z - 1 /\ (g + 1) + d <= z
      /\ \A j \in 0 .. d - 1 : g + 1 + j \in 0 .. z - 1 /\ d - 1 - j \in 0 .. d - 1
                               /\ d - 1 - (d - 1 - j) = j
  BY <1>1
<1>4. Gets(s, flag, 1) /\ flag.val = FileBit(s.file, g)
  BY <1>3, GetBitGets DEF g, z
<1>5. flag.val = UNCODED
  <2>1. w[g] = FileBit(s.file, g)
    BY <1>3 DEF w, z, BitsOfFile
  <2>. QED
    BY <1>2, <1>4, <2>1
<1>6. /\ Reading(flag) /\ flag.ok /\ GetPos(flag) = g + 1 /\ BitsInFile(flag) = z
      /\ BitsOfFile(flag) = w
      /\ \A n \in 0 .. z - 1 : FileBit(flag.file, n) = w[n]
  <2>1. 1 \in Nat
    OBVIOUS
  <2>. HIDE DEF flag
  <2>. QED
    BY <1>4, <2>1, BitsAhead DEF g, z, w
<1>. HIDE DEF flag
<1>7. /\ Gets(flag, char, d)
      /\ \A j \in 0 .. d - 1 : BitOf(c, d - 1 - j) = FileBit(flag.file, g + 1 + j)
  BY <1>3, <1>6, GetCharGets DEF d
<1>8. Gets(s, char, 1 + d)
  <2>1. GotTo(flag, d, char)
    <3>. HIDE DEF char
    <3>. QED
      BY <1>3, <1>6, <1>7 DEF GotTo
  <2>2. 1 \in Nat /\ d \in Nat
    BY <1>1
  <2>. HIDE DEF char
  <2>3. GotTo(s, 1 + d, char)
    BY <1>4, <2>1, <2>2, GetsMore
  <2>. QED
    BY <1>1, <2>3 DEF GotTo, g, z
<1>9. c \in 0 .. 2 ^ d - 1
  <2>1. flag \in Streams
    BY <1>6 DEF Reading
  <2>2. c \in Byte
    BY <2>1, GetCharType
  <2>. QED
    BY <2>2 DEF Byte, d
<1>10. char.ok
  BY <1>7 DEF Gets
<1>. HIDE DEF char, c
<1>11. c = x
  <2>1. \A j \in 0 .. d - 1 : BitOf(c, d - 1 - j) = BitOf(x, d - 1 - j)
    BY <1>2, <1>3, <1>6, <1>7
  <2>2. \A j \in 0 .. d - 1 : BitOf(c, j) = BitOf(x, j)
    <3>1. TAKE j \in 0 .. d - 1
    <3>2. d - 1 - j \in 0 .. d - 1 /\ d - 1 - (d - 1 - j) = j
      BY <1>3
    <3>. QED
      BY <2>1, <3>2
  <2>3. x \in 0 .. 2 ^ d - 1 /\ d \in Nat
    BY <1>1 DEF x, d, Byte
  <2>. QED
    BY <1>9, <2>2, <2>3, BitsDetermine
<1>. QED
  BY <1>5, <1>6, <1>8, <1>10, <1>11 DEF c, x, d, char, flag

(* ... or the string.                                                        *)
LEMMA StringTokenGot ==
  ASSUME NEW s, Reading(s), NEW text, NEW p, NEW v \in Indices, NEW k \in Lengths,
         StringToken(BitsOfFile(s), text, GetPos(s), p, v, k),
         GetPos(s) + (1 + OFFSET_BITS + LENGTH_BITS) <= BitsInFile(s)
  PROVE  LET flag == GetBit(s)
             offset == GetBitsNum(OFFSET_BITS, flag)
             length == GetBitsNum(LENGTH_BITS, offset)
         IN /\ flag.ok /\ flag.val = ENCODED
            /\ offset.ok /\ offset.val = v
            /\ length.ok /\ length.val = k
            /\ Gets(s, length, 1 + OFFSET_BITS + LENGTH_BITS)
<1>. DEFINE o == OFFSET_BITS
            l == LENGTH_BITS
            g == GetPos(s)
            z == BitsInFile(s)
            w == BitsOfFile(s)
            flag == GetBit(s)
            offset == GetBitsNum(o, flag)
            length == GetBitsNum(l, offset)
<1>1. o \in Nat /\ l \in Nat /\ g \in Nat /\ z \in Nat /\ g + (1 + o + l) <= z
  BY WindowSizes, GetSizes
<1>2. /\ w[g] = ENCODED /\ \A j \in 0 .. o - 1 : w[g + 1 + j] = NumBit(v, o, j)
      /\ \A j \in 0 .. l - 1 : w[g + 1 + o + j] = NumBit(k, l, j)
  BY DEF StringToken
<1>3. v \in 0 .. 2 ^ o - 1 /\ k \in 0 .. 2 ^ l - 1
  BY DEF Indices, WINDOW_SIZE, Lengths
<1>. HIDE DEF o, l, g, z, w
<1>4. /\ g + 1 <= z /\ g \in 0 .. z - 1 /\ (g + 1) + o <= z /\ (g + (1 + o)) + l <= z
      /\ \A j \in 0 .. o - 1 : (g + 1) + j \in 0 .. z - 1 /\ (g + 1) + j = g + 1 + j
      /\ \A j \in 0 .. l - 1 : /\ (g + (1 + o)) + j \in 0 .. z - 1
                               /\ (g + (1 + o)) + j = g + 1 + o + j
  BY <1>1
<1>5. Gets(s, flag, 1) /\ flag.val = FileBit(s.file, g)
  BY <1>4, GetBitGets DEF g, z
<1>6. flag.val = ENCODED
  <2>1. w[g] = FileBit(s.file, g)
    BY <1>4 DEF w, z, BitsOfFile
  <2>. QED
    BY <1>2, <1>5, <2>1
<1>7. /\ Reading(flag) /\ flag.ok /\ GetPos(flag) = g + 1 /\ BitsInFile(flag) = z
      /\ \A n \in 0 .. z - 1 : FileBit(flag.file, n) = w[n]
  <2>1. 1 \in Nat
    OBVIOUS
  <2>. HIDE DEF flag
  <2>. QED
    BY <1>5, <2>1, BitsAhead DEF g, z, w
<1>. HIDE DEF flag
<1>8. GotTo(flag, o, offset) /\ (offset.ok /\ NumberNext(flag, v, o) => offset.val = v)
  BY <1>1, <1>3, <1>7, GetNumGets
<1>9. NumberNext(flag, v, o)
  BY <1>2, <1>4, <1>7 DEF NumberNext
<1>. HIDE DEF offset
<1>10. Gets(flag, offset, o)
  BY <1>4, <1>7, <1>8 DEF GotTo
<1>11. offset.ok /\ offset.val = v
  BY <1>8, <1>9, <1>10 DEF Gets
<1>12. Gets(s, offset, 1 + o)
  <2>1. 1 \in Nat /\ g + (1 + o) <= z
    BY <1>1
  <2>2. GotTo(s, 1 + o, offset)
    BY <1>1, <1>5, <1>8, <2>1, GetsMore
  <2>. QED
    BY <2>1, <2>2 DEF GotTo, g, z
<1>13. /\ Reading(offset) /\ GetPos(offset) = g + (1 + o) /\ BitsInFile(offset) = z
       /\ \A n \in 0 .. z - 1 : FileBit(offset.file, n) = w[n]
  <2>1. 1 + o \in Nat
    BY <1>1
  <2>. QED
    BY <1>12, <2>1, BitsAhead DEF g, z, w
<1>14. GotTo(offset, l, length) /\ (length.ok /\ NumberNext(offset, k, l) => length.val = k)
  BY <1>1, <1>3, <1>13, GetNumGets
<1>15. NumberNext(offset, k, l)
  BY <1>2, <1>4, <1>13 DEF NumberNext
<1>. HIDE DEF length
<1>16. Gets(offset, length, l)
  BY <1>4, <1>13, <1>14 DEF GotTo
<1>17. length.ok /\ length.val = k
  BY <1>14, <1>15, <1>16 DEF Gets
<1>18. Gets(s, length, (1 + o) + l)
  <2>1. 1 + o \in Nat /\ g + ((1 + o) + l) <= z
    BY <1>1
  <2>2. GotTo(s, (1 + o) + l, length)
    BY <1>1, <1>12, <1>14, <2>1, GetsMore
  <2>. QED
    BY <2>1, <2>2 DEF GotTo, g, z
<1>. QED
  BY <1>6, <1>7, <1>11, <1>17, <1>18 DEF length, offset, flag, o, l

(* In the padding of the last byte there is no token.                        *)
LEMMA NoTokenGot ==
  ASSUME NEW s, Reading(s), BitsInFile(s) < GetPos(s) + ByteBits, GetBit(s).ok
  PROVE  LET flag == GetBit(s)
             offset == GetBitsNum(OFFSET_BITS, flag)
             length == IF offset.ok THEN GetBitsNum(LENGTH_BITS, offset) ELSE offset
         IN ~ GetChar(flag).ok /\ ~ length.ok
<1>. DEFINE d == ByteBits
            o == OFFSET_BITS
            l == LENGTH_BITS
            g == GetPos(s)
            z == BitsInFile(s)
            flag == GetBit(s)
            char == GetChar(flag)
            offset == GetBitsNum(o, flag)
            last == GetBitsNum(l, offset)
            length == IF offset.ok THEN last ELSE offset
<1>1. /\ d \in Nat \ {0} /\ o \in Nat /\ l \in Nat /\ g \in Nat /\ z \in Nat
      /\ z < g + d /\ d <= 1 + o + l
  BY WindowSizes, ByteRange, GetSizes, TokenAssumption
<1>2. 0 \in 0 .. 2 ^ o - 1 /\ 0 \in 0 .. 2 ^ l - 1
  <2>1. 2 ^ o \in Nat \ {0} /\ 2 ^ l \in Nat \ {0}
    BY <1>1, PowersPositive
  <2>. DEFINE x == 2 ^ o
              y == 2 ^ l
  <2>. HIDE DEF x, y
  <2>2. 0 \in 0 .. x - 1 /\ 0 \in 0 .. y - 1
    BY <2>1 DEF x, y
  <2>. QED
    BY <2>2 DEF x, y
<1>. HIDE DEF d, o, l, g, z
<1>3. Gets(s, flag, 1)
  <2>1. g + 1 <= z
    BY GetBitGets DEF g, z
  <2>. QED
    BY <2>1, GetBitGets DEF g, z
<1>4. Reading(flag) /\ GetPos(flag) = g + 1 /\ BitsInFile(flag) = z
  <2>1. 1 \in Nat
    OBVIOUS
  <2>. HIDE DEF flag
  <2>. QED
    BY <1>3, <2>1, BitsAhead DEF g, z
<1>. HIDE DEF flag
<1>5. ~ char.ok
  <2>1. ~ (GetPos(flag) + d <= BitsInFile(flag))
    BY <1>1, <1>4
  <2>. QED
    BY <1>4, <2>1, GetCharGets DEF d
<1>6. GotTo(flag, o, offset)
  BY <1>1, <1>2, <1>4, GetNumGets
<1>. HIDE DEF offset
<1>7. ASSUME offset.ok PROVE ~ last.ok
  <2>1. Gets(flag, offset, o)
    BY <1>6, <1>7 DEF GotTo
  <2>2. Reading(offset) /\ GetPos(offset) = g + 1 + o /\ BitsInFile(offset) = z
    BY <1>1, <1>4, <2>1, BitsAhead
  <2>3. GotTo(offset, l, last)
    BY <1>1, <1>2, <2>2, GetNumGets
  <2>4. ~ (GetPos(offset) + l <= BitsInFile(offset))
    BY <1>1, <2>2
  <2>. HIDE DEF last
  <2>. QED
    BY <2>3, <2>4 DEF GotTo
<1>8. ~ length.ok
  <2>. HIDE DEF last
  <2>. QED
    BY <1>7
<1>. QED
  BY <1>5, <1>8 DEF flag, offset, o, l

(* In the test mode a file is to be decoded that the same call has encoded.  *)
Restoring == \/ stage = "encode" /\ pc = "encoded"
             \/ stage = "decode" /\ mode = "TEST"

OutIsPrefix == Written <= FileSize /\ \A x \in 0 .. Written - 1 : out[x] = data[x]

(* The tokens end at bit a, in the last byte of the file, and the decoder is *)
(* at one of the marks between them with what it has put out; or it will be, *)
(* after the string that it copies.                                          *)
Decodes(a, marks) ==
  /\ Tiling(BitsOfFile(bf), data, marks, <<a, FileSize>>)
  /\ a <= BitsInFile(bf) /\ BitsInFile(bf) < a + ByteBits
  /\ pc \in {"flag", "copy"} => Reading(bf)
  /\ pc = "flag" => <<GetPos(bf), Written>> \in marks
  /\ pc = "copy" =>
       /\ <<GetPos(bf), Behind + match.length>> \in marks
       /\ \A j \in 0 .. match.length - 1 :
            History(data, Behind)[Wrap(match.offset + j, WINDOW_SIZE)] = data[Behind + j]

DecodedInv ==
  EnoughRoom /\ Restoring =>
    /\ OutIsPrefix
    /\ pc = "done" => Written = FileSize
    /\ pc # "done" => \E a \in Nat : \E marks : Decodes(a, marks)

(* What the decoder has to do with the input.                                *)
LEMMA DecoderTexts ==
  ASSUME Inv
  PROVE  /\ FileSize \in Nat /\ data \in [0 .. FileSize - 1 -> Byte]
         /\ Written \in Nat /\ bf \in Streams
BY DEF Inv, TypeInv, IsText, FileSize, Written

(* Between two tokens: either this was the last one, or there is a token,    *)
(* and all of it is in the file.                                             *)
LEMMA NextToken ==
  ASSUME Inv, pc = "flag", NEW a \in Nat, NEW marks, Decodes(a, marks)
  PROVE  LET m == <<GetPos(bf), Written>>
             f == BitsOfFile(bf)
         IN /\ Reading(bf)
            /\ m \in Marks
            /\ \/ /\ Written = FileSize /\ BitsInFile(bf) < GetPos(bf) + ByteBits
               \/ \E n \in marks : /\ Token(f, data, m, n)
                                   /\ n \in Marks
                                   /\ n[1] <= BitsInFile(bf) /\ n[2] <= FileSize
<1>. DEFINE g == GetPos(bf)
            n == Written
            F == FileSize
            z == BitsInFile(bf)
            m == <<g, n>>
            end == <<a, F>>
            f == BitsOfFile(bf)
<1>1. /\ Tiling(f, data, marks, end) /\ a <= z /\ z < a + ByteBits
      /\ Reading(bf) /\ m \in marks
  BY DEF Decodes
<1>2. g \in Nat /\ n \in Nat /\ F \in Nat /\ z \in Nat
  BY <1>1, GetSizes, DecoderTexts
<1>. HIDE DEF g, n, F, z, f
<1>3. m \in Marks /\ end[1] = a /\ end[2] = F
  BY <1>2 DEF Marks
<1>4. CASE m = end
  BY <1>1, <1>3, <1>4 DEF g, n, F, z, f
<1>5. CASE m # end
  <2>. HIDE DEF m, end
  <2>1. PICK new \in marks : Token(f, data, m, new)
    BY <1>1, <1>5 DEF Tiling
  <2>2. new \in Marks /\ new[1] <= a /\ new[2] <= F
    BY <1>1, <1>3 DEF Tiling
  <2>3. new[1] \in Nat /\ new[1] <= z
    BY <1>1, <1>2, <2>2 DEF Marks
  <2>. QED
    BY <1>1, <1>3, <2>1, <2>2, <2>3 DEF m, g, n, F, z, f
<1>. QED
  BY <1>4, <1>5

(* Reading starts at the first bit, and nothing has been put out.            *)
LEMMA StartDecodingDecodes ==
  ASSUME Inv, DecodedInv, stage = "decode", UNCHANGED <<stage, mode>>, StartDecoding
  PROVE  DecodedInv'
<1>. USE DEF StartDecoding
<1>1. /\ UNCHANGED <<data, out>> /\ pc = "encoded" /\ pc' = "flag"
      /\ bf' = MakeBitFile(bf.file, bf.room) /\ out = << >>
  BY DEF Inv, FreshInv
<1>2. bf'.file = bf.file /\ bf'.room = bf.room /\ bf'.pos = 0 /\ bf'.bitCount = 0
  BY <1>1 DEF MakeBitFile
<1>3. bf' \in Streams /\ ByteBits \in Nat
  BY <1>1, ByteRange DEF Inv, TypeInv, MakeBitFile, Streams, StreamsUpTo
<1>4. Reading(bf') /\ GetPos(bf') = 0
  <2>1. Len(bf'.file) \in Nat
    BY <1>3 DEF Streams, StreamsUpTo
  <2>. QED
    BY <1>2, <1>3, <2>1 DEF Reading, GetPos
<1>5. /\ BitsOfFile(bf') = BitsOfFile(bf) /\ BitsInFile(bf') = BitsInFile(bf)
      /\ FileSize' = FileSize /\ Written' = Written /\ Written = 0
  BY <1>1, <1>2, NoText DEF BitsOfFile, BitsInFile, FileSize, Written
<1>6. ASSUME EnoughRoom', Restoring' PROVE OutIsPrefix' /\ \E a \in Nat : \E marks : Decodes(a, marks)'
  <2>1. EnoughRoom /\ Restoring
    BY <1>1, <1>2, <1>5, <1>6 DEF EnoughRoom, Restoring
  <2>2. PICK a \in Nat : \E marks : Decodes(a, marks)
    BY <1>1, <2>1 DEF DecodedInv
  <2>3. PICK marks : Decodes(a, marks)
    BY <2>2
  <2>4. <<0, 0>> \in marks
    BY <2>3 DEF Decodes, Tiling
  <2>5. Decodes(a, marks)'
    BY <1>1, <1>4, <1>5, <2>3, <2>4 DEF Decodes
  <2>6. OutIsPrefix'
    BY <1>1, <1>5, <2>1 DEF DecodedInv, OutIsPrefix
  <2>. QED
    BY <2>5, <2>6
<1>. QED
  BY <1>1, <1>6 DEF DecodedInv

(* One byte more.                                                            *)
LEMMA PutOutPrefix ==
  ASSUME Inv, OutIsPrefix, NEW c \in Byte, PutOut(c), UNCHANGED data,
         Written < FileSize, c = data[Written]
  PROVE  OutIsPrefix'
<1>. DEFINE n == Written
            F == FileSize
<1>1. /\ Written' = n + 1 /\ n \in Nat
      /\ \A x \in 0 .. n - 1 : out'[x] = out[x]
      /\ out'[n] = c
  BY PutOutStep
<1>2. FileSize' = F /\ F \in Nat /\ \A x \in 0 .. n - 1 : out[x] = data[x]
  BY DecoderTexts DEF FileSize, OutIsPrefix
<1>. HIDE DEF n, F
<1>3. n < F /\ c = data[n]
  BY DEF n, F
<1>4. n + 1 <= F
  BY <1>1, <1>2, <1>3
<1>5. \A x \in 0 .. n : out'[x] = data[x]
  <2>1. TAKE x \in 0 .. n
  <2>2. CASE x = n
    BY <1>1, <1>3, <2>2
  <2>3. CASE x # n
    <3>1. x \in 0 .. n - 1
      BY <1>1, <2>3
    <3>. QED
      BY <1>1, <1>2, <3>1
  <2>. QED
    BY <2>2, <2>3
<1>6. (n + 1) - 1 = n
  BY <1>1
<1>. QED
  BY <1>1, <1>2, <1>4, <1>5, <1>6 DEF OutIsPrefix

(* A byte is decoded if there is a token for it, or the file is at its end.  *)
LEMMA GetUncodedDecodes ==
  ASSUME Inv, DecodedInv, stage = "decode", UNCHANGED <<stage, mode>>, GetUncoded
  PROVE  DecodedInv'
<1>. USE DEF GetUncoded
<1>. DEFINE flag == GetBit(bf)
            char == GetChar(flag)
            c == char.val
            n == Written
            F == FileSize
            g == GetPos(bf)
            f == BitsOfFile(bf)
            m == <<g, n>>
<1>1. /\ UNCHANGED data /\ pc = "flag"
      /\ bf' = char /\ flag.ok /\ flag.val = UNCODED
      /\ char.ok => PutOut(c) /\ UNCHANGED pc
      /\ ~ char.ok => pc' = "done" /\ UNCHANGED out
  OBVIOUS
<1>2. /\ flag \in Streams /\ char.room = bf.room
      /\ n \in Nat /\ F \in Nat /\ data \in [0 .. F - 1 -> Byte]
  <2>1. bf \in Streams /\ n \in Nat /\ F \in Nat /\ data \in [0 .. F - 1 -> Byte]
    BY DecoderTexts
  <2>2. flag \in Streams /\ flag.room = bf.room
    BY <2>1, GetBitType, BitRoomKept
  <2>. HIDE DEF flag
  <2>. QED
    BY <2>1, <2>2, BitRoomKept
<1>. HIDE DEF GetUncoded
<1>3. ASSUME EnoughRoom', Restoring'
      PROVE  /\ OutIsPrefix'
             /\ pc' = "done" => Written' = FileSize'
             /\ pc' # "done" => \E a \in Nat : \E marks : Decodes(a, marks)'
  <2>1. EnoughRoom /\ Restoring
    <3>. HIDE DEF char
    <3>. QED
      BY <1>1, <1>2, <1>3 DEF EnoughRoom, Restoring, FileSize
  <2>2. PICK a \in Nat : \E marks : Decodes(a, marks)
    BY <1>1, <2>1 DEF DecodedInv
  <2>3. PICK marks : Decodes(a, marks)
    BY <2>2
  <2>4. OutIsPrefix
    BY <2>1 DEF DecodedInv
  <2>5. Reading(bf) /\ m \in Marks
    BY <1>1, <2>3, NextToken
  <2>6. CASE n = F /\ BitsInFile(bf) < g + ByteBits
    <3>1. ~ char.ok
      BY <1>1, <2>5, <2>6, NoTokenGot
    <3>2. pc' = "done" /\ UNCHANGED <<data, out>>
      BY <1>1, <3>1
    <3>. QED
      BY <2>4, <2>6, <3>2 DEF OutIsPrefix, Written, FileSize
  <2>7. CASE \E new \in marks : /\ Token(f, data, m, new) /\ new \in Marks
                                /\ new[1] <= BitsInFile(bf) /\ new[2] <= F
    <3>1. PICK new \in marks : /\ Token(f, data, m, new) /\ new \in Marks
                               /\ new[1] <= BitsInFile(bf) /\ new[2] <= F
      BY <2>7
    <3>2. PlainNext(f, data, m, new)
      <4>1. ASSUME NEW offset \in Indices, NEW k \in Lengths, StringNext(f, data, m, new, offset, k)
            PROVE  FALSE
        <5>. DEFINE e == 1 + OFFSET_BITS + LENGTH_BITS
        <5>1. /\ new = <<m[1] + e, m[2] + (k + MAX_UNCODED + 1)>>
              /\ StringToken(f, data, m[1], m[2], offset, k)
          BY <4>1 DEF StringNext
        <5>. HIDE DEF e
        <5>2. new[1] = g + e /\ StringToken(f, data, g, n, offset, k)
          BY <5>1
        <5>3. g + e <= BitsInFile(bf)
          BY <3>1, <5>2
        <5>4. flag.val = ENCODED
          <6>. HIDE DEF n
          <6>. QED
            BY <2>5, <5>2, <5>3, StringTokenGot DEF e
        <5>. QED
          BY <1>1, <5>4 DEF ENCODED, UNCODED
      <4>. QED
        BY <3>1, <4>1 DEF Token
    <3>3. new = <<g + (1 + ByteBits), n + 1>> /\ PlainToken(f, data, g, n)
      BY <3>2 DEF PlainNext
    <3>4. new[1] = g + (1 + ByteBits) /\ new[2] = n + 1
      BY <3>3
    <3>5. n < F /\ n \in 0 .. F - 1 /\ g + (1 + ByteBits) <= BitsInFile(bf)
      <4>. HIDE DEF n, F, g
      <4>. QED
        BY <1>2, <3>1, <3>4
    <3>6. data[n] \in Byte
      BY <1>2, <3>5
    <3>7. char.ok /\ c = data[n] /\ Gets(bf, char, 1 + ByteBits)
      <4>. HIDE DEF n
      <4>. QED
        BY <2>5, <3>3, <3>5, <3>6, PlainTokenGot
    <3>. HIDE DEF char, c
    <3>8. PutOut(c) /\ pc' = "flag"
      BY <1>1, <3>7
    <3>9. OutIsPrefix'
      BY <1>1, <2>4, <3>5, <3>6, <3>7, <3>8, PutOutPrefix
    <3>10. Written' = n + 1 /\ FileSize' = F
      BY <1>1, <3>6, <3>7, <3>8, PutOutStep DEF FileSize
    <3>11. /\ Reading(bf') /\ GetPos(bf') = g + (1 + ByteBits)
           /\ BitsInFile(bf') = BitsInFile(bf) /\ BitsOfFile(bf') = f
      <4>1. 1 + ByteBits \in Nat
        BY ByteRange
      <4>. QED
        BY <1>1, <2>5, <3>7, <4>1, BitsAhead
    <3>12. <<GetPos(bf'), Written'>> \in marks
      BY <3>1, <3>3, <3>10, <3>11
    <3>13. Decodes(a, marks)'
      <4>1. /\ Tiling(f, data, marks, <<a, F>>)
            /\ a <= BitsInFile(bf) /\ BitsInFile(bf) < a + ByteBits
        BY <2>3 DEF Decodes
      <4>. HIDE DEF f, F, n, g
      <4>. QED
        BY <1>1, <3>8, <3>10, <3>11, <3>12, <4>1 DEF Decodes
    <3>. QED
      BY <3>8, <3>9, <3>13
  <2>. QED
    BY <1>1, <2>3, <2>6, <2>7, NextToken
<1>. QED
  BY <1>3 DEF DecodedInv

(* A string is decoded if there is a token for it, or the file is at its     *)
(* end.                                                                      *)
LEMMA GetEncodedDecodes ==
  ASSUME Inv, DecodedInv, stage = "decode", UNCHANGED <<stage, mode>>, GetEncoded
  PROVE  DecodedInv'
<1>. USE DEF GetEncoded
<1>. DEFINE flag == GetBit(bf)
            offset == GetBitsNum(OFFSET_BITS, flag)
            last == GetBitsNum(LENGTH_BITS, offset)
            length == IF offset.ok THEN last ELSE offset
            u == MAX_UNCODED
            n == Written
            F == FileSize
            g == GetPos(bf)
            f == BitsOfFile(bf)
            m == <<g, n>>
            e == 1 + OFFSET_BITS + LENGTH_BITS
<1>1. /\ UNCHANGED <<data, out>> /\ pc = "flag"
      /\ bf' = length /\ flag.ok /\ flag.val # UNCODED
      /\ length.ok => match' = Match(offset.val, length.val + u + 1) /\ i' = 0 /\ pc' = "copy"
      /\ ~ length.ok => pc' = "done"
  OBVIOUS
<1>. HIDE DEF GetEncoded
<1>2. length.room = bf.room
  <2>1. flag \in Streams /\ flag.room = bf.room
    BY DecoderTexts, GetBitType, BitRoomKept
  <2>. HIDE DEF flag
  <2>2. offset \in Streams /\ offset.room = bf.room
    BY <2>1, WindowSizes, GetBitsNumType, GetNumRoom
  <2>. HIDE DEF offset
  <2>3. last.room = bf.room
    BY <2>2, WindowSizes, GetNumRoom
  <2>. HIDE DEF last
  <2>. QED
    BY <2>2, <2>3
<1>3. n \in Nat /\ F \in Nat /\ u \in Nat
  BY DecoderTexts, WindowSizes
<1>4. ASSUME EnoughRoom', Restoring'
      PROVE  /\ OutIsPrefix'
             /\ pc' = "done" => Written' = FileSize'
             /\ pc' # "done" => \E a \in Nat : \E marks : Decodes(a, marks)'
  <2>1. EnoughRoom /\ Restoring
    <3>. HIDE DEF length
    <3>. QED
      BY <1>1, <1>2, <1>4 DEF EnoughRoom, Restoring, FileSize
  <2>2. PICK a \in Nat : \E marks : Decodes(a, marks)
    BY <1>1, <2>1 DEF DecodedInv
  <2>3. PICK marks : Decodes(a, marks)
    BY <2>2
  <2>4. Reading(bf) /\ m \in Marks
    BY <1>1, <2>3, NextToken
  <2>5. OutIsPrefix' /\ Written' = n /\ FileSize' = F
    BY <1>1, <2>1 DEF DecodedInv, OutIsPrefix, Written, FileSize
  <2>6. CASE n = F /\ BitsInFile(bf) < g + ByteBits
    <3>1. ~ length.ok
      BY <1>1, <2>4, <2>6, NoTokenGot
    <3>. HIDE DEF length
    <3>2. pc' = "done"
      BY <1>1, <3>1
    <3>. QED
      BY <2>5, <2>6, <3>2
  <2>7. CASE \E new \in marks : /\ Token(f, data, m, new) /\ new \in Marks
                                /\ new[1] <= BitsInFile(bf) /\ new[2] <= F
    <3>1. PICK new \in marks : /\ Token(f, data, m, new) /\ new \in Marks
                               /\ new[1] <= BitsInFile(bf) /\ new[2] <= F
      BY <2>7
    <3>2. ~ PlainNext(f, data, m, new)
      <4>1. SUFFICES ASSUME PlainNext(f, data, m, new)
                     PROVE  FALSE
        OBVIOUS
      <4>2. new = <<g + (1 + ByteBits), n + 1>> /\ PlainToken(f, data, g, n)
        BY <4>1 DEF PlainNext
      <4>3. new[1] = g + (1 + ByteBits) /\ new[2] = n + 1
        BY <4>2
      <4>4. n \in 0 .. F - 1 /\ g + (1 + ByteBits) <= BitsInFile(bf)
        <5>. HIDE DEF n, F, g
        <5>. QED
          BY <1>3, <3>1, <4>3
      <4>5. data[n] \in Byte
        BY <4>4, DecoderTexts
      <4>6. flag.val = UNCODED
        <5>. HIDE DEF n
        <5>. QED
          BY <2>4, <4>2, <4>4, <4>5, PlainTokenGot
      <4>. QED
        BY <1>1, <4>6
    <3>3. PICK v \in Indices, k \in Lengths : StringNext(f, data, m, new, v, k)
      BY <3>1, <3>2 DEF Token
    <3>4. /\ new = <<g + e, n + (k + u + 1)>>
          /\ StringToken(f, data, g, n, v, k)
      <4>. HIDE DEF g, n
      <4>. QED
        BY <3>3 DEF StringNext
    <3>5. k \in Nat
      <4>. DEFINE x == 2 ^ LENGTH_BITS
      <4>. HIDE DEF x
      <4>1. k \in 0 .. x - 1
        BY DEF Lengths, x
      <4>. QED
        BY <4>1
    <3>6. /\ \A j \in 0 .. k + u : History(data, n)[Wrap(v + j, WINDOW_SIZE)] = data[n + j]
      BY <3>4 DEF StringToken
    <3>7. g + e <= BitsInFile(bf)
      <4>. HIDE DEF g, e, n
      <4>1. new[1] = g + e
        BY <3>4
      <4>. QED
        BY <3>1, <4>1
    <3>8. /\ offset.ok /\ offset.val = v
          /\ last.ok /\ last.val = k
          /\ Gets(bf, last, e)
      <4>. HIDE DEF n
      <4>. QED
        BY <2>4, <3>4, <3>7, StringTokenGot
    <3>. HIDE DEF offset, last
    <3>9. length = last
      BY <3>8
    <3>10. /\ match' = Match(v, k + u + 1) /\ i' = 0 /\ pc' = "copy" /\ bf' = last
      BY <1>1, <3>8, <3>9
    <3>11. /\ match'.offset = v /\ match'.length = k + u + 1
           /\ Behind' = n
      <4>1. match'.offset = v /\ match'.length = k + u + 1
        BY <3>10 DEF Match
      <4>2. Behind' = Written' - 0
        BY <3>10 DEF Behind
      <4>. HIDE DEF n
      <4>. QED
        BY <1>3, <2>5, <4>1, <4>2
    <3>12. /\ Reading(bf') /\ GetPos(bf') = g + e
           /\ BitsInFile(bf') = BitsInFile(bf) /\ BitsOfFile(bf') = f
      <4>1. e \in Nat
        BY WindowSizes
      <4>. HIDE DEF e
      <4>. QED
        BY <2>4, <3>8, <3>10, <4>1, BitsAhead
    <3>13. <<GetPos(bf'), Behind' + match'.length>> \in marks
      BY <3>1, <3>4, <3>11, <3>12
    <3>14. \A j \in 0 .. match'.length - 1 :
             History(data', Behind')[Wrap(match'.offset + j, WINDOW_SIZE)] = data'[Behind' + j]
      <4>1. (k + u + 1) - 1 = k + u
        BY <1>3, <3>5
      <4>. HIDE DEF n, u
      <4>. QED
        BY <1>1, <3>6, <3>11, <4>1
    <3>15. Decodes(a, marks)'
      <4>1. /\ Tiling(f, data, marks, <<a, F>>)
            /\ a <= BitsInFile(bf) /\ BitsInFile(bf) < a + ByteBits
        BY <2>3 DEF Decodes
      <4>2. \A j \in 0 .. match'.length - 1 :
              History(data, Behind)'[Wrap(match'.offset + j, WINDOW_SIZE)] = data'[Behind' + j]
        BY <3>14 DEF History
      <4>. HIDE DEF f, F, n, g, e
      <4>. QED
        BY <1>1, <2>5, <3>10, <3>12, <3>13, <4>1, <4>2 DEF Decodes
    <3>. QED
      BY <2>5, <3>10, <3>15
  <2>. QED
    BY <1>1, <2>3, <2>6, <2>7, NextToken
<1>. QED
  BY <1>4 DEF DecodedInv

(* The decoder ends where the tokens end.                                    *)
LEMMA EndOfDecodingDecodes ==
  ASSUME Inv, DecodedInv, stage = "decode", UNCHANGED <<stage, mode>>, EndOfDecoding
  PROVE  DecodedInv'
<1>. DEFINE g == GetPos(bf)
            z == BitsInFile(bf)
            m == <<g, Written>>
<1>1. /\ UNCHANGED <<data, out, bf>> /\ pc = "flag" /\ pc' = "done" /\ ~ GetBit(bf).ok
  BY DEF EndOfDecoding
<1>2. ASSUME EnoughRoom', Restoring' PROVE OutIsPrefix' /\ Written' = FileSize'
  <2>1. EnoughRoom /\ Restoring
    BY <1>1, <1>2 DEF EnoughRoom, Restoring, FileSize
  <2>2. PICK a \in Nat : \E marks : Decodes(a, marks)
    BY <1>1, <2>1 DEF DecodedInv
  <2>3. PICK marks : Decodes(a, marks)
    BY <2>2
  <2>4. Reading(bf)
    BY <1>1, <2>3, NextToken
  <2>5. ~ (g + 1 <= z)
    BY <1>1, <2>4, GetBitGets DEF Gets
  <2>6. ASSUME NEW new \in Marks, Token(BitsOfFile(bf), data, m, new), new[1] <= z
        PROVE  FALSE
    <3>. DEFINE d == ByteBits
                o == OFFSET_BITS
                l == LENGTH_BITS
    <3>1. new[1] = g + (1 + d) \/ new[1] = g + (1 + o + l)
      BY <2>6 DEF Token, PlainNext, StringNext
    <3>2. g \in Nat /\ z \in Nat /\ d \in Nat /\ o \in Nat /\ l \in Nat
      BY <2>4, GetSizes, ByteRange, WindowSizes
    <3>. HIDE DEF g, z, d, o, l
    <3>. QED
      BY <2>5, <2>6, <3>1, <3>2
  <2>7. Written = FileSize
    BY <1>1, <2>3, <2>6, NextToken
  <2>. QED
    BY <1>1, <2>1, <2>7 DEF DecodedInv, OutIsPrefix, Written, FileSize
<1>. QED
  BY <1>1, <1>2 DEF DecodedInv

(* The bytes of the string are those of the input.                           *)
LEMMA CopyCharDecodes ==
  ASSUME Inv, DecodedInv, stage = "decode", UNCHANGED <<stage, mode>>, CopyChar
  PROVE  DecodedInv'
<1>. DEFINE w == WINDOW_SIZE
            n == Written
            F == FileSize
            B == Behind
            p == match.offset
            l == match.length
            c == window[Wrap(p + i, w)]
<1>1. /\ UNCHANGED <<data, match, bf, pc>>
      /\ pc = "copy" /\ i < l /\ i' = i + 1 /\ PutOut(c)
  BY DEF CopyChar
<1>2. /\ w \in Nat \ {0} /\ p \in 0 .. w - 1 /\ l \in 0 .. MAX_CODED /\ MAX_CODED \in Nat
      /\ MAX_CODED <= w /\ i \in Nat /\ n \in Nat /\ F \in Nat
      /\ window \in [0 .. w - 1 -> Byte]
  BY WindowSizes, DecoderTexts DEF Inv, TypeInv, Indices
<1>3. i <= n /\ window = History(out, B) /\ B = n - i
  BY <1>1 DEF Inv, DecoderInv, Behind
<1>4. c \in Byte
  <2>. HIDE DEF w, p, l
  <2>1. Wrap(p + i, w) \in 0 .. w - 1
    BY <1>1, <1>2 DEF Wrap
  <2>. QED
    BY <1>2, <2>1
<1>5. l \in Nat /\ B \in Nat /\ B + i = n /\ i \in 0 .. l - 1 /\ B <= n
  <2>. HIDE DEF w, n, p, l, B
  <2>. QED
    BY <1>1, <1>2, <1>3
<1>6. ASSUME EnoughRoom', Restoring'
      PROVE  OutIsPrefix' /\ \E a \in Nat : \E marks : Decodes(a, marks)'
  <2>1. EnoughRoom /\ Restoring
    BY <1>1, <1>6 DEF EnoughRoom, Restoring, FileSize
  <2>2. PICK a \in Nat : \E marks : Decodes(a, marks)
    BY <1>1, <2>1 DEF DecodedInv
  <2>3. PICK marks : Decodes(a, marks)
    BY <2>2
  <2>4. OutIsPrefix
    BY <2>1 DEF DecodedInv
  <2>5. /\ <<GetPos(bf), B + l>> \in marks
        /\ \A j \in 0 .. l - 1 : History(data, B)[Wrap(p + j, w)] = data[B + j]
    BY <1>1, <2>3 DEF Decodes
  <2>6. window = History(data, B)
    <3>1. \A x \in 0 .. B - 1 : out[x] = data[x]
      <4>1. \A x \in 0 .. n - 1 : out[x] = data[x]
        BY <2>4 DEF OutIsPrefix
      <4>. HIDE DEF n, B
      <4>. QED
        BY <1>2, <1>5, <4>1
    <3>. HIDE DEF B
    <3>. QED
      BY <1>3, <1>5, <3>1, HistoryPrefix
  <2>7. c = data[n]
    <3>. HIDE DEF w, n, B, p, l
    <3>. QED
      BY <1>5, <2>5, <2>6
  <2>8. n < F
    <3>. DEFINE new == <<GetPos(bf), B + l>>
                end == <<a, F>>
    <3>1. Tiling(BitsOfFile(bf), data, marks, end)
      BY <2>3 DEF Decodes
    <3>2. new[2] = B + l /\ end[2] = F
      OBVIOUS
    <3>3. new \in marks
      BY <2>5
    <3>. HIDE DEF new, end
    <3>4. new[2] <= end[2]
      BY <3>1, <3>3 DEF Tiling
    <3>. HIDE DEF n, F, B, l
    <3>. QED
      BY <1>2, <1>5, <3>2, <3>4
  <2>. HIDE DEF c
  <2>9. OutIsPrefix'
    BY <1>1, <1>4, <2>4, <2>7, <2>8, PutOutPrefix
  <2>10. Written' = n + 1 /\ FileSize' = F
    BY <1>1, <1>4, PutOutStep DEF FileSize
  <2>11. Behind' = B
    <3>1. Behind' = Written' - i'
      BY DEF Behind
    <3>. HIDE DEF n, B
    <3>. QED
      BY <1>1, <1>2, <1>5, <2>10, <3>1
  <2>12. Decodes(a, marks)'
    <3>1. /\ Tiling(BitsOfFile(bf), data, marks, <<a, F>>)
          /\ a <= BitsInFile(bf) /\ BitsInFile(bf) < a + ByteBits
          /\ Reading(bf)
      BY <1>1, <2>3 DEF Decodes
    <3>2. BitsOfFile(bf') = BitsOfFile(bf) /\ BitsInFile(bf') = BitsInFile(bf)
      BY <1>1
    <3>3. \A j \in 0 .. match'.length - 1 :
            History(data, Behind)'[Wrap(match'.offset + j, WINDOW_SIZE)] = data'[Behind' + j]
      BY <1>1, <2>5, <2>11 DEF History
    <3>. HIDE DEF F, B
    <3>. QED
      BY <1>1, <2>5, <2>10, <2>11, <3>1, <3>2, <3>3 DEF Decodes
  <2>. QED
    BY <2>9, <2>12
<1>. QED
  BY <1>1, <1>6 DEF DecodedInv

(* Then the decoder is at the next mark.                                     *)
LEMMA StoreStringDecodes ==
  ASSUME Inv, DecodedInv, stage = "decode", UNCHANGED <<stage, mode>>, StoreString
  PROVE  DecodedInv'
<1>1. /\ UNCHANGED <<data, match, bf, out, i>>
      /\ pc = "copy" /\ pc' = "flag" /\ i = match.length
  BY DEF StoreString
<1>2. Behind + match.length = Written
  <2>1. Written \in Nat /\ i \in Nat /\ i <= Written
    BY <1>1, DecoderTexts DEF Inv, TypeInv, DecoderInv
  <2>2. Behind = Written - i
    BY DEF Behind
  <2>. QED
    BY <1>1, <2>1, <2>2
<1>3. Written' = Written /\ FileSize' = FileSize
  BY <1>1 DEF Written, FileSize
<1>4. ASSUME EnoughRoom', Restoring'
      PROVE  OutIsPrefix' /\ \E a \in Nat : \E marks : Decodes(a, marks)'
  <2>1. EnoughRoom /\ Restoring
    BY <1>1, <1>4 DEF EnoughRoom, Restoring, FileSize
  <2>2. PICK a \in Nat : \E marks : Decodes(a, marks)
    BY <1>1, <2>1 DEF DecodedInv
  <2>3. PICK marks : Decodes(a, marks)
    BY <2>2
  <2>4. BitsOfFile(bf') = BitsOfFile(bf) /\ BitsInFile(bf') = BitsInFile(bf) /\ GetPos(bf') = GetPos(bf)
    BY <1>1
  <2>5. Decodes(a, marks)'
    BY <1>1, <1>2, <1>3, <2>3, <2>4 DEF Decodes
  <2>6. OutIsPrefix'
    BY <1>1, <1>3, <2>1 DEF DecodedInv, OutIsPrefix
  <2>. QED
    BY <2>5, <2>6
<1>. QED
  BY <1>1, <1>4 DEF DecodedInv

(* The lookahead is filled, and no bytes are encoded yet.                    *)
LEMMA FillLookaheadEncodes ==
  ASSUME Inv, EncodedInv, FillLookahead
  PROVE  EncodedInv' /\ MatchInv'
<1>1. /\ pc = "fill" /\ len' = Min({MAX_CODED, FileSize}) /\ inPos' = len' /\ bf' = bf
      /\ pc' \in {"match", "encoded"}
  BY DEF FillLookahead
<1>2. bf \in Streams /\ bf.file = << >> /\ bf.bitCount = 0
  BY <1>1 DEF EncodedInv, Inv, TypeInv
<1>3. PutSize(bf) = 0
  BY <1>2, ByteRange DEF PutSize, BitsInFile
<1>4. Reached' = 0
  <2>1. MAX_CODED \in Nat /\ FileSize \in Nat
    BY WindowSizes, DecoderTexts
  <2>2. len' \in Nat
    <3>1. Min({MAX_CODED, FileSize}) \in Nat
      BY <2>1, SmallerOf
    <3>. QED
      BY <1>1, <3>1
  <2>3. Consumed' = inPos' - len'
    BY DEF Consumed
  <2>. QED
    BY <1>1, <2>2, <2>3 DEF Reached
<1>5. \A text : Encodes(bf, text, 0)
  <2>1. 0 <= 2 * ByteBits * 0
    BY ByteRange
  <2>2. \A text : Tiling(WrittenBits(bf), text, {<<0, 0>>}, <<0, 0>>)
    BY NoTokens
  <2>. QED
    BY <1>3, <2>1, <2>2 DEF Encodes
<1>6. EncodedInv'
  BY <1>1, <1>4, <1>5 DEF EncodedInv
<1>. QED
  BY <1>1, <1>6 DEF MatchInv

(* The match is one of those that FindMatch may return.                      *)
LEMMA FindMatchEncodes ==
  ASSUME Inv, EncodedInv, FindMatch
  PROVE  EncodedInv' /\ MatchInv'
<1>1. /\ pc = "match" /\ pc' = "token" /\ match' \in Matches
      /\ UNCHANGED <<data, inPos, len, window, lookahead, uncodedHead, bf>>
  BY DEF FindMatch, encoder, buffers
<1>2. Consumed' = Consumed
  BY <1>1 DEF Consumed
<1>3. Reached' = Reached
  BY <1>1, <1>2 DEF Reached
<1>4. EncodedInv'
  BY <1>1, <1>3 DEF EncodedInv, EnoughRoom, FileSize
<1>5. \/ match' = Match(0, 0)
      \/ SameBytes(window, match'.offset, lookahead, uncodedHead, match'.length)
  BY <1>1 DEF Matches
<1>6. MatchInv'
  <2>1. CASE match' = Match(0, 0)
    BY <2>1 DEF MatchInv, Match
  <2>2. CASE SameBytes(window, match'.offset, lookahead, uncodedHead, match'.length)
    BY <1>1, <2>2 DEF MatchInv
  <2>. QED
    BY <1>5, <2>1, <2>2
<1>. QED
  BY <1>4, <1>6

(* The bytes of a token that was put move to the window.                     *)
LEMMA ReplaceEncodes ==
  ASSUME Inv, EncodedInv, ReplaceByNext \/ ReplaceAtEOF
  PROVE  EncodedInv'
<1>1. Shift
  BY DEF ReplaceByNext, ReplaceAtEOF
<1>2. pc = "replace" /\ pc' = "replace" /\ UNCHANGED <<data, bf, match>> /\ i' = i + 1
  BY <1>1 DEF Shift
<1>3. \/ inPos' = inPos + 1 /\ len' = len
      \/ inPos' = inPos /\ len' = len - 1
  <2>1. CASE ReplaceByNext
    BY <2>1 DEF ReplaceByNext
  <2>2. CASE ReplaceAtEOF
    BY <2>2 DEF ReplaceAtEOF, LenAtEOF
  <2>. QED
    BY <2>1, <2>2
<1>4. inPos \in Int /\ len \in Int /\ i \in Int /\ match.length \in Int
  BY <1>2, WindowSizes DEF Inv, TypeInv
<1>5. Reached' = Reached
  <2>. DEFINE h == match.length
  <2>1. Reached = (inPos - len) + (h - i) /\ Reached' = (inPos' - len') + (h - i')
    BY <1>2 DEF Reached, Consumed
  <2>. HIDE DEF h
  <2>2. h \in Int
    BY <1>4 DEF h
  <2>. QED
    BY <1>2, <1>3, <1>4, <2>1, <2>2
<1>. QED
  BY <1>2, <1>5 DEF EncodedInv, EnoughRoom, FileSize

(* All of them have moved.                                                   *)
LEMMA EndOfReplacingEncodes ==
  ASSUME Inv, EncodedInv, EndOfReplacing
  PROVE  EncodedInv'
<1>1. /\ pc = "replace" /\ pc' = "match" /\ i = match.length
      /\ UNCHANGED <<data, bf, inPos, len>>
  BY DEF EndOfReplacing, encoder
<1>2. Reached' = Reached
  <2>. DEFINE C == Consumed
  <2>1. i \in Nat /\ C \in Nat
    BY <1>1, EncoderPlace DEF Inv, TypeInv
  <2>2. Reached = C + (i - i) /\ Reached' = Consumed' /\ Consumed' = C
    BY <1>1 DEF Reached, Consumed
  <2>. HIDE DEF C
  <2>. QED
    BY <2>1, <2>2
<1>. QED
  BY <1>1, <1>2 DEF EncodedInv, EnoughRoom, FileSize

(* The last byte is filled up, and the file stands for the whole input.      *)
LEMMA EndOfEncodingDecodes ==
  ASSUME Inv, EncodedInv, EndOfEncoding
  PROVE  DecodedInv'
<1>1. /\ pc = "token" /\ len = 0 /\ pc' = "encoded" /\ bf' = FlushOutput(0, bf)
      /\ UNCHANGED <<data, out>> /\ out = << >>
  BY DEF EndOfEncoding, Inv, FreshInv
<1>. DEFINE F == FileSize
            a == PutSize(bf)
            file == bf'.file
            d == ByteBits
<1>2. F \in Nat /\ bf \in Streams /\ Consumed = F
  BY <1>1, EncoderPlace
<1>3. FileSize' = F /\ Written' = 0
  BY <1>1, NoText DEF FileSize, Written
<1>4. ASSUME EnoughRoom' PROVE OutIsPrefix' /\ \E n \in Nat : \E marks : Decodes(n, marks)'
  <2>1. bf.room >= 2 * F
    <3>1. bf'.room = bf.room
      BY <1>1, <1>2, BitRoomKept
    <3>. QED
      BY <1>3, <1>4, <3>1 DEF EnoughRoom
  <2>2. Encodes(bf, data, F)
    BY <1>1, <1>2, <2>1 DEF EncodedInv, Reached, EnoughRoom
  <2>3. a <= 2 * d * F
    BY <2>2 DEF Encodes
  <2>4. HasRoom(bf, 0)
    <3>1. 0 <= 2 * d * 0 /\ F + 0 <= F /\ 0 \in Nat
      BY <1>2, ByteRange
    <3>. HIDE DEF F, a
    <3>. QED
      BY <1>2, <2>1, <2>3, <3>1, TokenFits DEF a
  <2>5. /\ a \in Nat /\ a <= BitsInFile(bf') /\ BitsInFile(bf') < a + d
        /\ \A n \in 0 .. a - 1 : FileBit(file, n) = PutBitAt(bf, n)
        /\ BitsInFile(bf') \in Nat
    BY <1>1, <1>2, <2>4, FlushedFile, PutSizes DEF BitsInFile
  <2>6. \A x \in 0 .. a - 1 : WrittenBits(bf)[x] = BitsOfFile(bf')[x]
    <3>. DEFINE z == BitsInFile(bf')
    <3>1. \A x \in 0 .. a - 1 : WrittenBits(bf)[x] = PutBitAt(bf, x)
      BY DEF WrittenBits
    <3>2. \A x \in 0 .. z - 1 : BitsOfFile(bf')[x] = FileBit(file, x)
      BY DEF BitsOfFile
    <3>. HIDE DEF a, z, file
    <3>3. \A x \in 0 .. a - 1 : x \in 0 .. z - 1
      BY <2>5 DEF z
    <3>. QED
      BY <2>5, <3>1, <3>2, <3>3
  <2>7. PICK marks : Tiling(WrittenBits(bf), data, marks, <<a, F>>)
    BY <2>2 DEF Encodes
  <2>8. Tiling(BitsOfFile(bf'), data, marks, <<a, F>>)
    <3>. DEFINE end == <<a, F>>
    <3>1. end[1] = a /\ Tiling(WrittenBits(bf), data, marks, end)
      BY <2>7
    <3>. HIDE DEF end, a
    <3>2. Tiling(BitsOfFile(bf'), data, marks, end)
      BY <2>6, <3>1, TilingBits
    <3>. QED
      BY <3>2 DEF end
  <2>. HIDE DEF a, F
  <2>9. \E n \in Nat : Decodes(n, marks)'
    <3>1. PICK n \in Nat : n = a
      BY <2>5
    <3>. HIDE DEF d
    <3>2. Decodes(n, marks)'
      BY <1>1, <1>3, <2>5, <2>8, <3>1 DEF Decodes, d
    <3>. QED
      BY <3>2
  <2>10. OutIsPrefix'
    BY <1>2, <1>3 DEF OutIsPrefix
  <2>. QED
    BY <2>9, <2>10
<1>. QED
  BY <1>1, <1>4 DEF DecodedInv

(* An empty input is encoded at once.                                        *)
LEMMA FillLookaheadDecodes ==
  ASSUME Inv, EncodedInv, FillLookahead, stage = "encode", UNCHANGED stage
  PROVE  DecodedInv'
<1>1. /\ pc = "fill" /\ bf' = bf /\ UNCHANGED <<data, out>> /\ out = << >>
      /\ len' = Min({MAX_CODED, FileSize})
      /\ (pc' = "encoded" /\ len' = 0) \/ pc' = "match"
  BY DEF FillLookahead, Inv, FreshInv
<1>2. CASE pc' = "match"
  BY <1>2 DEF DecodedInv, Restoring
<1>3. CASE pc' = "encoded" /\ len' = 0
  <2>1. FileSize = 0
    <3>1. MAX_CODED \in Nat \ {0} /\ FileSize \in Nat
      BY WindowSizes, DecoderTexts
    <3>2. Min({MAX_CODED, FileSize}) = IF MAX_CODED <= FileSize THEN MAX_CODED ELSE FileSize
      BY <3>1, SmallerOf
    <3>. QED
      BY <1>1, <1>3, <3>1, <3>2
  <2>2. FileSize' = 0 /\ Written' = 0
    BY <1>1, <2>1, NoText DEF FileSize, Written
  <2>3. BitsInFile(bf') = 0 /\ ByteBits \in Nat \ {0}
    BY <1>1, ByteRange DEF EncodedInv, BitsInFile
  <2>4. Tiling(BitsOfFile(bf'), data', {<<0, 0>>}, <<0, 0>>)
    BY NoTokens
  <2>5. Decodes(0, {<<0, 0>>})'
    BY <1>3, <2>2, <2>3, <2>4 DEF Decodes
  <2>6. OutIsPrefix'
    BY <2>2 DEF OutIsPrefix
  <2>7. 0 \in Nat
    OBVIOUS
  <2>8. pc' # "done" /\ \E a \in Nat : \E marks : Decodes(a, marks)'
    BY <1>3, <2>5, <2>7
  <2>. QED
    BY <2>6, <2>8 DEF DecodedInv
<1>. QED
  BY <1>1, <1>2, <1>3

-------------------------------------------------------------------------------
(* The files of the test mode. *)

(* The input of the test mode is the file that it was read from, as long as  *)
(* it is not one of the two that are written.                                *)
InputInv ==
  /\ mode = "TEST" /\ inName \notin {Compressed, Decompressed}
  /\ stage \in {"encode", "decode"} \/ (stage = "exit" /\ pc = "done")
  => inName \in DOMAIN disk /\ disk[inName] = Bytes(data)

(* The output of the test mode is what was decoded.                          *)
RestoredInv ==
  EnoughRoom /\ stage = "exit" /\ mode = "TEST" /\ pc = "done" =>
    disk[Decompressed] = Bytes(data)

LosslessInv == Inv /\ EncodedInv /\ MatchInv /\ DecodedInv /\ InputInv /\ RestoredInv

(* A file is read as it is.                                                  *)
LEMMA BytesOfText ==
  ASSUME NEW b \in Seq(Byte)
  PROVE  Bytes(Text(b)) = b
<1>. DEFINE n == Len(b)
            t == [x \in 0 .. n - 1 |-> b[x + 1]]
<1>1. n \in Nat /\ t \in [0 .. n - 1 -> Byte]
  <2>1. n \in Nat /\ \A x \in 0 .. n - 1 : x + 1 \in 1 .. n
    OBVIOUS
  <2>. QED
    BY <2>1
<1>2. Cardinality(DOMAIN t) = n
  <2>. HIDE DEF t, n
  <2>. QED
    BY <1>1, TextOfSize
<1>3. Bytes(t) = [x \in 1 .. n |-> t[x - 1]]
  <2>. HIDE DEF t
  <2>. QED
    BY <1>2 DEF Bytes
<1>4. \A x \in 1 .. n : t[x - 1] = b[x]
  <2>1. \A x \in 1 .. n : x - 1 \in 0 .. n - 1 /\ (x - 1) + 1 = x
    BY <1>1
  <2>. QED
    BY <2>1
<1>5. [x \in 1 .. n |-> t[x - 1]] = [x \in 1 .. n |-> b[x]]
  BY <1>4
<1>6. b = [x \in 1 .. n |-> b[x]]
  OBVIOUS
<1>. QED
  BY <1>3, <1>5, <1>6 DEF Text

(* The output files have a name.                                             *)
LEMMA OutputNames ==
  /\ Compressed # NoName /\ Decompressed # NoName /\ Compressed # Decompressed
BY DEF Compressed, Decompressed, NoName

(* Writing one file leaves the other ones as they are.                       *)
LEMMA StoredFiles ==
  ASSUME NEW name, name # NoName, NEW bytes
  PROVE  /\ Stored(name, bytes)[name] = bytes
         /\ \A n \in DOMAIN disk : n \in DOMAIN Stored(name, bytes)
         /\ \A n \in DOMAIN disk : n # name => Stored(name, bytes)[n] = disk[n]
BY DEF Stored

(* Two texts of the same size with the same bytes.                           *)
LEMMA SameTexts ==
  ASSUME Inv, OutIsPrefix, Written = FileSize
  PROVE  out = data
<1>. DEFINE n == FileSize
<1>1. data \in [0 .. n - 1 -> Byte] /\ out \in [0 .. n - 1 -> Byte]
  BY DEF Inv, TypeInv, IsText, FileSize, Written
<1>2. \A x \in 0 .. n - 1 : out[x] = data[x]
  BY DEF OutIsPrefix
<1>. HIDE DEF n
<1>3. /\ out = [x \in 0 .. n - 1 |-> out[x]] /\ data = [x \in 0 .. n - 1 |-> data[x]]
  BY <1>1
<1>4. [x \in 0 .. n - 1 |-> out[x]] = [x \in 0 .. n - 1 |-> data[x]]
  BY <1>2
<1>. QED
  BY <1>3, <1>4

(* The first process has not done anything.                                  *)
LEMMA LosslessInit ==
  ASSUME ProgramInit
  PROVE  LosslessInv
<1>1. /\ stage = "exit" /\ pc = "fill"
      /\ bf.file = << >> /\ bf.bitCount = 0
  BY DEF ProgramInit, Init, MakeBitFile
<1>2. EncodedInv /\ MatchInv
  BY <1>1 DEF EncodedInv, MatchInv
<1>3. DecodedInv /\ InputInv /\ RestoredInv
  BY <1>1 DEF DecodedInv, Restoring, InputInv, RestoredInv
<1>. QED
  BY <1>2, <1>3, InvInit DEF LosslessInv

(* Before the files are open the codec is as it was at first.                *)
LEMMA FreshStep ==
  ASSUME LosslessInv, Inv', pc' = "fill", bf'.file = << >>, bf'.bitCount = 0,
         stage' \in {"parse", "options", "exit", "crashed"}
  PROVE  LosslessInv'
<1>1. (EncodedInv /\ MatchInv)'
  BY DEF EncodedInv, MatchInv
<1>2. (DecodedInv /\ InputInv /\ RestoredInv)'
  BY DEF DecodedInv, Restoring, InputInv, RestoredInv
<1>. QED
  BY <1>1, <1>2 DEF LosslessInv

(* The bytes of the input are what the file had when it was opened.          *)
LEMMA OpenLossless ==
  ASSUME LosslessInv, Inv', OpenForEncoder
  PROVE  LosslessInv'
<1>. USE DEF OpenForEncoder
<1>1. /\ stage = "options" /\ stage' = "encode" /\ UNCHANGED <<pc, bf, mode, inName>>
      /\ InputOpens /\ disk' = Stored(EncoderFile, << >>) /\ data' = Text(disk'[inName])
  BY DEF OptionsDone, codec, settings
<1>2. pc = "fill" /\ Inv
  BY <1>1 DEF LosslessInv, Inv, FreshInv
<1>3. (EncodedInv /\ MatchInv)'
  BY <1>1, <1>2 DEF LosslessInv, EncodedInv, MatchInv
<1>4. (DecodedInv /\ RestoredInv)'
  BY <1>1, <1>2 DEF DecodedInv, Restoring, RestoredInv
<1>5. InputInv'
  <2>1. SUFFICES ASSUME mode = "TEST", inName \notin {Compressed, Decompressed}
                 PROVE  inName \in DOMAIN disk' /\ disk'[inName] = Bytes(data')
    BY <1>1 DEF InputInv
  <2>2. inName \in DOMAIN disk /\ inName # Compressed
    BY <1>1, <2>1 DEF InputOpens
  <2>3. disk' = Stored(Compressed, << >>)
    BY <1>1, <2>1 DEF EncoderFile
  <2>4. inName \in DOMAIN disk'
    BY <2>2, <2>3, OutputNames, StoredFiles
  <2>5. disk'[inName] \in Seq(Byte)
    BY <2>4 DEF Inv, TypeInv
  <2>. QED
    BY <1>1, <2>4, <2>5, BytesOfText
<1>. QED
  BY <1>3, <1>4, <1>5 DEF LosslessInv

(* The encoder.                                                              *)
LEMMA RunEncoderLossless ==
  ASSUME LosslessInv, Inv', RunEncoder
  PROVE  LosslessInv'
<1>. USE DEF LosslessInv
<1>1. /\ stage = "encode" /\ UNCHANGED <<stage, mode, inName, disk>> /\ Encode
  BY DEF RunEncoder, program, settings
<1>2. UNCHANGED data
  BY <1>1 DEF Encode, FillLookahead, FindMatch, PutUncoded, PutEncoded, PutToken,
              ReplaceByNext, ReplaceAtEOF, Shift, EndOfReplacing, EndOfEncoding
<1>3. InputInv' /\ RestoredInv'
  BY <1>1, <1>2 DEF InputInv, RestoredInv
<1>4. CASE FillLookahead
  BY <1>1, <1>3, <1>4, FillLookaheadEncodes, FillLookaheadDecodes
<1>5. CASE EndOfEncoding
  <2>1. pc' = "encoded"
    BY <1>5 DEF EndOfEncoding
  <2>2. EncodedInv' /\ MatchInv'
    BY <2>1 DEF EncodedInv, MatchInv
  <2>. QED
    BY <1>3, <1>5, <2>2, EndOfEncodingDecodes
<1>6. ASSUME pc' \in {"match", "token", "replace"}
      PROVE  DecodedInv'
  BY <1>1, <1>6 DEF DecodedInv, Restoring
<1>7. CASE FindMatch
  <2>1. pc' = "token"
    BY <1>7 DEF FindMatch
  <2>. QED
    BY <1>3, <1>6, <1>7, <2>1, FindMatchEncodes
<1>8. CASE PutUncoded \/ PutEncoded
  <2>1. pc' = "replace"
    BY <1>8 DEF PutUncoded, PutEncoded, PutToken
  <2>2. MatchInv'
    BY <2>1 DEF MatchInv
  <2>. QED
    BY <1>3, <1>6, <1>8, <2>1, <2>2, PutUncodedEncodes, PutEncodedEncodes
<1>9. CASE ReplaceByNext \/ ReplaceAtEOF
  <2>1. pc' = "replace"
    BY <1>9 DEF ReplaceByNext, ReplaceAtEOF, Shift
  <2>2. MatchInv'
    BY <2>1 DEF MatchInv
  <2>. QED
    BY <1>3, <1>6, <1>9, <2>1, <2>2, ReplaceEncodes
<1>10. CASE EndOfReplacing
  <2>1. pc' = "match"
    BY <1>10 DEF EndOfReplacing
  <2>2. MatchInv'
    BY <2>1 DEF MatchInv
  <2>. QED
    BY <1>3, <1>6, <1>10, <2>1, <2>2, EndOfReplacingEncodes
<1>. QED
  BY <1>1, <1>4, <1>5, <1>7, <1>8, <1>9, <1>10 DEF Encode

(* The decoder.                                                              *)
LEMMA RunDecoderLossless ==
  ASSUME LosslessInv, Inv', RunDecoder
  PROVE  LosslessInv'
<1>. USE DEF LosslessInv
<1>1. /\ stage = "decode" /\ UNCHANGED <<stage, mode, inName, disk>> /\ Decode
  BY DEF RunDecoder, program, settings
<1>2. UNCHANGED data /\ pc' \in {"flag", "copy", "done"}
  BY <1>1 DEF Decode, StartDecoding, GetUncoded, GetEncoded, CopyChar, StoreString,
              EndOfDecoding
<1>3. InputInv' /\ RestoredInv'
  BY <1>1, <1>2 DEF InputInv, RestoredInv
<1>4. EncodedInv' /\ MatchInv'
  BY <1>2 DEF EncodedInv, MatchInv
<1>5. DecodedInv'
  BY <1>1, StartDecodingDecodes, GetUncodedDecodes, GetEncodedDecodes, CopyCharDecodes,
     StoreStringDecodes, EndOfDecodingDecodes DEF Decode
<1>. QED
  BY <1>3, <1>4, <1>5

(* The encoded file is closed and, in the test mode, opened again.           *)
LEMMA CloseEncodedLossless ==
  ASSUME LosslessInv, Inv', CloseEncoded
  PROVE  LosslessInv'
<1>. USE DEF LosslessInv, CloseEncoded
<1>1. /\ stage = "encode" /\ pc = "encoded" /\ UNCHANGED <<mode, inName>> /\ UNCHANGED vars
  BY DEF settings
<1>2. UNCHANGED <<data, pc, bf, inPos, len, out, match, i>>
  BY <1>1 DEF vars, encoder
<1>3. EncodedInv' /\ MatchInv'
  BY <1>1, <1>2 DEF EncodedInv, MatchInv
<1>4. CASE mode = "TEST"
  <2>1. /\ stage' = "decode"
        /\ disk' = [n \in DOMAIN disk \cup {Decompressed} |->
                      CASE n = Compressed   -> bf.file
                        [] n = Decompressed -> << >>
                        [] OTHER            -> disk[n]]
    BY <1>4
  <2>2. InputInv'
    BY <1>1, <1>2, <1>4, <2>1 DEF InputInv
  <2>3. RestoredInv'
    BY <2>1 DEF RestoredInv
  <2>4. DecodedInv'
    <3>1. FileSize' = FileSize /\ Written' = Written
      BY <1>2 DEF FileSize, Written
    <3>2. SUFFICES ASSUME EnoughRoom', Restoring'
                   PROVE  OutIsPrefix' /\ \E a \in Nat : \E marks : Decodes(a, marks)'
      BY <1>1, <1>2 DEF DecodedInv
    <3>3. EnoughRoom /\ Restoring
      BY <1>1, <1>2, <3>1, <3>2 DEF EnoughRoom, Restoring
    <3>4. OutIsPrefix'
      BY <1>2, <3>1, <3>3 DEF DecodedInv, OutIsPrefix
    <3>5. PICK a \in Nat : \E marks : Decodes(a, marks)
      BY <1>1, <3>3 DEF DecodedInv
    <3>6. PICK marks : Decodes(a, marks)
      BY <3>5
    <3>7. BitsOfFile(bf') = BitsOfFile(bf) /\ BitsInFile(bf') = BitsInFile(bf)
      BY <1>2
    <3>8. Decodes(a, marks)'
      BY <1>1, <1>2, <3>1, <3>6, <3>7 DEF Decodes
    <3>. QED
      BY <3>4, <3>8
  <2>. QED
    BY <1>3, <2>2, <2>3, <2>4
<1>5. CASE mode # "TEST"
  <2>1. stage' = "exit" /\ mode' # "TEST"
    BY <1>1, <1>5
  <2>2. (DecodedInv /\ InputInv /\ RestoredInv)'
    BY <2>1 DEF DecodedInv, Restoring, InputInv, RestoredInv
  <2>. QED
    BY <1>3, <2>2
<1>. QED
  BY <1>4, <1>5

(* The decoded file is stored.                                               *)
LEMMA CloseDecodedLossless ==
  ASSUME LosslessInv, Inv', CloseDecoded
  PROVE  LosslessInv'
<1>. USE DEF LosslessInv, CloseDecoded
<1>1. /\ stage = "decode" /\ pc = "done" /\ stage' = "exit" /\ UNCHANGED <<mode, inName>>
      /\ UNCHANGED vars /\ disk' = Stored(DecoderFile, Bytes(out))
  BY DEF settings
<1>2. UNCHANGED <<data, pc, bf, out>>
  BY <1>1 DEF vars
<1>3. EncodedInv' /\ MatchInv' /\ DecodedInv'
  BY <1>1, <1>2 DEF EncodedInv, MatchInv, DecodedInv, Restoring
<1>4. mode = "TEST" => disk' = Stored(Decompressed, Bytes(out))
  BY <1>1 DEF DecoderFile
<1>5. InputInv'
  <2>1. SUFFICES ASSUME mode = "TEST", inName \notin {Compressed, Decompressed}
                 PROVE  inName \in DOMAIN disk' /\ disk'[inName] = Bytes(data)
    BY <1>1, <1>2 DEF InputInv
  <2>2. inName \in DOMAIN disk /\ disk[inName] = Bytes(data)
    BY <1>1, <2>1 DEF InputInv
  <2>. QED
    BY <1>4, <2>1, <2>2, OutputNames, StoredFiles
<1>6. RestoredInv'
  <2>1. SUFFICES ASSUME EnoughRoom, mode = "TEST"
                 PROVE  disk'[Decompressed] = Bytes(data)
    BY <1>1, <1>2 DEF RestoredInv, EnoughRoom, FileSize
  <2>2. OutIsPrefix /\ Written = FileSize
    BY <1>1, <2>1 DEF DecodedInv, Restoring
  <2>3. out = data
    BY <2>2, SameTexts
  <2>. QED
    BY <1>4, <2>1, <2>3, OutputNames, StoredFiles
<1>. QED
  BY <1>3, <1>5, <1>6

(* Every step of the program.                                                *)
LEMMA LosslessNext ==
  ASSUME LosslessInv, [ProgramNext]_allVars
  PROVE  LosslessInv'
<1>1. Inv /\ Inv'
  BY InvNext DEF LosslessInv
<1>2. CASE UNCHANGED allVars
  <2>1. UNCHANGED <<data, inPos, len, window, lookahead, uncodedHead, match, i, bf, pc, out,
                    mode, inName, disk, stage>>
    BY <1>2 DEF allVars, vars, encoder, buffers, program, settings
  <2>2. Consumed' = Consumed /\ FileSize' = FileSize /\ Written' = Written
    BY <2>1 DEF Consumed, FileSize, Written
  <2>3. Reached' = Reached /\ Behind' = Behind /\ EnoughRoom' = EnoughRoom
    BY <2>1, <2>2 DEF Reached, Behind, EnoughRoom
  <2>4. EncodedInv' /\ MatchInv'
    BY <2>1, <2>3 DEF LosslessInv, EncodedInv, MatchInv
  <2>5. \A a, marks : Decodes(a, marks) => Decodes(a, marks)'
    <3>1. History(data, Behind)' = History(data, Behind)
      BY <2>1, <2>3 DEF History
    <3>. QED
      BY <2>1, <2>2, <2>3, <3>1 DEF Decodes
  <2>6. DecodedInv'
    <3>1. OutIsPrefix' = OutIsPrefix /\ Restoring' = Restoring
      BY <2>1, <2>2 DEF OutIsPrefix, Restoring
    <3>. QED
      BY <2>1, <2>2, <2>3, <2>5, <3>1 DEF LosslessInv, DecodedInv
  <2>7. InputInv' /\ RestoredInv'
    BY <2>1, <2>3 DEF LosslessInv, InputInv, RestoredInv
  <2>. QED
    BY <1>1, <2>4, <2>6, <2>7 DEF LosslessInv
<1>3. CASE Call
  <2>1. /\ pc' = "fill" /\ stage' = "parse" /\ bf' = MakeBitFile(<< >>, bf.room)
    BY <1>3 DEF Call
  <2>2. bf'.file = << >> /\ bf'.bitCount = 0
    BY <2>1 DEF MakeBitFile
  <2>. QED
    BY <1>1, <2>1, <2>2, FreshStep
<1>4. CASE Parse \/ SetMode \/ SetName \/ NoArgument \/ Help \/ CannotOpen
  <2>1. /\ stage \in {"parse", "options"} /\ stage' \in {"parse", "options", "exit", "crashed"}
        /\ UNCHANGED vars
    BY <1>4 DEF Parse, SetMode, SetName, NoArgument, Help, CannotOpen, Option, OptionsDone
  <2>2. pc = "fill" /\ UNCHANGED <<pc, bf>>
    BY <1>1, <2>1 DEF vars, Inv, FreshInv
  <2>3. bf.file = << >> /\ bf.bitCount = 0
    BY <2>2 DEF LosslessInv, EncodedInv
  <2>. QED
    BY <1>1, <2>1, <2>2, <2>3, FreshStep
<1>5. CASE OpenForEncoder
  BY <1>1, <1>5, OpenLossless
<1>6. CASE OpenForDecoder
  <2>1. pc' = "encoded" /\ stage' = "decode" /\ mode' = "DECODE"
    BY <1>6 DEF OpenForDecoder, settings
  <2>2. (EncodedInv /\ MatchInv /\ DecodedInv /\ InputInv /\ RestoredInv)'
    BY <2>1 DEF EncodedInv, MatchInv, DecodedInv, Restoring, InputInv, RestoredInv
  <2>. QED
    BY <1>1, <2>2 DEF LosslessInv
<1>7. CASE RunEncoder
  BY <1>1, <1>7, RunEncoderLossless
<1>8. CASE CloseEncoded
  BY <1>1, <1>8, CloseEncodedLossless
<1>9. CASE RunDecoder
  BY <1>1, <1>9, RunDecoderLossless
<1>10. CASE CloseDecoded
  BY <1>1, <1>10, CloseDecodedLossless
<1>. QED
  BY <1>2, <1>3, <1>4, <1>5, <1>6, <1>7, <1>8, <1>9, <1>10 DEF ProgramNext

(* README, "lossless": whatever string of the window FindMatch finds, for    *)
(* every input and every size of the window, of the lookahead and of a byte, *)
(* the file that the test mode decodes is the input, if the output had room  *)
(* for two bytes per byte of it.                                             *)
THEOREM TestIsLossless == ProgramSpec => []TestRestoresFile
<1>1. ProgramInit => LosslessInv
  BY LosslessInit
<1>2. LosslessInv /\ [ProgramNext]_allVars => LosslessInv'
  BY LosslessNext
<1>3. LosslessInv => TestRestoresFile
  BY DEF LosslessInv, TestRestoresFile, InputInv, RestoredInv
<1>. QED
  BY <1>1, <1>2, <1>3, PTL DEF ProgramSpec

(* The output grows at its end.                                              *)
LEMMA PutOutCopies ==
  ASSUME Inv, NEW c \in Byte, PutOut(c), UNCHANGED data, OutIsPrefix'
  PROVE  Copier!Next
<1>. DEFINE n == Written
            F == FileSize
<1>1. /\ n \in Nat /\ Written' = n + 1 /\ IsText(out')
      /\ F \in Nat /\ data \in [0 .. F - 1 -> Byte] /\ DOMAIN out = 0 .. n - 1
  BY PutOutStep, DecoderTexts DEF Inv, TypeInv, IsText, Written
<1>2. out' = [x \in 0 .. n |-> IF x < n THEN out[x] ELSE c]
  BY DEF PutOut
<1>3. /\ Written' <= F /\ \A x \in 0 .. Written' - 1 : out'[x] = data[x]
  BY DEF OutIsPrefix, FileSize
<1>. HIDE DEF n, F
<1>4. /\ n \in 0 .. F - 1 /\ n \notin 0 .. n - 1
      /\ (0 .. n - 1) \cup {n} = 0 .. n /\ Written' - 1 = n
  BY <1>1, <1>3
<1>5. out' = [x \in 0 .. n |-> out'[x]]
  BY <1>2
<1>6. [x \in 0 .. n |-> out'[x]] = [x \in 0 .. n |-> data[x]]
  BY <1>3, <1>4
<1>7. out' = [y \in DOMAIN out \cup {n} |-> data[y]]
  BY <1>1, <1>4, <1>5, <1>6
<1>8. Copier!Copy(n)
  BY <1>1, <1>4, <1>7 DEF Copier!Copy
<1>9. n \in DOMAIN data
  BY <1>1, <1>4
<1>. QED
  BY <1>8, <1>9 DEF Copier!Next

(* The steps of the decoder.                                                 *)
LEMMA DecoderCopiesStep ==
  ASSUME LosslessInv, LosslessInv', [ProgramNext]_allVars, stage = "decode", mode = "TEST",
         EnoughRoom, ~ UNCHANGED <<data, out>>
  PROVE  Copier!Next
<1>1. Decode /\ UNCHANGED program
  BY DEF ProgramNext, Call, Ended, Parse, SetMode, SetName, NoArgument, Help, Option,
     OpenForEncoder, OpenForDecoder, CannotOpen, OptionsDone, RunEncoder, CloseEncoded,
     RunDecoder, CloseDecoded, allVars, vars
<1>2. stage' = "decode" /\ mode' = "TEST"
  BY <1>1 DEF program, settings
<1>3. Inv /\ bf \in Streams
  BY DecoderTexts DEF LosslessInv
<1>4. ASSUME NEW c \in Byte, PutOut(c), UNCHANGED data, bf'.room = bf.room
      PROVE  Copier!Next
  <2>1. EnoughRoom' /\ Restoring'
    BY <1>2, <1>4 DEF EnoughRoom, FileSize, Restoring
  <2>2. OutIsPrefix'
    BY <2>1 DEF LosslessInv, DecodedInv
  <2>. QED
    BY <1>3, <1>4, <2>2, PutOutCopies
<1>5. CASE GetUncoded
  <2>. DEFINE flag == GetBit(bf)
              char == GetChar(flag)
  <2>1. bf' = char /\ UNCHANGED data /\ (PutOut(char.val) \/ UNCHANGED out)
    BY <1>5 DEF GetUncoded
  <2>2. flag \in Streams /\ flag.room = bf.room
    BY <1>3, GetBitType, BitRoomKept
  <2>. HIDE DEF flag
  <2>3. char.val \in Byte /\ char.room = bf.room
    BY <2>2, GetCharType, BitRoomKept
  <2>. HIDE DEF char
  <2>. QED
    BY <1>4, <2>1, <2>3
<1>6. CASE CopyChar
  <2>. DEFINE w == WINDOW_SIZE
              p == match.offset
              c == window[Wrap(p + i, w)]
  <2>1. /\ UNCHANGED <<data, bf>> /\ pc = "copy" /\ i < match.length /\ PutOut(c)
    BY <1>6 DEF CopyChar
  <2>2. c \in Byte
    <3>. DEFINE l == match.length
    <3>1. /\ w \in Nat \ {0} /\ p \in 0 .. w - 1 /\ l \in 0 .. MAX_CODED /\ MAX_CODED \in Nat
          /\ MAX_CODED <= w /\ i \in Nat /\ i < l /\ window \in [0 .. w - 1 -> Byte]
      BY <1>3, <2>1, WindowSizes DEF Inv, TypeInv, Indices
    <3>. HIDE DEF w, p, l
    <3>2. Wrap(p + i, w) \in 0 .. w - 1
      BY <3>1 DEF Wrap
    <3>. QED
      BY <3>1, <3>2
  <2>. HIDE DEF c
  <2>. QED
    BY <1>4, <2>1, <2>2
<1>7. StartDecoding \/ GetEncoded \/ StoreString \/ EndOfDecoding => UNCHANGED <<data, out>>
  BY DEF StartDecoding, GetEncoded, StoreString, EndOfDecoding
<1>. QED
  BY <1>1, <1>5, <1>6, <1>7 DEF Decode

(* With enough room each step of the decoder in the test mode that changes   *)
(* the output is a step of Lossless: it adds the byte that the input has at  *)
(* this position, and nothing else is ever put out.                          *)
THEOREM DecoderCopies ==
  ProgramSpec => [][stage = "decode" /\ mode = "TEST" /\ EnoughRoom => Copier!Next]_<<data, out>>
<1>1. ProgramInit => LosslessInv
  BY LosslessInit
<1>2. LosslessInv /\ [ProgramNext]_allVars => LosslessInv'
  BY LosslessNext
<1>3. LosslessInv /\ LosslessInv' /\ [ProgramNext]_allVars =>
        [stage = "decode" /\ mode = "TEST" /\ EnoughRoom => Copier!Next]_<<data, out>>
  BY DecoderCopiesStep
<1>. QED
  BY <1>1, <1>2, <1>3, PTL DEF ProgramSpec

-------------------------------------------------------------------------------
(* The command line. *)

CommandLine == Seq(Seq(STRING))

(* A function may be defined by recursion over the words.                    *)
LEMMA RecursionOverWords ==
  ASSUME NEW k \in Nat, NEW A
  PROVE  \E h : h = [n \in 1 .. k |-> n > 1 /\ ~ h[n - 1] /\ A[n - 1]]
<1>. DEFINE Is(h, m) == h = [n \in 1 .. m |-> n > 1 /\ ~ h[n - 1] /\ A[n - 1]]
            T == {m \in Nat : \E h : Is(h, m)}
<1>1. 0 \in T
  <2>. DEFINE h == [n \in 1 .. 0 |-> FALSE]
  <2>1. h = [n \in 1 .. 0 |-> n > 1 /\ ~ h[n - 1] /\ A[n - 1]]
    <3>1. 1 .. 0 = {}
      OBVIOUS
    <3>. QED
      BY <3>1
  <2>. QED
    BY <2>1
<1>2. ASSUME NEW m \in Nat, m \in T PROVE m + 1 \in T
  <2>1. PICK h : Is(h, m)
    BY <1>2
  <2>. DEFINE g == [n \in 1 .. m + 1 |-> IF n \in 1 .. m THEN h[n]
                                         ELSE n > 1 /\ ~ h[n - 1] /\ A[n - 1]]
  <2>2. ASSUME NEW n \in 1 .. m PROVE g[n] = (n > 1 /\ ~ g[n - 1] /\ A[n - 1])
    <3>1. n \in 1 .. m + 1 /\ (n > 1 => n - 1 \in 1 .. m /\ n - 1 \in 1 .. m + 1)
      BY <2>2
    <3>2. g[n] = h[n]
      BY <3>1
    <3>3. n > 1 => g[n - 1] = h[n - 1]
      BY <3>1
    <3>4. h[n] = (n > 1 /\ ~ h[n - 1] /\ A[n - 1])
      BY <2>1
    <3>. HIDE DEF g
    <3>. QED
      BY <3>2, <3>3, <3>4
  <2>3. g[m + 1] = (m + 1 > 1 /\ ~ g[m] /\ A[m])
    <3>1. m + 1 \in 1 .. m + 1 /\ m + 1 \notin 1 .. m /\ (m + 1) - 1 = m
      OBVIOUS
    <3>2. m + 1 > 1 => m \in 1 .. m /\ m \in 1 .. m + 1
      OBVIOUS
    <3>3. m + 1 > 1 => g[m] = h[m]
      BY <3>2
    <3>4. g[m + 1] = (m + 1 > 1 /\ ~ h[m] /\ A[m])
      BY <3>1
    <3>. HIDE DEF g
    <3>. QED
      BY <3>3, <3>4
  <2>4. \A n \in 1 .. m + 1 : g[n] = (n > 1 /\ ~ g[n - 1] /\ A[n - 1])
    <3>1. \A n \in 1 .. m + 1 : n \in 1 .. m \/ n = m + 1
      OBVIOUS
    <3>2. (m + 1) - 1 = m
      OBVIOUS
    <3>. HIDE DEF g
    <3>. QED
      BY <2>2, <2>3, <3>1, <3>2
  <2>5. g = [n \in 1 .. m + 1 |-> g[n]]
    OBVIOUS
  <2>. HIDE DEF g
  <2>6. g = [n \in 1 .. m + 1 |-> n > 1 /\ ~ g[n - 1] /\ A[n - 1]]
    BY <2>4, <2>5
  <2>. QED
    BY <2>6
<1>. HIDE DEF T
<1>3. k \in T
  BY <1>1, <1>2, AllNumbers
<1>. QED
  BY <1>3 DEF T

(* A word is an argument if the word before it is none and asks for one.     *)
LEMMA ArgumentRule ==
  ASSUME args \in CommandLine
  PROVE  \A n \in 1 .. Len(args) :
           Options!IsArgument[n] <=>
             n > 1 /\ ~ Options!IsArgument[n - 1] /\ Options!Asks(args[n - 1])
<1>. DEFINE A == [n \in 1 .. Len(args) |-> Options!Asks(args[n])]
            Is(h) == h = [n \in DOMAIN args |->
                            n > 1 /\ ~ h[n - 1] /\ Options!Asks(args[n - 1])]
            arg == CHOOSE h : Is(h)
<1>1. Len(args) \in Nat /\ DOMAIN args = 1 .. Len(args)
  BY DEF CommandLine
<1>2. PICK h : h = [n \in 1 .. Len(args) |-> n > 1 /\ ~ h[n - 1] /\ A[n - 1]]
  BY <1>1, RecursionOverWords
<1>3. \A n \in 1 .. Len(args) : n > 1 => A[n - 1] = Options!Asks(args[n - 1])
  <2>1. \A n \in 1 .. Len(args) : n > 1 => n - 1 \in 1 .. Len(args)
    BY <1>1
  <2>. QED
    BY <2>1
<1>. HIDE DEF A
<1>4. [n \in 1 .. Len(args) |-> n > 1 /\ ~ h[n - 1] /\ A[n - 1]]
        = [n \in DOMAIN args |-> n > 1 /\ ~ h[n - 1] /\ Options!Asks(args[n - 1])]
  BY <1>1, <1>3
<1>5. Is(h)
  BY <1>2, <1>4
<1>. HIDE DEF Is
<1>6. Is(arg)
  BY <1>5
<1>7. Options!IsArgument = arg
  BY DEF Options!IsArgument, Is
<1>. HIDE DEF arg
<1>. QED
  BY <1>1, <1>6, <1>7 DEF Is

(* The options among the first k characters of a word.                       *)
Read(w, k) == {w[y] : y \in {x \in 2 .. k : w[x] \in Known}}

(* One character more.                                                       *)
LEMMA ReadNext ==
  ASSUME NEW w, NEW k \in Nat \ {0}
  PROVE  Read(w, k + 1) = IF w[k + 1] \in Known THEN Read(w, k) \cup {w[k + 1]} ELSE Read(w, k)
<1>1. /\ 2 .. k + 1 = (2 .. k) \cup {k + 1}
      /\ k + 1 \notin 2 .. k
  OBVIOUS
<1>. QED
  BY <1>1 DEF Read

(* The options of a word are those up to the first that has an argument, and *)
(* if this is the last character the word asks for one.                      *)
LEMMA ScannedWord ==
  ASSUME NEW w \in Seq(STRING), NEW k \in Nat \ {0},
         k = 1 \/ (k <= Len(w) /\ w[1] = "-"),
         \A z \in 2 .. k : w[z] \notin WithArgument
  PROVE  /\ ~ (Len(w) > k /\ w[1] = "-") =>
              Options!OptionsOf(w) = Read(w, k) /\ ~ Options!Asks(w)
         /\ Len(w) > k /\ w[1] = "-" /\ w[k + 1] \in WithArgument =>
              /\ Options!OptionsOf(w) = Read(w, k + 1)
              /\ Options!Asks(w) <=> k + 1 = Len(w)
<1>1. Len(w) \in Nat /\ (w # << >> => Len(w) > 0 /\ Head(w) = w[1])
  OBVIOUS
<1>2. WithArgument \subseteq Known
  BY DEF WithArgument, Known
<1>3. Read(w, 1) = {}
  <2>1. 2 .. 1 = {}
    OBVIOUS
  <2>. QED
    BY <2>1 DEF Read
<1>4. ASSUME ~ (Len(w) > k /\ w[1] = "-")
      PROVE  Options!OptionsOf(w) = Read(w, k) /\ ~ Options!Asks(w)
  <2>1. CASE w = << >> \/ w[1] # "-"
    <3>1. k = 1
      BY <2>1, <1>1
    <3>. QED
      BY <1>1, <1>3, <2>1, <3>1 DEF Options!OptionsOf, Options!Asks
  <2>2. CASE w # << >> /\ w[1] = "-"
    <3>1. Len(w) = k
      BY <1>1, <1>4, <2>2
    <3>2. {y \in 2 .. Len(w) : /\ w[y] \in Known
                               /\ \A z \in 2 .. y - 1 : w[z] \notin WithArgument}
            = {x \in 2 .. k : w[x] \in Known}
      <4>1. \A y \in 2 .. k : \A z \in 2 .. y - 1 : z \in 2 .. k
        OBVIOUS
      <4>. QED
        BY <3>1, <4>1
    <3>3. Options!OptionsOf(w) = Read(w, k)
      BY <1>1, <2>2, <3>2 DEF Options!OptionsOf, Read
    <3>4. Len(w) > 1 => Len(w) \in 2 .. k
      BY <3>1
    <3>. QED
      BY <3>3, <3>4 DEF Options!Asks
  <2>. QED
    BY <2>1, <2>2
<1>5. ASSUME Len(w) > k, w[1] = "-", w[k + 1] \in WithArgument
      PROVE  /\ Options!OptionsOf(w) = Read(w, k + 1)
             /\ Options!Asks(w) <=> k + 1 = Len(w)
  <2>1. w # << >>
    BY <1>1, <1>5
  <2>2. k + 1 \in 2 .. Len(w) /\ k + 1 \in Nat
    BY <1>1, <1>5
  <2>3. {y \in 2 .. Len(w) : /\ w[y] \in Known
                             /\ \A z \in 2 .. y - 1 : w[z] \notin WithArgument}
          = {x \in 2 .. k + 1 : w[x] \in Known}
    <3>1. \A y \in 2 .. Len(w) : y \notin 2 .. k + 1 => k + 1 \in 2 .. y - 1
      BY <2>2
    <3>2. \A y \in 2 .. k + 1 : y \in 2 .. Len(w) /\ \A z \in 2 .. y - 1 : z \in 2 .. k
      BY <2>2
    <3>. QED
      BY <1>5, <3>1, <3>2
  <2>4. Options!OptionsOf(w) = Read(w, k + 1)
    BY <1>1, <1>5, <2>1, <2>3 DEF Options!OptionsOf, Read
  <2>5. Options!Asks(w) <=> k + 1 = Len(w)
    <3>1. CASE k + 1 = Len(w)
      <4>1. Len(w) > 1 /\ Len(w) - 1 = k
        BY <2>2, <3>1
      <4>. QED
        BY <1>1, <1>5, <2>1, <3>1, <4>1 DEF Options!Asks
    <3>2. CASE k + 1 # Len(w)
      <4>1. k + 1 \in 2 .. Len(w) - 1
        BY <2>2, <3>2
      <4>. QED
        BY <1>5, <3>2, <4>1 DEF Options!Asks
    <3>. QED
      BY <3>1, <3>2
  <2>. QED
    BY <2>4, <2>5
<1>. QED
  BY <1>4, <1>5

(* The options of the first n - 1 words.                                     *)
Seen(n) == {letter \in Known : \E m \in 1 .. n - 1 :
              /\ m <= Len(args)
              /\ ~ Options!IsArgument[m]
              /\ letter \in Options!OptionsOf(args[m])}

(* All options are of known letters.                                         *)
LEMMA OptionsAreKnown ==
  ASSUME NEW w
  PROVE  Options!OptionsOf(w) \subseteq Known
BY DEF Options!OptionsOf

(* One word more.                                                            *)
LEMMA SeenNext ==
  ASSUME NEW n \in Nat \ {0}
  PROVE  Seen(n + 1) = IF n <= Len(args) /\ ~ Options!IsArgument[n]
                       THEN Seen(n) \cup Options!OptionsOf(args[n]) ELSE Seen(n)
<1>1. /\ 1 .. (n + 1) - 1 = (1 .. n - 1) \cup {n}
  OBVIOUS
<1>2. n <= Len(args) => Options!OptionsOf(args[n]) \subseteq Known
  BY OptionsAreKnown
<1>. QED
  BY <1>1, <1>2 DEF Seen

(* The end of the command line has been reached.                             *)
LEMMA SeenAll ==
  ASSUME args \in CommandLine, NEW n \in Nat, n > Len(args), NEW letter
  PROVE  letter \in Seen(n) <=> Options!Given(letter)
<1>1. Len(args) \in Nat /\ DOMAIN args = 1 .. Len(args)
  BY DEF CommandLine
<1>2. \A m : m \in 1 .. n - 1 /\ m <= Len(args) <=> m \in 1 .. Len(args)
  BY <1>1
<1>3. \A m \in 1 .. Len(args) : Options!OptionsOf(args[m]) \subseteq Known
  BY OptionsAreKnown
<1>. QED
  BY <1>1, <1>2, <1>3 DEF Seen, Options!Given

(* An option as GetOptList puts it into the list.                            *)
Entry == [option : Known, argument : Seq(STRING) \cup {None}]

Letters(l) == {l[x].option : x \in DOMAIN l}

(* Where in a list an argument is missing.                                   *)
Lacking(l) == {x \in DOMAIN l : l[x].option \in WithArgument /\ l[x].argument = None}

(* The word before word n is an option whose argument is word n.             *)
Owes(n) == n > 1 /\ ~ Options!IsArgument[n - 1] /\ Options!Asks(args[n - 1])

(* The command lines are sequences of words, and the list has entries.       *)
CommandInv ==
  /\ todo \in Seq(CommandLine)
  /\ args \in CommandLine
  /\ list \in Seq(Entry)

(* The list has the options of the words before the one that is scanned, and *)
(* of this one up to where it is scanned.  No argument is scanned, and only  *)
(* the last option may lack one.                                             *)
ScanInv ==
  stage = "parse" =>
    /\ nextArg \in 1 .. Len(args) + 2 /\ argIndex \in Nat \ {0}
    /\ Letters(list) = IF nextArg <= Len(args)
                       THEN Seen(nextArg) \cup Read(args[nextArg], argIndex)
                       ELSE Seen(nextArg)
    /\ nextArg <= Len(args) =>
         /\ argIndex = 1 \/ (argIndex <= Len(args[nextArg]) /\ args[nextArg][1] = "-")
         /\ \A z \in 2 .. argIndex : args[nextArg][z] \notin WithArgument
    /\ nextArg <= Len(args) + 1 => ~ Owes(nextArg) /\ Lacking(list) = {}
    /\ nextArg = Len(args) + 2 =>
         Options!ArgumentMissing /\ Lacking(list) = {Len(list)}

(* One entry more.                                                           *)
LEMMA EntryAppended ==
  ASSUME NEW l \in Seq(Entry), NEW o \in Known, NEW a \in Seq(STRING) \cup {None}
  PROVE  LET k == Append(l, [option |-> o, argument |-> a])
         IN /\ k \in Seq(Entry)
            /\ Letters(k) = Letters(l) \cup {o}
            /\ Lacking(k) = IF o \in WithArgument /\ a = None
                            THEN Lacking(l) \cup {Len(k)} ELSE Lacking(l)
<1>. DEFINE e == [option |-> o, argument |-> a]
            k == Append(l, e)
            n == Len(l)
<1>1. e \in Entry /\ e.option = o /\ e.argument = a
  BY DEF Entry
<1>. HIDE DEF e
<1>2. /\ k \in Seq(Entry) /\ Len(k) = n + 1 /\ n \in Nat
      /\ DOMAIN l = 1 .. n /\ DOMAIN k = 1 .. n + 1
      /\ k[n + 1] = e /\ \A x \in 1 .. n : k[x] = l[x]
  BY <1>1
<1>. HIDE DEF k, n
<1>3. 1 .. n + 1 = (1 .. n) \cup {n + 1} /\ n + 1 \notin 1 .. n
  BY <1>2
<1>4. Letters(k) = Letters(l) \cup {o}
  BY <1>1, <1>2, <1>3 DEF Letters
<1>5. Lacking(k) = IF o \in WithArgument /\ a = None
                   THEN Lacking(l) \cup {n + 1} ELSE Lacking(l)
  BY <1>1, <1>2, <1>3 DEF Lacking
<1>. QED
  BY <1>2, <1>4, <1>5 DEF k, e

(* What is left of a list.                                                   *)
LEMMA EntryTaken ==
  ASSUME NEW l \in Seq(Entry), l # << >>
  PROVE  /\ Tail(l) \in Seq(Entry) /\ Head(l) \in Entry
         /\ Letters(l) = Letters(Tail(l)) \cup {Head(l).option}
         /\ 1 \in Lacking(l) <=> Head(l).option \in WithArgument /\ Head(l).argument = None
         /\ \A x \in Nat \ {0} : x + 1 \in Lacking(l) <=> x \in Lacking(Tail(l))
         /\ Len(l) = Len(Tail(l)) + 1
<1>. DEFINE k == Tail(l)
            n == Len(k)
<1>1. k \in Seq(Entry) /\ Head(l) \in Entry /\ Head(l) = l[1] /\ n \in Nat
  OBVIOUS
<1>2. Len(l) = n + 1 /\ DOMAIN l = 1 .. n + 1 /\ DOMAIN k = 1 .. n
  OBVIOUS
<1>3. \A x \in 1 .. n : k[x] = l[x + 1]
  OBVIOUS
<1>. HIDE DEF k, n
<1>4. /\ \A x \in 1 .. n + 1 : x = 1 \/ \E y \in 1 .. n : y + 1 = x
      /\ \A x \in Nat \ {0} : x + 1 \in 1 .. n + 1 <=> x \in 1 .. n
      /\ 1 \in 1 .. n + 1
  <2>1. \A x \in 1 .. n + 1 : x = 1 \/ (x - 1 \in 1 .. n /\ (x - 1) + 1 = x)
    BY <1>1
  <2>2. /\ \A x \in Nat \ {0} : x + 1 \in 1 .. n + 1 <=> x \in 1 .. n
        /\ 1 \in 1 .. n + 1
    BY <1>1
  <2>3. \A x \in 1 .. n + 1 : x = 1 \/ \E y \in 1 .. n : y + 1 = x
    BY <2>1
  <2>. QED
    BY <2>2, <2>3
<1>5. Letters(l) = Letters(k) \cup {l[1].option}
  <2>1. \A x \in 1 .. n : x + 1 \in 1 .. n + 1
    BY <1>1
  <2>2. Letters(k) \subseteq Letters(l) /\ l[1].option \in Letters(l)
    <3>1. \A x \in 1 .. n : k[x].option \in {l[y].option : y \in 1 .. n + 1}
      BY <1>3, <2>1
    <3>2. Letters(k) \subseteq {l[y].option : y \in 1 .. n + 1}
      BY <1>2, <3>1 DEF Letters
    <3>3. Letters(l) = {l[y].option : y \in 1 .. n + 1}
      BY <1>2 DEF Letters
    <3>. QED
      BY <1>4, <3>2, <3>3
  <2>3. \A x \in 1 .. n + 1 : l[x].option \in Letters(k) \cup {l[1].option}
    BY <1>2, <1>3, <1>4 DEF Letters
  <2>4. Letters(l) \subseteq Letters(k) \cup {l[1].option}
    BY <1>2, <2>3 DEF Letters
  <2>. QED
    BY <2>2, <2>4
<1>6. 1 \in Lacking(l) <=> l[1].option \in WithArgument /\ l[1].argument = None
  BY <1>2, <1>4 DEF Lacking
<1>7. \A x \in Nat \ {0} : x + 1 \in Lacking(l) <=> x \in Lacking(k)
  BY <1>2, <1>3, <1>4 DEF Lacking
<1>. QED
  BY <1>1, <1>2, <1>5, <1>6, <1>7 DEF k, n

(* The reference definitions depend on the words only.                       *)
LEMMA SameWords ==
  ASSUME UNCHANGED args
  PROVE  /\ \A n : Seen(n)' = Seen(n) /\ Owes(n)' = Owes(n)
         /\ Options!IsArgument' = Options!IsArgument
         /\ Options!ArgumentMissing' = Options!ArgumentMissing
         /\ \A letter : Options!Given(letter)' = Options!Given(letter)
<1>1. Options!IsArgument' = Options!IsArgument
  BY DEF Options!IsArgument, Options!Asks
<1>2. \A w : Options!Asks(w)' = Options!Asks(w)
  BY DEF Options!Asks
<1>3. \A w : Options!OptionsOf(w)' = Options!OptionsOf(w)
  BY DEF Options!OptionsOf
<1>. QED
  BY <1>1, <1>2, <1>3 DEF Seen, Owes, Options!ArgumentMissing, Options!Given

(* Where a word is scanned.                                                  *)
LEMMA Scanning ==
  ASSUME CommandInv, ScanInv, stage = "parse", nextArg <= Len(args)
  PROVE  /\ Len(args) \in Nat /\ nextArg \in 1 .. Len(args) /\ nextArg \in Nat \ {0}
         /\ args[nextArg] \in Seq(STRING)
         /\ argIndex \in Nat \ {0}
         /\ argIndex = 1 \/ (argIndex <= Len(args[nextArg]) /\ args[nextArg][1] = "-")
         /\ \A z \in 2 .. argIndex : args[nextArg][z] \notin WithArgument
         /\ Letters(list) = Seen(nextArg) \cup Read(args[nextArg], argIndex)
         /\ ~ Options!IsArgument[nextArg]
         /\ ~ Owes(nextArg) /\ Lacking(list) = {}
         /\ Seen(nextArg + 1) = Seen(nextArg) \cup Options!OptionsOf(args[nextArg])
         /\ nextArg + 1 \in Nat \ {0}
         /\ Owes(nextArg + 1) <=> Options!Asks(args[nextArg])
<1>. DEFINE n == nextArg
<1>1. args \in CommandLine /\ Len(args) \in Nat /\ n \in 1 .. Len(args) + 2
  BY DEF CommandInv, ScanInv, CommandLine
<1>2. n \in 1 .. Len(args) /\ n \in Nat \ {0} /\ n <= Len(args) + 1
  BY <1>1
<1>3. args[n] \in Seq(STRING)
  BY <1>1, <1>2 DEF CommandLine
<1>4. ~ Owes(n) /\ Lacking(list) = {}
  BY <1>2 DEF ScanInv
<1>5. ~ Options!IsArgument[n]
  BY <1>1, <1>2, <1>4, ArgumentRule DEF Owes
<1>6. Seen(n + 1) = Seen(n) \cup Options!OptionsOf(args[n])
  BY <1>2, <1>5, SeenNext
<1>7. n + 1 > 1 /\ (n + 1) - 1 = n /\ n + 1 \in Nat \ {0}
  BY <1>2
<1>8. Owes(n + 1) <=> Options!Asks(args[n])
  BY <1>5, <1>7 DEF Owes
<1>. QED
  BY <1>1, <1>2, <1>3, <1>4, <1>5, <1>6, <1>7, <1>8 DEF ScanInv

(* The scan goes on in the same word.                                        *)
LEMMA NextLetter ==
  ASSUME CommandInv, ScanInv, stage = "parse", UNCHANGED <<args, nextArg>>,
         nextArg <= Len(args),
         Len(args[nextArg]) > argIndex, args[nextArg][1] = "-",
         args[nextArg][argIndex + 1] \notin WithArgument,
         argIndex' = argIndex + 1, Lacking(list') = {},
         Letters(list') = Seen(nextArg) \cup Read(args[nextArg], argIndex + 1)
  PROVE  ScanInv'
<1>. DEFINE w == args[nextArg]
            k == argIndex
<1>1. /\ Len(args) \in Nat /\ nextArg \in 1 .. Len(args) /\ w \in Seq(STRING)
      /\ k \in Nat \ {0} /\ ~ Owes(nextArg)
      /\ \A z \in 2 .. k : w[z] \notin WithArgument
  BY Scanning
<1>2. /\ nextArg \in 1 .. Len(args) + 2 /\ nextArg # Len(args) + 2
      /\ k + 1 \in Nat \ {0} /\ k + 1 <= Len(w)
  BY <1>1
<1>3. \A z \in 2 .. k + 1 : w[z] \notin WithArgument
  <2>1. \A z \in 2 .. k + 1 : z \in 2 .. k \/ z = k + 1
    BY <1>1
  <2>. QED
    BY <1>1, <2>1
<1>4. Seen(nextArg)' = Seen(nextArg) /\ Owes(nextArg)' = Owes(nextArg)
      /\ Read(args[nextArg], argIndex)' = Read(args[nextArg], argIndex')
      /\ Letters(list)' = Letters(list') /\ Lacking(list)' = Lacking(list')
  BY SameWords DEF Read, Letters, Lacking, Seen, Owes
<1>. QED
  BY <1>1, <1>2, <1>3, <1>4 DEF ScanInv

(* The scan goes on with another word.                                       *)
LEMMA NewWord ==
  ASSUME CommandInv, UNCHANGED args, nextArg' \in 1 .. Len(args) + 2, argIndex' = 1,
         Letters(list') = Seen(nextArg'),
         nextArg' <= Len(args) + 1 => ~ Owes(nextArg') /\ Lacking(list') = {},
         nextArg' = Len(args) + 2 =>
           Options!ArgumentMissing /\ Lacking(list') = {Len(list')}
  PROVE  ScanInv'
<1>1. Seen(nextArg)' = Seen(nextArg') /\ Owes(nextArg)' = Owes(nextArg')
      /\ Options!ArgumentMissing' = Options!ArgumentMissing
      /\ Letters(list)' = Letters(list') /\ Lacking(list)' = Lacking(list')
  BY SameWords DEF Letters, Lacking, Seen, Owes
<1>2. 2 .. argIndex' = {}
  OBVIOUS
<1>3. Read(args[nextArg], argIndex)' = {}
  BY <1>2 DEF Read
<1>. QED
  BY <1>1, <1>2, <1>3 DEF ScanInv

(* A turn of the loops of GetOptList.                                        *)
LEMMA ScanStep ==
  ASSUME CommandInv, ScanInv, stage = "parse", UNCHANGED todo, Options!Scan
  PROVE  CommandInv' /\ ScanInv'
<1>. DEFINE n == nextArg
            k == argIndex
            w == args[n]
<1>1. args \in CommandLine /\ Len(args) \in Nat /\ list \in Seq(Entry) /\ todo \in Seq(CommandLine)
  BY DEF CommandInv, CommandLine
<1>2. nextArg <= Len(args) /\ UNCHANGED args
  BY DEF Options!Scan, Options!SkipLetter, Options!AddFlag, Options!AddAttached,
         Options!AddSeparate, Options!NextWord, Options!InWord
<1>3. /\ n \in 1 .. Len(args) /\ n \in Nat \ {0} /\ w \in Seq(STRING) /\ k \in Nat \ {0}
      /\ k = 1 \/ (k <= Len(w) /\ w[1] = "-")
      /\ \A z \in 2 .. k : w[z] \notin WithArgument
      /\ Letters(list) = Seen(n) \cup Read(w, k)
      /\ ~ Options!IsArgument[n] /\ ~ Owes(n) /\ Lacking(list) = {}
      /\ Seen(n + 1) = Seen(n) \cup Options!OptionsOf(w)
      /\ n + 1 \in Nat \ {0}
      /\ Owes(n + 1) <=> Options!Asks(w)
  BY <1>2, Scanning
<1>4. Read(w, k + 1) = IF w[k + 1] \in Known THEN Read(w, k) \cup {w[k + 1]} ELSE Read(w, k)
  BY <1>3, ReadNext
<1>5. /\ ~ (Len(w) > k /\ w[1] = "-") =>
           Options!OptionsOf(w) = Read(w, k) /\ ~ Options!Asks(w)
      /\ Len(w) > k /\ w[1] = "-" /\ w[k + 1] \in WithArgument =>
           /\ Options!OptionsOf(w) = Read(w, k + 1)
           /\ Options!Asks(w) <=> k + 1 = Len(w)
  BY <1>3, ScannedWord
<1>6. /\ WithArgument \subseteq Known
      /\ n + 1 \in 1 .. Len(args) + 2 /\ n + 1 # Len(args) + 2
      /\ n + 2 \in 1 .. Len(args) + 2
  BY <1>1, <1>3 DEF WithArgument, Known
<1>7. Len(w) > k /\ w[1] = "-" => w[k + 1] \in STRING
  BY <1>3
<1>8. CASE Options!SkipLetter
  <2>1. /\ Len(w) > k /\ w[1] = "-" /\ w[k + 1] \notin Known
        /\ k' = k + 1 /\ UNCHANGED <<args, nextArg, list>>
    BY <1>8 DEF Options!SkipLetter, Options!InWord, Options!Word, Options!Letter
  <2>2. ScanInv'
    BY <1>2, <1>3, <1>4, <1>6, <2>1, NextLetter
  <2>. QED
    BY <1>1, <2>1, <2>2 DEF CommandInv
<1>9. CASE Options!AddFlag
  <2>1. /\ Len(w) > k /\ w[1] = "-" /\ w[k + 1] \in Known \ WithArgument
        /\ list' = Append(list, [option |-> w[k + 1], argument |-> None])
        /\ k' = k + 1 /\ UNCHANGED <<args, nextArg>>
    BY <1>9 DEF Options!AddFlag, Options!InWord, Options!Word, Options!Letter, Options!Found
  <2>2. /\ list' \in Seq(Entry) /\ Letters(list') = Letters(list) \cup {w[k + 1]}
        /\ Lacking(list') = {}
    BY <1>1, <1>3, <2>1, EntryAppended
  <2>3. ScanInv'
    BY <1>2, <1>3, <1>4, <2>1, <2>2, NextLetter
  <2>. QED
    BY <1>1, <2>1, <2>2, <2>3 DEF CommandInv
<1>10. CASE Options!AddAttached
  <2>. DEFINE a == SubSeq(w, k + 2, Len(w))
  <2>1. /\ Len(w) > k /\ w[1] = "-" /\ w[k + 1] \in WithArgument /\ Len(w) # k + 1
        /\ list' = Append(list, [option |-> w[k + 1], argument |-> a])
        /\ n' = n + 1 /\ k' = 1
    BY <1>10 DEF Options!AddAttached, Options!InWord, Options!Word, Options!Letter,
                 Options!Found, Options!AtEndOfWord
  <2>2. a \in Seq(STRING)
    <3>1. Len(w) \in Nat /\ k + 2 \in 1 .. Len(w) + 1
      BY <1>3, <2>1
    <3>2. \A x \in k + 2 .. Len(w) : w[x] \in STRING
      BY <1>3
    <3>. QED
      BY <1>3, <3>1, <3>2
  <2>. HIDE DEF a
  <2>3. a # None
    BY <2>2, SessionAssumption
  <2>4. /\ list' \in Seq(Entry) /\ Letters(list') = Letters(list) \cup {w[k + 1]}
        /\ Lacking(list') = {}
    BY <1>1, <1>3, <1>6, <2>1, <2>2, <2>3, EntryAppended
  <2>5. Letters(list') = Seen(n + 1) /\ ~ Owes(n + 1)
    BY <1>3, <1>4, <1>5, <1>6, <2>1, <2>4
  <2>6. ScanInv'
    BY <1>2, <1>6, <2>1, <2>4, <2>5, NewWord
  <2>. QED
    BY <1>1, <1>2, <2>4, <2>6 DEF CommandInv
<1>11. CASE Options!AddSeparate
  <2>. DEFINE a == IF n < Len(args) THEN args[n + 1] ELSE None
  <2>1. /\ Len(w) > k /\ w[1] = "-" /\ w[k + 1] \in WithArgument /\ Len(w) = k + 1
        /\ list' = Append(list, [option |-> w[k + 1], argument |-> a])
        /\ n' = n + 2 /\ k' = 1
    BY <1>11 DEF Options!AddSeparate, Options!InWord, Options!Word, Options!Letter,
                 Options!Found, Options!AtEndOfWord, Options!AfterArgument
  <2>2. n < Len(args) => a \in Seq(STRING) /\ a # None
    <3>1. n < Len(args) => n + 1 \in 1 .. Len(args)
      BY <1>1, <1>3
    <3>2. n < Len(args) => args[n + 1] \in Seq(STRING)
      BY <1>1, <3>1 DEF CommandLine
    <3>. QED
      BY <3>2, SessionAssumption
  <2>3. ~ (n < Len(args)) => a = None /\ n = Len(args)
    BY <1>1, <1>3
  <2>. HIDE DEF a
  <2>4. /\ list' \in Seq(Entry) /\ Letters(list') = Letters(list) \cup {w[k + 1]}
        /\ Lacking(list') = IF n < Len(args) THEN {} ELSE {Len(list')}
    <3>1. a \in Seq(STRING) \cup {None} /\ w[k + 1] \in Known
      BY <1>6, <2>1, <2>2, <2>3
    <3>2. /\ list' \in Seq(Entry) /\ Letters(list') = Letters(list) \cup {w[k + 1]}
          /\ Lacking(list') = IF w[k + 1] \in WithArgument /\ a = None
                              THEN Lacking(list) \cup {Len(list')} ELSE Lacking(list)
      BY <1>1, <2>1, <3>1, EntryAppended
    <3>3. a = None <=> ~ (n < Len(args))
      BY <2>2, <2>3
    <3>. QED
      BY <1>3, <2>1, <3>2, <3>3
  <2>5. Letters(list') = Seen(n + 1) /\ Options!Asks(w)
    <3>1. Options!OptionsOf(w) = Read(w, k + 1) /\ Options!Asks(w)
      BY <1>3, <1>5, <2>1
    <3>2. Read(w, k + 1) = Read(w, k) \cup {w[k + 1]}
      BY <1>4, <1>6, <2>1
    <3>. QED
      BY <1>3, <2>4, <3>1, <3>2
  <2>6. n < Len(args) => Options!IsArgument[n + 1]
    <3>1. n < Len(args) => n + 1 \in 1 .. Len(args) /\ (n + 1) - 1 = n /\ n + 1 > 1
      BY <1>1, <1>3
    <3>. QED
      BY <1>1, <1>3, <2>5, <3>1, ArgumentRule
  <2>7. (n + 1) + 1 = n + 2 /\ (n + 2) - 1 = n + 1 /\ (n < Len(args) <=> n + 1 <= Len(args))
    BY <1>1, <1>3
  <2>8. Seen(n + 2) = Seen(n + 1)
    BY <1>3, <2>6, <2>7, SeenNext
  <2>9. n < Len(args) => ~ Owes(n + 2) /\ Lacking(list') = {}
    BY <2>4, <2>6, <2>7 DEF Owes
  <2>10. ~ (n < Len(args)) => Options!ArgumentMissing /\ Lacking(list') = {Len(list')}
    <3>1. args # << >>
      BY <1>1, <1>3
    <3>. QED
      BY <1>3, <2>3, <2>4, <2>5, <3>1 DEF Options!ArgumentMissing
  <2>11. /\ n + 2 <= Len(args) + 1 => n < Len(args)
         /\ n + 2 = Len(args) + 2 => ~ (n < Len(args))
    BY <1>1, <1>3
  <2>12. ScanInv'
    BY <1>2, <1>6, <2>1, <2>5, <2>8, <2>9, <2>10, <2>11, NewWord
  <2>. QED
    BY <1>1, <1>2, <2>4, <2>12 DEF CommandInv
<1>12. CASE Options!NextWord
  <2>1. /\ ~ (Len(w) > k /\ w[1] = "-")
        /\ n' = n + 1 /\ k' = 1 /\ UNCHANGED list
    BY <1>12 DEF Options!NextWord, Options!InWord, Options!Word
  <2>2. Letters(list') = Seen(n + 1) /\ ~ Owes(n + 1) /\ Lacking(list') = {}
    BY <1>3, <1>5, <2>1
  <2>3. ScanInv'
    BY <1>2, <1>6, <2>1, <2>2, NewWord
  <2>. QED
    BY <1>1, <1>2, <2>1, <2>3 DEF CommandInv
<1>. QED
  BY <1>8, <1>9, <1>10, <1>11, <1>12 DEF Options!Scan

(* While the options are processed, the ones that decide how the call ends   *)
(* are still to come.                                                        *)
ChosenInv ==
  stage = "options" =>
    /\ \A letter \in {"h", "?"} : letter \in Letters(list) <=> Options!Given(letter)
    /\ Lacking(list) \subseteq {Len(list)}
    /\ Lacking(list) # {} <=> Options!ArgumentMissing

Helped == Options!Given("h") \/ Options!Given("?")
Failed == Options!ArgumentMissing \/ ~ InputOpens \/ ~ OutputOpens

(* A file is encoded or decoded only if nothing was in the way, and in the   *)
(* modes that do so.                                                         *)
WorkInv ==
  /\ stage \in {"encode", "decode"} => ~ Helped /\ ~ Failed
  /\ stage = "encode" => mode \in {"TEST", "ENCODE"}
  /\ stage = "decode" => mode # "ENCODE"

(* The input is not also the file that the encoder writes to.                *)
NamesDiffer == inName = EncoderFile => inName = NoName

(* How a call has ended.                                                     *)
EndInv ==
  args # << >> =>
    /\ stage = "exit" => \/ Helped
                         \/ ~ Failed /\ pc = IF mode = "ENCODE" THEN "encoded" ELSE "done"
    /\ stage = "crashed" /\ NamesDiffer => ~ Helped /\ Failed

ReasonInv == CommandInv /\ ScanInv /\ ChosenInv /\ WorkInv /\ EndInv

(* Nothing that decides how a call ends has changed.                         *)
LEMMA SameReasons ==
  ASSUME UNCHANGED <<args, mode, inName, outName, readonly>>,
         inName \in DOMAIN disk' <=> inName \in DOMAIN disk
  PROVE  Helped' = Helped /\ Failed' = Failed /\ NamesDiffer' = NamesDiffer
<1>1. /\ Options!ArgumentMissing' = Options!ArgumentMissing
      /\ \A letter : Options!Given(letter)' = Options!Given(letter)
  BY SameWords
<1>2. InputOpens' <=> InputOpens
  BY DEF InputOpens
<1>3. OutputOpens' = OutputOpens /\ NamesDiffer' = NamesDiffer
  BY DEF OutputOpens, NamesDiffer, EncoderFile
<1>4. Helped' = Helped
  BY <1>1 DEF Helped
<1>5. Failed' <=> Failed
  BY <1>1, <1>2, <1>3 DEF Failed
<1>. QED
  BY <1>3, <1>4, <1>5

(* No word is read at first.                                                 *)
LEMMA ScanBegins ==
  ASSUME todo' \in Seq(CommandLine), args' \in CommandLine,
         nextArg' = 1, argIndex' = 1, list' = << >>
  PROVE  CommandInv' /\ ScanInv'
<1>1. Len(args') \in Nat
  BY DEF CommandLine
<1>2. /\ 1 \in 1 .. Len(args') + 2 /\ 1 \in Nat \ {0} /\ 1 # Len(args') + 2
      /\ 2 .. 1 = {} /\ 1 .. 1 - 1 = {} /\ ~ (1 > 1)
  BY <1>1
<1>3. /\ list' \in Seq(Entry) /\ Letters(list)' = {} /\ Lacking(list)' = {}
  <2>1. list' \in Seq(Entry) /\ DOMAIN list' = {}
    OBVIOUS
  <2>. QED
    BY <2>1 DEF Letters, Lacking
<1>4. Seen(nextArg)' = {} /\ Read(args[nextArg], argIndex)' = {} /\ ~ Owes(nextArg)'
  BY <1>2 DEF Seen, Read, Owes
<1>5. ScanInv'
  BY <1>2, <1>3, <1>4 DEF ScanInv
<1>. QED
  BY <1>3, <1>5 DEF CommandInv

(* At the end of the command line the list says what was given.              *)
LEMMA ScanEnds ==
  ASSUME CommandInv, ScanInv, stage = "parse", Options!Scanned, UNCHANGED option
  PROVE  ChosenInv'
<1>1. /\ args \in CommandLine /\ Len(args) \in Nat
      /\ nextArg \in 1 .. Len(args) + 2 /\ nextArg > Len(args) /\ UNCHANGED <<args, list>>
  BY DEF CommandInv, CommandLine, ScanInv, Options!Scanned, option
<1>2. Letters(list) = Seen(nextArg)
  BY <1>1 DEF ScanInv
<1>3. \A letter : letter \in Letters(list) <=> Options!Given(letter)
  BY <1>1, <1>2, SeenAll
<1>4. Lacking(list) \subseteq {Len(list)} /\ (Lacking(list) # {} <=> Options!ArgumentMissing)
  <2>1. CASE nextArg = Len(args) + 1
    <3>1. ~ Owes(Len(args) + 1) /\ Lacking(list) = {}
      BY <1>1, <2>1 DEF ScanInv
    <3>2. args # << >> => Len(args) + 1 > 1 /\ (Len(args) + 1) - 1 = Len(args)
      BY <1>1 DEF CommandLine
    <3>. QED
      BY <3>1, <3>2 DEF Owes, Options!ArgumentMissing
  <2>2. CASE nextArg = Len(args) + 2
    BY <2>2 DEF ScanInv
  <2>. QED
    BY <1>1, <2>1, <2>2
<1>5. /\ Letters(list)' = Letters(list) /\ Lacking(list)' = Lacking(list)
      /\ Options!ArgumentMissing' = Options!ArgumentMissing
      /\ \A letter : Options!Given(letter)' = Options!Given(letter)
      /\ Len(list)' = Len(list)
  BY <1>1, SameWords DEF Letters, Lacking
<1>. QED
  BY <1>3, <1>4, <1>5 DEF ChosenInv

(* An option is processed that decides nothing yet.                          *)
LEMMA OptionTaken ==
  ASSUME CommandInv, ChosenInv, stage = "options", list # << >>,
         UNCHANGED <<todo, args, stage>>, list' = Tail(list),
         Head(list).option \notin {"h", "?"},
         ~ (Head(list).option \in WithArgument /\ Head(list).argument = None)
  PROVE  CommandInv' /\ ChosenInv'
<1>. DEFINE k == Tail(list)
            n == Len(k)
<1>1. list \in Seq(Entry) /\ k \in Seq(Entry) /\ n \in Nat /\ DOMAIN k = 1 .. n
  BY EntryTaken DEF CommandInv
<1>2. /\ Letters(list) = Letters(k) \cup {Head(list).option}
      /\ 1 \notin Lacking(list)
      /\ \A x \in Nat \ {0} : x + 1 \in Lacking(list) <=> x \in Lacking(k)
      /\ Len(list) = n + 1
  BY <1>1, EntryTaken
<1>3. \A letter \in {"h", "?"} : letter \in Letters(k) <=> Options!Given(letter)
  BY <1>2 DEF ChosenInv
<1>4. Lacking(list) \subseteq {n + 1} /\ (Lacking(list) # {} <=> Options!ArgumentMissing)
  BY <1>2 DEF ChosenInv
<1>5. Lacking(k) \subseteq 1 .. n /\ Lacking(k) \subseteq Nat \ {0}
  <2>1. Lacking(k) \subseteq 1 .. n
    BY <1>1 DEF Lacking
  <2>. QED
    BY <1>1, <2>1
<1>. HIDE DEF k, n
<1>6. Lacking(k) \subseteq {n}
  <2>1. \A x \in Lacking(k) : x + 1 = n + 1 /\ x \in Nat
    BY <1>2, <1>4, <1>5
  <2>. QED
    BY <1>1, <2>1
<1>7. Lacking(k) # {} <=> Lacking(list) # {}
  <2>1. ASSUME NEW x \in Lacking(list) PROVE Lacking(k) # {}
    <3>1. x = n + 1 /\ n + 1 # 1
      BY <1>2, <1>4, <2>1
    <3>2. n \in Nat \ {0}
      BY <1>1, <3>1
    <3>. QED
      BY <1>2, <2>1, <3>1, <3>2
  <2>2. ASSUME NEW x \in Lacking(k) PROVE Lacking(list) # {}
    BY <1>2, <1>5, <2>2
  <2>. QED
    BY <2>1, <2>2
<1>8. /\ Letters(list)' = Letters(k) /\ Lacking(list)' = Lacking(k) /\ Len(list)' = n
      /\ Options!ArgumentMissing' = Options!ArgumentMissing
      /\ \A letter : Options!Given(letter)' = Options!Given(letter)
  BY SameWords DEF Letters, Lacking, k, n
<1>9. ChosenInv'
  BY <1>3, <1>4, <1>6, <1>7, <1>8 DEF ChosenInv
<1>10. CommandInv'
  BY <1>1 DEF CommandInv, k
<1>. QED
  BY <1>9, <1>10

(* The files that exist stay, and a name is that of a new file only if it is *)
(* written to.                                                               *)
LEMMA StoredNames ==
  ASSUME NEW name, NEW bytes
  PROVE  /\ DOMAIN disk \subseteq DOMAIN Stored(name, bytes)
         /\ \A n \in DOMAIN Stored(name, bytes) : n \in DOMAIN disk \/ (n = name /\ n # NoName)
BY DEF Stored

(* When all options are processed, none of them was for help, and none       *)
(* lacked an argument.                                                       *)
LEMMA NothingLeft ==
  ASSUME ChosenInv, OptionsDone
  PROVE  ~ Helped /\ ~ Options!ArgumentMissing
<1>1. Letters(list) = {} /\ Lacking(list) = {}
  <2>1. DOMAIN list = {}
    BY DEF OptionsDone
  <2>. QED
    BY <2>1 DEF Letters, Lacking
<1>. QED
  BY <1>1 DEF ChosenInv, OptionsDone, Helped

(* The first state.                                                          *)
LEMMA ReasonInit ==
  ASSUME ProgramInit
  PROVE  ReasonInv
<1>. USE DEF ProgramInit
<1>1. todo \in Seq(CommandLine)
  BY SessionAssumption DEF CommandLine
<1>2. args \in CommandLine /\ list \in Seq(Entry)
  BY DEF CommandLine
<1>. QED
  BY <1>1, <1>2 DEF ReasonInv, CommandInv, ScanInv, ChosenInv, WorkInv, EndInv

(* The options.                                                              *)
LEMMA OptionReason ==
  ASSUME ReasonInv, Parse \/ SetMode \/ SetName \/ NoArgument \/ Help
  PROVE  ReasonInv'
<1>. USE DEF ReasonInv
<1>1. UNCHANGED <<todo, disk, readonly, pc>>
  BY DEF Parse, SetMode, SetName, NoArgument, Help, Option, vars
<1>2. CASE Parse
  <2>1. stage = "parse" /\ UNCHANGED settings
    BY <1>2 DEF Parse
  <2>2. CASE Options!Scanned
    <3>1. stage' = "options" /\ UNCHANGED option
      BY <1>2, <2>2 DEF Parse
    <3>2. CommandInv'
      BY <1>1, <3>1 DEF CommandInv, option
    <3>. QED
      BY <2>1, <2>2, <3>1, <3>2, ScanEnds DEF ScanInv, WorkInv, EndInv
  <2>3. CASE ~ Options!Scanned
    <3>1. UNCHANGED stage /\ Options!Scan
      BY <1>2, <2>3 DEF Parse
    <3>2. CommandInv' /\ ScanInv'
      BY <1>1, <2>1, <3>1, ScanStep
    <3>. QED
      BY <2>1, <3>1, <3>2 DEF ChosenInv, WorkInv, EndInv
  <2>. QED
    BY <2>2, <2>3
<1>3. CASE SetMode \/ SetName
  <2>1. /\ stage = "options" /\ list # << >> /\ list' = Tail(list)
        /\ UNCHANGED <<todo, args, stage>>
    BY <1>3 DEF SetMode, SetName, Option
  <2>2. Head(list).option \notin {"h", "?"}
    BY <1>3 DEF SetMode, SetName, Option, ModeOf
  <2>3. ~ (Head(list).option \in WithArgument /\ Head(list).argument = None)
    BY <1>3 DEF SetMode, SetName, Option, ModeOf, WithArgument
  <2>4. CommandInv' /\ ChosenInv'
    BY <2>1, <2>2, <2>3, OptionTaken
  <2>. QED
    BY <2>1, <2>4 DEF ScanInv, WorkInv, EndInv
<1>4. CASE NoArgument \/ Help
  <2>1. /\ stage = "options" /\ list # << >> /\ list' = Tail(list)
        /\ UNCHANGED <<todo, args, settings>> /\ stage' \in {"crashed", "exit"}
    BY <1>4 DEF NoArgument, Help, Option
  <2>2. /\ list \in Seq(Entry) /\ Head(list) \in Entry /\ Tail(list) \in Seq(Entry)
        /\ Len(Tail(list)) \in Nat /\ Len(list) = Len(Tail(list)) + 1
        /\ Letters(list) = Letters(Tail(list)) \cup {Head(list).option}
        /\ 1 \in Lacking(list) <=> (Head(list).option \in WithArgument /\ Head(list).argument = None)
    BY <2>1, EntryTaken DEF CommandInv
  <2>3. CommandInv' /\ ScanInv' /\ ChosenInv' /\ WorkInv'
    BY <2>1, <2>2 DEF CommandInv, ScanInv, ChosenInv, WorkInv
  <2>4. Helped' = Helped /\ Failed' = Failed /\ NamesDiffer' = NamesDiffer
    BY <1>1, <2>1, SameReasons DEF settings
  <2>5. CASE Help
    <3>1. Head(list).option \in {"h", "?"} /\ stage' = "exit"
      BY <2>5 DEF Help, Option
    <3>2. Helped
      BY <2>1, <2>2, <3>1 DEF ChosenInv, Helped
    <3>. QED
      BY <2>3, <2>4, <3>1, <3>2 DEF EndInv
  <2>6. CASE NoArgument
    <3>1. Head(list).option \in {"i", "o"} /\ Head(list).argument = None /\ stage' = "crashed"
      BY <2>6 DEF NoArgument, Option
    <3>2. 1 \in Lacking(list)
      BY <2>2, <3>1 DEF WithArgument
    <3>3. Options!ArgumentMissing /\ Len(list) = 1
      BY <2>1, <3>2 DEF ChosenInv
    <3>4. Letters(list) = {Head(list).option}
      <4>1. list \in Seq(Entry) /\ Len(list) = 1
        BY <2>2, <3>3
      <4>2. list[1] = Head(list) /\ DOMAIN list = {1}
        <5>1. DOMAIN list = 1 .. 1
          BY <4>1
        <5>. QED
          BY <4>1, <5>1
      <4>. QED
        BY <4>2 DEF Letters
    <3>5. ~ Helped
      BY <2>1, <3>1, <3>4 DEF ChosenInv, Helped
    <3>. QED
      BY <2>3, <2>4, <3>1, <3>3, <3>5 DEF EndInv, Failed
  <2>. QED
    BY <1>4, <2>5, <2>6
<1>. QED
  BY <1>2, <1>3, <1>4

(* The files are opened, or one of them cannot be.                           *)
LEMMA OpenReason ==
  ASSUME ReasonInv, OpenForEncoder \/ OpenForDecoder \/ CannotOpen
  PROVE  ReasonInv'
<1>. USE DEF ReasonInv
<1>1. /\ OptionsDone /\ stage = "options"
      /\ UNCHANGED <<todo, args, list, mode, inName, outName, readonly>>
  BY DEF OpenForEncoder, OpenForDecoder, CannotOpen, OptionsDone, option, settings
<1>2. ~ Helped /\ ~ Options!ArgumentMissing
  BY <1>1, NothingLeft
<1>3. CommandInv'
  BY <1>1 DEF CommandInv
<1>4. CASE OpenForEncoder \/ OpenForDecoder
  <2>1. InputOpens /\ OutputOpens /\ stage' \in {"encode", "decode"}
    BY <1>4 DEF OpenForEncoder, OpenForDecoder
  <2>2. inName \in DOMAIN disk /\ inName \in DOMAIN disk'
    BY <1>4, <2>1, StoredNames DEF OpenForEncoder, OpenForDecoder, InputOpens
  <2>3. Helped' = Helped /\ Failed' = Failed
    BY <1>1, <2>2, SameReasons
  <2>4. /\ stage' = "encode" => mode \in {"TEST", "ENCODE"}
        /\ stage' = "decode" => mode # "ENCODE"
    BY <1>4 DEF OpenForEncoder, OpenForDecoder
  <2>5. WorkInv'
    BY <1>1, <1>2, <2>1, <2>3, <2>4 DEF WorkInv, Failed
  <2>. QED
    BY <1>3, <2>1, <2>5 DEF ScanInv, ChosenInv, EndInv
<1>5. CASE CannotOpen
  <2>1. /\ ~ (InputOpens /\ OutputOpens) /\ stage' = "crashed"
        /\ disk' = IF OutputOpens THEN Stored(EncoderFile, << >>) ELSE disk
    BY <1>5 DEF CannotOpen
  <2>2. NamesDiffer => (inName \in DOMAIN disk' <=> inName \in DOMAIN disk)
    BY <2>1, StoredNames DEF NamesDiffer
  <2>3. NamesDiffer' = NamesDiffer
    BY <1>1 DEF NamesDiffer, EncoderFile
  <2>4. Failed
    BY <2>1 DEF Failed
  <2>5. NamesDiffer => Helped' = Helped /\ Failed' = Failed
    BY <1>1, <2>2, SameReasons
  <2>6. EndInv'
    BY <1>2, <2>1, <2>3, <2>4, <2>5 DEF EndInv
  <2>. QED
    BY <1>3, <2>1, <2>6 DEF ScanInv, ChosenInv, WorkInv
<1>. QED
  BY <1>4, <1>5

(* The codec runs, and the files are closed.                                 *)
LEMMA WorkReason ==
  ASSUME ReasonInv, RunEncoder \/ CloseEncoded \/ RunDecoder \/ CloseDecoded
  PROVE  ReasonInv'
<1>. USE DEF ReasonInv
<1>1. /\ stage \in {"encode", "decode"}
      /\ UNCHANGED <<todo, args, list, mode, inName, outName, readonly>>
  BY DEF RunEncoder, CloseEncoded, RunDecoder, CloseDecoded, program, option, settings
<1>2. ~ Helped /\ ~ Failed
  BY <1>1 DEF WorkInv
<1>3. CommandInv'
  BY <1>1 DEF CommandInv
<1>4. CASE RunEncoder \/ RunDecoder
  <2>1. UNCHANGED <<disk, stage>>
    BY <1>4 DEF RunEncoder, RunDecoder, program
  <2>2. Helped' = Helped /\ Failed' = Failed
    BY <1>1, <2>1, SameReasons
  <2>3. WorkInv'
    BY <1>1, <2>1, <2>2 DEF WorkInv
  <2>. QED
    BY <1>1, <1>3, <2>1, <2>3 DEF ScanInv, ChosenInv, EndInv
<1>5. CASE CloseEncoded \/ CloseDecoded
  <2>1. DOMAIN disk \subseteq DOMAIN disk'
    BY <1>5, StoredNames DEF CloseEncoded, CloseDecoded
  <2>2. inName \in DOMAIN disk
    BY <1>2 DEF Failed, InputOpens
  <2>3. Helped' = Helped /\ Failed' = Failed
    BY <1>1, <2>1, <2>2, SameReasons
  <2>4. UNCHANGED pc /\ stage' \in {"exit", "decode"}
    BY <1>5 DEF CloseEncoded, CloseDecoded, vars
  <2>5. stage' = "exit" => pc = IF mode = "ENCODE" THEN "encoded" ELSE "done"
    <3>1. CASE CloseEncoded
      BY <3>1 DEF CloseEncoded, WorkInv
    <3>2. CASE CloseDecoded
      BY <3>2 DEF CloseDecoded, WorkInv
    <3>. QED
      BY <1>5, <3>1, <3>2
  <2>6. stage' = "decode" => mode = "TEST"
    BY <1>5 DEF CloseEncoded, CloseDecoded
  <2>7. WorkInv' /\ EndInv'
    BY <1>1, <1>2, <2>3, <2>4, <2>5, <2>6 DEF WorkInv, EndInv
  <2>. QED
    BY <1>3, <2>4, <2>7 DEF ScanInv, ChosenInv
<1>. QED
  BY <1>4, <1>5

(* Every step of the program.                                                *)
LEMMA ReasonNext ==
  ASSUME ReasonInv, [ProgramNext]_allVars
  PROVE  ReasonInv'
<1>1. CASE UNCHANGED allVars
  <2>1. UNCHANGED <<todo, args, nextArg, argIndex, list, mode, inName, outName, disk, readonly,
                    stage, pc>>
    BY <1>1 DEF allVars, vars, program, option, settings
  <2>2. Helped' = Helped /\ Failed' = Failed /\ NamesDiffer' = NamesDiffer
    BY <2>1, SameReasons
  <2>3. /\ \A n : Seen(n)' = Seen(n) /\ Owes(n)' = Owes(n)
        /\ Options!ArgumentMissing' = Options!ArgumentMissing
        /\ \A letter : Options!Given(letter)' = Options!Given(letter)
    BY <2>1, SameWords
  <2>4. /\ Letters(list)' = Letters(list) /\ Lacking(list)' = Lacking(list)
        /\ Read(args[nextArg], argIndex)' = Read(args[nextArg], argIndex)
        /\ Seen(nextArg)' = Seen(nextArg) /\ Owes(nextArg)' = Owes(nextArg)
    BY <2>1, <2>3 DEF Letters, Lacking, Read, Seen, Owes
  <2>5. CommandInv' /\ ScanInv'
    BY <2>1, <2>3, <2>4 DEF ReasonInv, CommandInv, ScanInv
  <2>6. ChosenInv' /\ WorkInv' /\ EndInv'
    BY <2>1, <2>2, <2>3, <2>4 DEF ReasonInv, ChosenInv, WorkInv, EndInv
  <2>. QED
    BY <2>5, <2>6 DEF ReasonInv
<1>2. CASE Call
  <2>1. /\ todo # << >> /\ todo' = Tail(todo) /\ args' = Head(todo) /\ stage' = "parse"
        /\ nextArg' = 1 /\ argIndex' = 1 /\ list' = << >>
    BY <1>2 DEF Call, Options!Start
  <2>2. todo' \in Seq(CommandLine) /\ args' \in CommandLine
    BY <2>1 DEF ReasonInv, CommandInv
  <2>3. CommandInv' /\ ScanInv'
    BY <2>1, <2>2, ScanBegins
  <2>. QED
    BY <2>1, <2>3 DEF ReasonInv, ChosenInv, WorkInv, EndInv
<1>. QED
  BY <1>1, <1>2, OptionReason, OpenReason, WorkReason DEF ProgramNext

(* A call ends after its work or the help, or crashes for the reasons that   *)
(* EndsForAReason lists, whatever the command line, the files and the        *)
(* matches are: GetOptList finds the options that the words contain by its   *)
(* description, and main acts on them.  The input has a name of its own,     *)
(* since opening the output makes a file that could be found afterwards.     *)
THEOREM EndsAsAsked == ProgramSpec => [](NamesDiffer => EndsForAReason)
<1>1. ProgramInit => ReasonInv
  BY ReasonInit
<1>2. ReasonInv /\ [ProgramNext]_allVars => ReasonInv'
  BY ReasonNext
<1>3. ReasonInv => (NamesDiffer => EndsForAReason)
  BY DEF ReasonInv, EndInv, EndsForAReason, Ended, Helped, Failed
<1>. QED
  BY <1>1, <1>2, <1>3, PTL DEF ProgramSpec

-------------------------------------------------------------------------------
(* A bit file is a queue of bits. *)

(* Any k bits are those of a number.                                         *)
LEMMA BitsMakeNumber ==
  ASSUME NEW k \in Nat, NEW f \in [0 .. k - 1 -> {0, 1}]
  PROVE  \E v \in 0 .. 2 ^ k - 1 : \A j \in 0 .. k - 1 : BitOf(v, j) = f[j]
<1>. DEFINE Made(n, g) == \E v \in 0 .. 2 ^ n - 1 : \A j \in 0 .. n - 1 : BitOf(v, j) = g[j]
            T == {n \in Nat : \A g \in [0 .. n - 1 -> {0, 1}] : Made(n, g)}
<1>1. 0 \in T
  <2>1. 0 \in 0 .. 2 ^ 0 - 1 /\ 0 .. 0 - 1 = {}
    BY PowersPositive
  <2>. QED
    BY <2>1
<1>2. ASSUME NEW n \in Nat, n \in T PROVE n + 1 \in T
  <2>. SUFFICES ASSUME NEW g \in [0 .. (n + 1) - 1 -> {0, 1}] PROVE Made(n + 1, g)
    BY <1>2
  <2>. DEFINE h == [j \in 0 .. n - 1 |-> g[j]]
              top == g[n]
  <2>1. h \in [0 .. n - 1 -> {0, 1}] /\ top \in {0, 1}
    <3>1. n \in 0 .. (n + 1) - 1 /\ \A j \in 0 .. n - 1 : j \in 0 .. (n + 1) - 1
      OBVIOUS
    <3>. QED
      BY <3>1
  <2>2. \A j \in 0 .. n - 1 : h[j] = g[j]
    OBVIOUS
  <2>. HIDE DEF h, top
  <2>3. Made(n, h)
    BY <1>2, <2>1
  <2>4. PICK v \in 0 .. 2 ^ n - 1 : \A j \in 0 .. n - 1 : BitOf(v, j) = h[j]
    BY <2>3
  <2>. DEFINE p == 2 ^ n
              w == p * top + v
  <2>5. p \in Nat \ {0} /\ 2 ^ (n + 1) = p + p
    BY PowersPositive, PowerOfTwo
  <2>6. w \in 0 .. 2 ^ (n + 1) - 1
    <3>1. v \in 0 .. p - 1
      BY <2>4
    <3>. HIDE DEF p
    <3>2. p * 0 = 0 /\ p * 1 = p
      BY <2>5
    <3>3. w \in 0 .. (p + p) - 1
      BY <2>1, <2>5, <3>1, <3>2
    <3>. QED
      BY <2>5, <3>3
  <2>7. ASSUME NEW j \in 0 .. (n + 1) - 1 PROVE BitOf(w, j) = g[j]
    <3>1. BitOf(2 ^ n * top + v, j) = IF j < n THEN BitOf(v, j) ELSE BitOf(top, j - n)
      <4>1. top \in Nat
        BY <2>1
      <4>2. j \in Nat
        OBVIOUS
      <4>3. v \in 0 .. 2 ^ n - 1
        BY <2>4
      <4>. HIDE DEF top
      <4>. QED
        BY <4>1, <4>2, <4>3, BitsOfSum
    <3>2. CASE j < n
      <4>1. j \in 0 .. n - 1
        BY <3>2
      <4>. QED
        BY <2>2, <2>4, <3>1, <3>2, <4>1
    <3>3. CASE ~ (j < n)
      <4>1. j = n /\ j - n = 0
        BY <3>3
      <4>2. BitOf(top, 0) = top
        <5>1. 2 ^ 0 = 1
          BY PowersPositive
        <5>2. top \div 1 = top /\ top % 2 = top
          BY <2>1
        <5>. QED
          BY <5>1, <5>2 DEF BitOf
      <4>. QED
        BY <3>1, <3>3, <4>1, <4>2 DEF top
    <3>. QED
      BY <3>2, <3>3
  <2>. HIDE DEF w
  <2>. QED
    BY <2>6, <2>7
<1>3. k \in T
  <2>. HIDE DEF T
  <2>. QED
    BY <1>1, <1>2, AllNumbers
<1>. QED
  BY <1>3

(* A bit of a byte of a number is one of the number.                         *)
LEMMA BitInNumber ==
  ASSUME NEW v \in Nat, NEW k \in Nat, NEW j \in 0 .. ByteBits - 1
  PROVE  BitOf(ByteOf(v, k), j) = BitOf(v, k * ByteBits + j)
<1>. DEFINE e == k * ByteBits
            p == 2 ^ e
            x == v \div p
<1>1. e \in Nat /\ j \in Nat
  BY ByteRange
<1>. HIDE DEF e
<1>2. p \in Nat \ {0}
  BY <1>1, PowersPositive
<1>3. BitOf(v \div 2 ^ e, j) = BitOf(v, e + j)
  BY <1>1, BitAbove
<1>. HIDE DEF p
<1>4. x \in Nat
  BY <1>2, Remainder
<1>5. BitOf(UChar(x), j) = BitOf(x, j)
  <2>. HIDE DEF x
  <2>. QED
    BY <1>4, UCharBits
<1>. QED
  BY <1>3, <1>5 DEF ByteOf, x, p, e

(* Which bit of a number of count bits is put as its bit n.                  *)
NumPlace(count, n) ==
  IF n < (count \div ByteBits) * ByteBits
  THEN (n \div ByteBits) * ByteBits + (ByteBits - 1 - (n % ByteBits))
  ELSE (count \div ByteBits) * ByteBits + (count - 1 - n)

(* Each bit is put once: the order is turned around within the bytes.        *)
LEMMA NumPlaces ==
  ASSUME NEW count \in Nat, NEW n \in 0 .. count - 1
  PROVE  /\ NumPlace(count, n) \in 0 .. count - 1
         /\ NumPlace(count, NumPlace(count, n)) = n
         /\ \A v \in Nat : NumBit(v, count, n) = BitOf(v, NumPlace(count, n))
<1>. DEFINE d == ByteBits
            q == count \div d
            r == count % d
            e == q * d
            x == NumPlace(count, n)
<1>1. d \in Nat \ {0} /\ q \in Nat /\ r \in 0 .. d - 1 /\ e \in Nat /\ count = e + r
  <2>1. d \in Nat \ {0}
    BY ByteRange
  <2>. HIDE DEF d
  <2>2. q \in Nat /\ r \in 0 .. d - 1 /\ count = d * q + r
    BY <2>1, Remainder
  <2>. HIDE DEF q, r
  <2>. QED
    BY <2>1, <2>2
<1>2. CASE n < e
  <2>. DEFINE k == n \div d
              j == n % d
              i0 == d - 1 - j
              o == k * d
  <2>1. k \in 0 .. q - 1 /\ j \in 0 .. d - 1 /\ n = d * k + j
    <3>1. n \in Nat
      OBVIOUS
    <3>2. k \in 0 .. q - 1 /\ j \in 0 .. d - 1
      BY <1>1, <1>2, <3>1, BitInside
    <3>3. n = d * k + j
      BY <3>1, ByteRange, Remainder
    <3>. QED
      BY <3>2, <3>3
  <2>2. x = o + i0
    BY <1>2 DEF NumPlace
  <2>3. i0 \in 0 .. d - 1 /\ k \in Nat
    BY <1>1, <2>1
  <2>. HIDE DEF i0
  <2>4. o \in Nat /\ (o + i0) \div d = k /\ (o + i0) % d = i0
    BY <2>3, BitPlace
  <2>. HIDE DEF x, q, r, k, j
  <2>5. o + d <= e /\ n = o + j
    <3>1. d * (k + 1) <= d * q
      BY <1>1, <2>1, ProductMonotonic
    <3>. HIDE DEF d
    <3>2. d * k = o /\ d * (k + 1) = o + d /\ d * q = e
      BY <1>1, <2>3
    <3>. QED
      BY <2>1, <3>1, <3>2
  <2>. HIDE DEF o
  <2>6. x < e /\ x \in 0 .. count - 1
    BY <1>1, <2>2, <2>3, <2>4, <2>5
  <2>7. NumPlace(count, x) = n
    <3>1. NumPlace(count, x) = (x \div d) * d + (d - 1 - (x % d))
      BY <2>6 DEF NumPlace, q
    <3>2. (x \div d) * d = o /\ x % d = i0
      BY <2>2, <2>4 DEF o
    <3>3. d - 1 - i0 = j
      BY <1>1, <2>1 DEF i0
    <3>. QED
      BY <2>5, <3>1, <3>2, <3>3
  <2>8. ASSUME NEW v \in Nat PROVE NumBit(v, count, n) = BitOf(v, x)
    <3>1. NumBit(v, count, n) = BitOf(ByteOf(v, k), i0)
      BY <1>2 DEF NumBit, q, k, i0, j
    <3>2. BitOf(ByteOf(v, k), i0) = BitOf(v, k * ByteBits + i0)
      BY <2>3, BitInNumber
    <3>. QED
      BY <2>2, <3>1, <3>2 DEF o
  <2>. QED
    BY <2>6, <2>7, <2>8 DEF x
<1>3. CASE ~ (n < e)
  <2>. DEFINE i0 == count - 1 - n
  <2>1. x = e + i0
    BY <1>3 DEF NumPlace
  <2>2. i0 \in 0 .. d - 1 /\ i0 \in 0 .. r - 1
    BY <1>1, <1>3
  <2>. HIDE DEF x
  <2>3. ~ (x < e) /\ x \in 0 .. count - 1 /\ count - 1 - x = n - e
    BY <1>1, <1>3, <2>1, <2>2
  <2>4. NumPlace(count, x) = n
    <3>1. NumPlace(count, x) = e + (count - 1 - x)
      BY <2>3 DEF NumPlace
    <3>2. e + (n - e) = n
      BY <1>1
    <3>. QED
      BY <2>3, <3>1, <3>2
  <2>5. ASSUME NEW v \in Nat PROVE NumBit(v, count, n) = BitOf(v, x)
    <3>1. NumBit(v, count, n) = BitOf(ByteOf(v, q), i0)
      BY <1>3 DEF NumBit
    <3>2. BitOf(ByteOf(v, q), i0) = BitOf(v, q * ByteBits + i0)
      <4>. HIDE DEF i0, q
      <4>. QED
        BY <1>1, <2>2, BitInNumber
    <3>. QED
      BY <2>1, <3>1, <3>2
  <2>. QED
    BY <2>3, <2>4, <2>5 DEF x
<1>. QED
  BY <1>2, <1>3

(* Any bits are those of a number, in the order in which they are put.       *)
LEMMA NumberExists ==
  ASSUME NEW count \in Nat, NEW b, \A n \in 0 .. count - 1 : b[n] \in {0, 1}
  PROVE  \E v \in 0 .. 2 ^ count - 1 : \A n \in 0 .. count - 1 : NumBit(v, count, n) = b[n]
<1>. DEFINE f == [n \in 0 .. count - 1 |-> b[NumPlace(count, n)]]
<1>1. f \in [0 .. count - 1 -> {0, 1}]
  BY NumPlaces
<1>2. \A n \in 0 .. count - 1 : f[NumPlace(count, n)] = b[n]
  BY NumPlaces
<1>. HIDE DEF f
<1>3. PICK v \in 0 .. 2 ^ count - 1 : \A n \in 0 .. count - 1 : BitOf(v, n) = f[n]
  BY <1>1, BitsMakeNumber
<1>4. v \in Nat
  <2>. DEFINE p == 2 ^ count
  <2>1. p \in Nat /\ v \in 0 .. p - 1
    BY <1>3, PowersPositive
  <2>. HIDE DEF p
  <2>. QED
    BY <2>1
<1>5. \A n \in 0 .. count - 1 : NumBit(v, count, n) = b[n]
  BY <1>2, <1>3, <1>4, NumPlaces
<1>. QED
  BY <1>3, <1>5

(* The bits of the files and of the buffer are bits.                         *)
LEMMA FileBitRange ==
  ASSUME NEW bytes \in Seq(Byte), NEW n \in 0 .. Len(bytes) * ByteBits - 1
  PROVE  FileBit(bytes, n) \in {0, 1}
<1>. DEFINE k == n \div ByteBits
            j == ByteBits - 1 - (n % ByteBits)
            c == bytes[k + 1]
<1>1. Len(bytes) \in Nat /\ ByteBits \in Nat /\ Len(bytes) * ByteBits \in Nat
  <2>. DEFINE l == Len(bytes)
  <2>1. l \in Nat /\ ByteBits \in Nat
    BY ByteRange
  <2>. HIDE DEF l
  <2>2. l * ByteBits \in Nat
    BY <2>1
  <2>. QED
    BY <2>1, <2>2 DEF l
<1>2. n \in Nat /\ n < Len(bytes) * ByteBits
  BY <1>1
<1>3. k \in 0 .. Len(bytes) - 1 /\ n % ByteBits \in 0 .. ByteBits - 1
  BY <1>1, <1>2, BitInside
<1>4. j \in Nat
  BY <1>1, <1>3
<1>. HIDE DEF k, j
<1>5. k + 1 \in 1 .. Len(bytes)
  BY <1>1, <1>3
<1>6. c \in Nat
  <2>1. c \in Byte
    BY <1>5
  <2>. QED
    BY <2>1, ByteRange
<1>. HIDE DEF c
<1>7. BitOf(c, j) \in {0, 1}
  BY <1>4, <1>6, BitRange
<1>. QED
  BY <1>7 DEF FileBit, c, k, j

(* What a concatenation is.                                                  *)
LEMMA JoinedSequence ==
  ASSUME NEW S, NEW f \in Seq(S), NEW g \in Seq(S), NEW q \in Seq(S),
         Len(q) = Len(f) + Len(g),
         \A x \in 1 .. Len(q) : q[x] = IF x <= Len(f) THEN f[x] ELSE g[x - Len(f)]
  PROVE  q = f \o g
<1>. DEFINE e == f \o g
<1>1. /\ e \in Seq(S) /\ Len(e) = Len(f) + Len(g)
      /\ \A x \in 1 .. Len(f) + Len(g) : e[x] = IF x <= Len(f) THEN f[x] ELSE g[x - Len(f)]
  BY ConcatProperties
<1>. HIDE DEF e
<1>2. \A x \in 1 .. Len(q) : q[x] = e[x]
  BY <1>1
<1>3. q = e
  BY <1>1, <1>2
<1>. QED
  BY <1>3 DEF e

(* The end of a sequence, behind its first p elements.                       *)
LEMMA EndOfSequence ==
  ASSUME NEW S, NEW q \in Seq(S), NEW p \in 0 .. Len(q)
  PROVE  LET t == SubSeq(q, p + 1, Len(q))
         IN /\ t \in Seq(S) /\ Len(t) = Len(q) - p
            /\ \A x \in 1 .. Len(q) - p : t[x] = q[p + x]
<1>. DEFINE n == Len(q)
            t == SubSeq(q, p + 1, n)
            k == IF p + 1 <= n THEN n - (p + 1) + 1 ELSE 0
<1>1. n \in Nat /\ p \in 0 .. n
  OBVIOUS
<1>2. p + 1 \in 1 .. n + 1
  BY <1>1
<1>3. t \in Seq(S) /\ Len(t) = k
  BY <1>2, SubSeqProperties
<1>4. \A x \in 1 .. n - (p + 1) + 1 : t[x] = q[(p + 1) + x - 1]
  BY <1>2, SubSeqProperties
<1>. HIDE DEF n, t
<1>5. k = n - p /\ n - (p + 1) + 1 = n - p
  BY <1>1
<1>6. \A x \in 1 .. n - p : (p + 1) + x - 1 = p + x
  BY <1>1
<1>7. Len(t) = n - p
  BY <1>3, <1>5
<1>8. \A x \in 1 .. n - p : t[x] = q[p + x]
  BY <1>4, <1>5, <1>6
<1>. QED
  BY <1>3, <1>7, <1>8 DEF n, t

(* The bits of a stream that is written, as a queue, and of one that is read. *)
PutQueue(s) == [x \in 1 .. PutSize(s) |-> PutBitAt(s, x - 1)]
Left(s) == BitsInFile(s) - GetPos(s)
GetQueue(s) == [x \in 1 .. Left(s) |-> FileBit(s.file, GetPos(s) + (x - 1))]

(* The waiting bits come behind those of the file ...                        *)
LEMMA PutQueueIs ==
  ASSUME NEW s \in Streams
  PROVE  /\ PutQueue(s) = FileBits(s.file) \o LowBits(s.bitBuffer, s.bitCount)
         /\ PutQueue(s) \in Seq({0, 1}) /\ Len(PutQueue(s)) = PutSize(s)
<1>. DEFINE l == BitsInFile(s)
            w == s.bitCount
            f == FileBits(s.file)
            g == LowBits(s.bitBuffer, w)
            q == PutQueue(s)
<1>1. s.file \in Seq(Byte) /\ l \in Nat /\ w \in Nat /\ s.bitBuffer \in Nat
      /\ PutSize(s) = l + w /\ Len(s.file) * ByteBits = l
  BY PutSizes, ByteRange DEF PutSize, BitsInFile
<1>. HIDE DEF l, w
<1>2. \A n \in 0 .. l - 1 : FileBit(s.file, n) \in {0, 1}
  BY <1>1, FileBitRange
<1>3. \A n \in 0 .. w - 1 : BitOf(s.bitBuffer, n) \in {0, 1}
  BY <1>1, BitRange
<1>4. f = [x \in 1 .. l |-> FileBit(s.file, x - 1)]
  BY <1>1 DEF FileBits, ArrayBits
<1>5. f \in Seq({0, 1}) /\ Len(f) = l /\ \A x \in 1 .. l : f[x] = FileBit(s.file, x - 1)
  <2>1. \A x \in 1 .. l : x - 1 \in 0 .. l - 1
    BY <1>1
  <2>2. f \in [1 .. l -> {0, 1}]
    BY <1>2, <1>4, <2>1
  <2>. QED
    BY <1>1, <1>4, <2>2
<1>6. g \in Seq({0, 1}) /\ Len(g) = w /\ \A x \in 1 .. w : g[x] = BitOf(s.bitBuffer, w - x)
  <2>1. \A x \in 1 .. w : w - x \in 0 .. w - 1
    BY <1>1
  <2>2. g = [x \in 1 .. w |-> BitOf(s.bitBuffer, w - x)]
    BY DEF LowBits
  <2>3. g \in [1 .. w -> {0, 1}]
    BY <1>3, <2>1, <2>2
  <2>. QED
    BY <1>1, <2>2, <2>3
<1>7. q = [x \in 1 .. l + w |-> PutBitAt(s, x - 1)]
  BY <1>1 DEF PutQueue
<1>. HIDE DEF f, g, q
<1>8. ASSUME NEW x \in 1 .. l + w
      PROVE  PutBitAt(s, x - 1) = IF x <= l THEN f[x] ELSE g[x - l]
  <2>1. CASE x <= l
    <3>1. x \in 1 .. l /\ x - 1 < l
      BY <1>1, <2>1
    <3>. QED
      BY <1>5, <2>1, <3>1 DEF PutBitAt, l
  <2>2. CASE ~ (x <= l)
    <3>1. x - l \in 1 .. w /\ ~ (x - 1 < l) /\ w - 1 - ((x - 1) - l) = w - (x - l)
      BY <1>1, <2>2
    <3>2. PutBitAt(s, x - 1) = BitOf(s.bitBuffer, w - 1 - ((x - 1) - l))
      BY <3>1 DEF PutBitAt, l, w
    <3>. QED
      BY <1>6, <2>2, <3>1, <3>2
  <2>. QED
    BY <2>1, <2>2
<1>9. q \in Seq({0, 1}) /\ Len(q) = l + w /\ \A x \in 1 .. l + w : q[x] = PutBitAt(s, x - 1)
  <2>. DEFINE z == l + w
  <2>1. \A x \in 1 .. z : PutBitAt(s, x - 1) \in {0, 1}
    <3>1. ASSUME NEW x \in 1 .. z PROVE PutBitAt(s, x - 1) \in {0, 1}
      <4>1. IF x <= l THEN x \in 1 .. l ELSE x - l \in 1 .. w
        BY <1>1
      <4>2. IF x <= l THEN f[x] \in {0, 1} ELSE g[x - l] \in {0, 1}
        BY <1>5, <1>6, <4>1
      <4>. QED
        BY <1>8, <4>2
    <3>. QED
      BY <3>1
  <2>2. z \in Nat
    BY <1>1
  <2>. HIDE DEF z
  <2>3. q = [x \in 1 .. z |-> PutBitAt(s, x - 1)]
    BY <1>7 DEF z
  <2>. QED
    BY <2>1, <2>2, <2>3 DEF z
<1>10. q = f \o g
  <2>1. Len(q) = Len(f) + Len(g)
    BY <1>5, <1>6, <1>9
  <2>2. \A x \in 1 .. Len(q) : q[x] = IF x <= Len(f) THEN f[x] ELSE g[x - Len(f)]
    BY <1>5, <1>8, <1>9
  <2>. QED
    BY <1>5, <1>6, <1>9, <2>1, <2>2, JoinedSequence
<1>. QED
  BY <1>1, <1>9, <1>10 DEF q, f, g, w

(* ... and before them if it is read.                                        *)
LEMMA GetQueueIs ==
  ASSUME NEW s, Reading(s)
  PROVE  /\ GetQueue(s) = LowBits(s.bitBuffer, s.bitCount)
                            \o FileBits(SubSeq(s.file, s.pos + 1, Len(s.file)))
         /\ GetQueue(s) \in Seq({0, 1}) /\ Len(GetQueue(s)) = Left(s) /\ Left(s) \in Nat
         /\ GetPos(s) \in Nat /\ BitsInFile(s) = GetPos(s) + Left(s)
<1>. DEFINE d == ByteBits
            fileLen == Len(s.file)
            p == s.pos
            w == s.bitCount
            a == GetPos(s)
            m == fileLen - p
            tail == SubSeq(s.file, p + 1, fileLen)
            f == FileBits(tail)
            g == LowBits(s.bitBuffer, w)
            q == GetQueue(s)
<1>1. /\ s.file \in Seq(Byte) /\ fileLen \in Nat /\ p \in Nat /\ p <= fileLen
      /\ w \in 0 .. d - 1 /\ s.bitBuffer \in Nat /\ d \in Nat \ {0}
      /\ w # 0 => p \in Nat \ {0} /\ s.bitBuffer = s.file[p]
      /\ p * d \in Nat /\ BitsInFile(s) = fileLen * d /\ BitsInFile(s) \in Nat
      /\ a \in Nat /\ a <= fileLen * d /\ a = p * d - w
  BY ByteRange, GetSizes DEF GetPos
<1>2. /\ tail \in Seq(Byte) /\ Len(tail) = m /\ \A x \in 1 .. m : tail[x] = s.file[p + x]
  <2>1. s.file \in Seq(Byte) /\ p \in 0 .. Len(s.file)
    BY <1>1
  <2>. HIDE DEF p
  <2>. QED
    BY <2>1, EndOfSequence
<1>. HIDE DEF tail, d, fileLen, p, w, a
<1>3. m \in Nat /\ m * d \in Nat /\ fileLen * d = p * d + m * d
  <2>1. m \in Nat /\ fileLen = p + m
    BY <1>1
  <2>. HIDE DEF m
  <2>2. m * d \in Nat
    BY <1>1, <2>1
  <2>. QED
    BY <1>1, <2>1, <2>2
<1>. HIDE DEF m
<1>4. Left(s) = w + m * d /\ Left(s) \in Nat /\ w \in Nat
  BY <1>1, <1>3 DEF Left, a
<1>5. f \in Seq({0, 1}) /\ Len(f) = m * d /\ \A x \in 1 .. m * d : f[x] = FileBit(tail, x - 1)
  <2>1. \A n \in 0 .. m * d - 1 : FileBit(tail, n) \in {0, 1}
    BY <1>2, FileBitRange DEF d
  <2>2. f = [x \in 1 .. m * d |-> FileBit(tail, x - 1)]
    BY <1>2 DEF FileBits, ArrayBits, d
  <2>. DEFINE z == m * d
  <2>. HIDE DEF z
  <2>3. \A x \in 1 .. z : x - 1 \in 0 .. z - 1
    BY <1>3 DEF z
  <2>4. f \in [1 .. z -> {0, 1}]
    BY <2>1, <2>2, <2>3 DEF z
  <2>. HIDE DEF f
  <2>. QED
    BY <1>3, <2>2, <2>4 DEF z
<1>6. g \in Seq({0, 1}) /\ Len(g) = w /\ \A x \in 1 .. w : g[x] = BitOf(s.bitBuffer, w - x)
  <2>1. \A x \in 1 .. w : w - x \in Nat
    BY <1>4
  <2>2. g = [x \in 1 .. w |-> BitOf(s.bitBuffer, w - x)]
    BY DEF LowBits
  <2>3. g \in [1 .. w -> {0, 1}]
    BY <1>1, <2>1, <2>2, BitRange
  <2>. QED
    BY <1>4, <2>2, <2>3
<1>7. q = [x \in 1 .. Left(s) |-> FileBit(s.file, a + (x - 1))]
  BY DEF GetQueue, a
<1>. HIDE DEF f, g, q
<1>8. ASSUME NEW x \in 1 .. Left(s)
      PROVE  FileBit(s.file, a + (x - 1)) = IF x <= w THEN g[x] ELSE f[x - w]
  <2>1. CASE x <= w
    <3>. DEFINE j == d - w + (x - 1)
                r == p - 1
    <3>0. /\ d \in Nat \ {0} /\ w \in 0 .. d - 1 /\ w \in Nat
          /\ w # 0 => p \in Nat \ {0}
      BY <1>1, <1>4
    <3>1. x \in 1 .. w /\ j \in 0 .. d - 1 /\ r \in Nat /\ r + 1 = p /\ w # 0
          /\ d - 1 - j = w - x
      BY <1>4, <2>1, <3>0
    <3>2. a + (x - 1) = r * d + j
      BY <1>1, <3>1
    <3>. HIDE DEF j, r
    <3>3. FileBit(s.file, r * d + j) = BitOf(s.file[r + 1], d - 1 - j)
      BY <3>1, BitPlace DEF FileBit, d
    <3>. QED
      BY <1>1, <1>6, <2>1, <3>1, <3>2, <3>3
  <2>2. CASE ~ (x <= w)
    <3>. DEFINE n == x - w - 1
                k == n \div d
                j == n % d
    <3>1. n \in Nat /\ n < m * d /\ x - w \in 1 .. m * d /\ (x - w) - 1 = n
      <4>. DEFINE z == m * d
      <4>. HIDE DEF z
      <4>1. x \in 1 .. w + z /\ z \in Nat
        BY <1>3, <1>4 DEF z
      <4>2. n \in Nat /\ n < z /\ x - w \in 1 .. z /\ (x - w) - 1 = n
        BY <1>4, <2>2, <4>1
      <4>. QED
        BY <4>2 DEF z
    <3>2. k \in 0 .. m - 1 /\ j \in 0 .. d - 1
      <4>. HIDE DEF n
      <4>. QED
        BY <1>3, <3>1, BitInside DEF d
    <3>3. n = d * k + j
      <4>. HIDE DEF n
      <4>. QED
        BY <1>1, <3>1, Remainder
    <3>4. FileBit(tail, n) = BitOf(tail[k + 1], d - 1 - j)
      BY DEF FileBit, d
    <3>. HIDE DEF k, j
    <3>. HIDE DEF n
    <3>5. p + k \in Nat /\ k + 1 \in 1 .. m /\ (p + k) + 1 = p + (k + 1)
      <4>1. p \in Nat /\ m \in Nat /\ k \in 0 .. m - 1
        BY <1>1, <1>3, <3>2
      <4>. QED
        BY <4>1
    <3>6. FileBit(s.file, (p + k) * d + j) = BitOf(s.file[(p + k) + 1], d - 1 - j)
      <4>. DEFINE e == p + k
      <4>. HIDE DEF e
      <4>1. FileBit(s.file, e * d + j) = BitOf(s.file[e + 1], d - 1 - j)
        BY <3>2, <3>5, BitPlace DEF FileBit, d, e
      <4>. QED
        BY <4>1 DEF e
    <3>7. a + (x - 1) = (p + k) * d + j
      <4>1. k \in Nat /\ j \in Nat
        BY <1>1, <1>3, <3>2
      <4>2. (p + k) * d = p * d + d * k /\ d * k \in Nat
        BY <1>1, <4>1
      <4>3. a + (x - 1) = p * d + n
        BY <1>1, <1>4, <3>1 DEF n
      <4>. QED
        BY <1>1, <3>1, <3>3, <4>1, <4>2, <4>3
    <3>8. tail[k + 1] = s.file[p + (k + 1)]
      BY <1>2, <3>5
    <3>. QED
      BY <1>5, <2>2, <3>1, <3>4, <3>5, <3>6, <3>7, <3>8
  <2>. QED
    BY <2>1, <2>2
<1>9. /\ q \in Seq({0, 1}) /\ Len(q) = Left(s)
      /\ \A x \in 1 .. Left(s) : q[x] = FileBit(s.file, a + (x - 1))
  <2>. DEFINE z == Left(s)
  <2>1. \A x \in 1 .. z : FileBit(s.file, a + (x - 1)) \in {0, 1}
    <3>1. \A x \in 1 .. z : x <= w \/ x - w \in 1 .. m * d
      <4>. DEFINE e == m * d
      <4>. HIDE DEF e
      <4>1. e \in Nat /\ z = w + e
        BY <1>3, <1>4 DEF e
      <4>. HIDE DEF z
      <4>. QED
        BY <1>4, <4>1 DEF e
    <3>. QED
      BY <1>4, <1>5, <1>6, <1>8, <3>1
  <2>2. z \in Nat /\ q = [x \in 1 .. z |-> FileBit(s.file, a + (x - 1))]
    BY <1>4, <1>7
  <2>. HIDE DEF z
  <2>. QED
    BY <2>1, <2>2 DEF z
<1>10. q = g \o f
  <2>1. Len(q) = Len(g) + Len(f)
    BY <1>4, <1>5, <1>6, <1>9
  <2>2. \A x \in 1 .. Len(q) : q[x] = IF x <= Len(g) THEN g[x] ELSE f[x - Len(g)]
    BY <1>6, <1>8, <1>9
  <2>. QED
    BY <1>5, <1>6, <1>9, <2>1, <2>2, JoinedSequence
<1>11. BitsInFile(s) = a + Left(s)
  BY <1>1 DEF Left, a
<1>12. g \o f = LowBits(s.bitBuffer, s.bitCount)
                 \o FileBits(SubSeq(s.file, s.pos + 1, Len(s.file)))
  BY DEF f, g, w, tail, fileLen, p
<1>13. a \in Nat
  BY <1>1
<1>. QED
  BY <1>4, <1>9, <1>10, <1>11, <1>12, <1>13 DEF q, a

(* Bits that are put behind a stream are put behind its queue.               *)
LEMMA QueuePut ==
  ASSUME NEW s \in Streams, NEW t, NEW b, NEW bits \in Seq({0, 1}),
         Puts(s, t, Len(bits), b), \A j \in 0 .. Len(bits) - 1 : b[j] = bits[j + 1]
  PROVE  PutQueue(t) = PutQueue(s) \o bits
<1>. DEFINE k == Len(bits)
            l == PutSize(s)
            f == PutQueue(s)
            q == PutQueue(t)
<1>1. k \in Nat /\ l \in Nat /\ f \in Seq({0, 1}) /\ Len(f) = l
  BY PutSizes, PutQueueIs
<1>2. /\ t \in Streams /\ PutSize(t) = l + k
      /\ \A n \in 0 .. l - 1 : PutBitAt(t, n) = PutBitAt(s, n)
      /\ \A j \in 0 .. k - 1 : PutBitAt(t, l + j) = b[j]
  BY DEF Puts
<1>3. q \in Seq({0, 1}) /\ Len(q) = l + k
  BY <1>2, PutQueueIs
<1>4. \A x \in 1 .. l + k : q[x] = PutBitAt(t, x - 1)
  BY <1>2 DEF PutQueue
<1>5. \A x \in 1 .. l : f[x] = PutBitAt(s, x - 1)
  BY DEF PutQueue
<1>. HIDE DEF k, l, f, q
<1>6. ASSUME NEW x \in 1 .. l + k PROVE q[x] = IF x <= l THEN f[x] ELSE bits[x - l]
  <2>1. CASE x <= l
    <3>1. x \in 1 .. l /\ x - 1 \in 0 .. l - 1
      BY <1>1, <2>1
    <3>. QED
      BY <1>2, <1>4, <1>5, <2>1, <3>1
  <2>2. CASE ~ (x <= l)
    <3>. DEFINE j == x - l - 1
    <3>1. j \in 0 .. k - 1 /\ l + j = x - 1 /\ j + 1 = x - l
      BY <1>1, <2>2
    <3>. HIDE DEF j
    <3>2. b[j] = bits[j + 1]
      BY <3>1 DEF k
    <3>3. PutBitAt(t, x - 1) = bits[x - l]
      BY <1>2, <3>1, <3>2
    <3>. QED
      BY <1>4, <2>2, <3>3
  <2>. QED
    BY <2>1, <2>2
<1>7. Len(q) = Len(f) + Len(bits) /\ \A x \in 1 .. Len(q) : q[x] = IF x <= Len(f) THEN f[x] ELSE bits[x - Len(f)]
  BY <1>1, <1>3, <1>6 DEF k
<1>8. q = f \o bits
  BY <1>1, <1>3, <1>7, JoinedSequence
<1>. QED
  BY <1>8 DEF q, f

(* The bits of the filling of ones.                                          *)
LEMMA AllOnes ==
  ASSUME NEW m \in Nat, NEW k \in Nat, k < m
  PROVE  2 ^ m - 1 \in Nat /\ BitOf(2 ^ m - 1, k) = 1
<1>. DEFINE e == m - k - 1
            p == 2 ^ k
            q == 2 ^ e
            r == q + q
<1>1. e \in Nat /\ m = k + (e + 1)
  OBVIOUS
<1>. HIDE DEF e
<1>2. p \in Nat \ {0} /\ q \in Nat \ {0} /\ 2 ^ (e + 1) = r /\ 2 ^ m = p * r
  <2>1. p \in Nat \ {0} /\ q \in Nat \ {0} /\ 2 ^ (e + 1) = r
    BY <1>1, PowersPositive, PowerOfTwo
  <2>2. e + 1 \in Nat
    BY <1>1
  <2>. HIDE DEF q, p
  <2>3. 2 ^ (k + (e + 1)) = 2 ^ k * 2 ^ (e + 1)
    BY <2>2, PowerOfSum
  <2>. QED
    BY <1>1, <2>1, <2>3 DEF p
<1>. DEFINE x == 2 ^ m - 1
<1>. HIDE DEF p, q
<1>3. p * r = p * (r - 1) + p /\ p * (r - 1) \in Nat
  BY <1>2
<1>4. x = p * (r - 1) + (p - 1) /\ x \in Nat
  <2>. DEFINE y == p * (r - 1)
              z == p * r
  <2>1. z = y + p /\ y \in Nat /\ x = z - 1
    BY <1>2, <1>3
  <2>. HIDE DEF y, z, x
  <2>2. x = y + (p - 1) /\ x \in Nat
    BY <1>2, <2>1
  <2>. QED
    BY <2>2 DEF y
<1>5. r - 1 \in Nat /\ (r - 1) % 2 = 1
  BY <1>2
<1>6. p - 1 \in 0 .. p - 1
  BY <1>2
<1>. DEFINE n == r - 1
            o == p - 1
<1>7. n \in Nat /\ o \in 0 .. p - 1 /\ n % 2 = 1
  BY <1>5, <1>6
<1>. HIDE DEF n, o, r
<1>9. (p * n + o) \div p = n
  BY <1>2, <1>7, Remainder
<1>8. x \div p = n /\ n % 2 = 1
  BY <1>4, <1>7, <1>9 DEF n, o
<1>. QED
  BY <1>4, <1>8 DEF BitOf, p

(* The k waiting bits come out on top of the last byte, below them it is     *)
(* filled up with zeros or ones.                                             *)
LEMMA AlignedByte ==
  ASSUME NEW s \in Streams, NEW fill \in {0, 1}
  PROVE  /\ LeftAligned(s, fill) \in Nat
         /\ \A j \in 0 .. ByteBits - 1 :
              BitOf(LeftAligned(s, fill), ByteBits - 1 - j)
                = IF j < s.bitCount THEN BitOf(s.bitBuffer, s.bitCount - 1 - j) ELSE fill
<1>. DEFINE k == s.bitCount
            m == ByteBits - k
            buf == s.bitBuffer
            y == buf % 2 ^ k
            lo == IF fill = 1 THEN 2 ^ m - 1 ELSE 0
            v == LeftAligned(s, fill)
<1>1. k \in 0 .. ByteBits - 1 /\ k \in 0 .. ByteBits /\ k \in Nat /\ m \in Nat /\ k + m = ByteBits
      /\ buf \in Nat /\ ByteBits \in Nat
  BY PutSizes, ByteRange
<1>2. v = UChar(buf * 2 ^ m) + lo
  BY DEF LeftAligned
<1>. HIDE DEF v, buf, k
<1>3. UChar(buf * 2 ^ m) = 2 ^ m * y /\ 2 ^ m \in Nat \ {0} /\ y \in Nat /\ 2 ^ k \in Nat \ {0}
  <2>1. /\ UChar(buf * 2 ^ m) = 2 ^ m * y /\ 2 ^ m \in Nat \ {0} /\ y \in 0 .. 2 ^ k - 1
        /\ 2 ^ k \in Nat \ {0}
    BY <1>1, ShiftedUp
  <2>. DEFINE p == 2 ^ k
  <2>2. y \in 0 .. p - 1 /\ p \in Nat
    BY <2>1
  <2>. HIDE DEF p, y
  <2>3. y \in Nat
    BY <2>2
  <2>. QED
    BY <2>1, <2>3
<1>4. lo \in 0 .. 2 ^ m - 1 /\ lo \in Nat
  <2>. DEFINE p == 2 ^ m
  <2>1. p \in Nat \ {0}
    BY <1>3
  <2>. HIDE DEF p
  <2>2. (IF fill = 1 THEN p - 1 ELSE 0) \in 0 .. p - 1 /\ (IF fill = 1 THEN p - 1 ELSE 0) \in Nat
    BY <2>1
  <2>. QED
    BY <2>2 DEF p
<1>5. ASSUME NEW j \in 0 .. m - 1 PROVE BitOf(lo, j) = fill
  <2>1. CASE fill = 1
    <3>1. j \in Nat /\ j < m
      BY <1>1
    <3>. HIDE DEF m
    <3>. QED
      BY <1>1, <2>1, <3>1, AllOnes
  <2>2. CASE fill # 1
    <3>1. fill = 0 /\ lo = 0
      BY <2>2
    <3>. DEFINE p == 2 ^ j
    <3>2. p \in Nat \ {0}
      <4>1. j \in Nat
        BY <1>1
      <4>. QED
        BY <4>1, PowersPositive
    <3>3. BitOf(0, j) = (0 \div p) % 2
      BY DEF BitOf
    <3>. HIDE DEF p
    <3>4. 0 \div p = 0
      <4>1. 0 \in Nat /\ 0 \in 0 .. p - 1 /\ p * 0 + 0 = 0
        BY <3>2
      <4>2. (p * 0 + 0) \div p = 0
        BY <3>2, <4>1, Remainder
      <4>. QED
        BY <4>1, <4>2
    <3>. HIDE DEF lo
    <3>. QED
      BY <3>1, <3>3, <3>4
  <2>. QED
    BY <2>1, <2>2
<1>. HIDE DEF lo
<1>6. v = 2 ^ m * y + lo /\ v \in Nat
  <2>. DEFINE p == 2 ^ m
              u == UChar(buf * p)
  <2>1. v = u + lo /\ u = p * y /\ p \in Nat /\ y \in Nat /\ lo \in Nat
    BY <1>2, <1>3, <1>4
  <2>. HIDE DEF p, u, y
  <2>2. v = p * y + lo /\ v \in Nat
    BY <2>1
  <2>. QED
    BY <2>2 DEF p
<1>7. ASSUME NEW j \in 0 .. ByteBits - 1
      PROVE  BitOf(v, ByteBits - 1 - j) = IF j < k THEN BitOf(buf, k - 1 - j) ELSE fill
  <2>. DEFINE x == ByteBits - 1 - j
  <2>1. x \in Nat /\ IF j < k THEN /\ ~ (x < m) /\ x - m = k - 1 - j
                                   /\ k - 1 - j \in Nat /\ k - 1 - j < k
                              ELSE x < m /\ x \in 0 .. m - 1
    BY <1>1
  <2>. HIDE DEF m, y, x
  <2>2. BitOf(2 ^ m * y + lo, x) = IF x < m THEN BitOf(lo, x) ELSE BitOf(y, x - m)
    <3>1. m \in Nat
      BY <1>1
    <3>2. x \in Nat
      BY <2>1
    <3>3. y \in Nat
      BY <1>3
    <3>4. lo \in 0 .. 2 ^ m - 1
      BY <1>4
    <3>. QED
      BY <3>1, <3>2, <3>3, <3>4, BitsOfSum
  <2>3. j < k => BitOf(y, k - 1 - j) = BitOf(buf, k - 1 - j)
    BY <1>1, <2>1, LowerBits DEF y
  <2>4. ~ (j < k) => BitOf(lo, x) = fill
    BY <1>5, <2>1
  <2>. QED
    BY <1>6, <2>1, <2>2, <2>3, <2>4 DEF x
<1>. HIDE DEF y, m
<1>. QED
  BY <1>6, <1>7 DEF v, buf, k

(* Flushing fills the last byte of the queue up.                             *)
LEMMA FlushQueue ==
  ASSUME NEW s \in Streams, HasRoom(s, 0), NEW fill \in {0, 1}
  PROVE  LET t == FlushOutput(fill, s)
             k == (ByteBits - (PutSize(s) % ByteBits)) % ByteBits
         IN /\ t \in Streams /\ t.room = s.room /\ HasRoom(t, 0)
            /\ t.bitCount = 0 /\ t.bitBuffer = 0
            /\ PutQueue(t) = PutQueue(s) \o [x \in 1 .. k |-> fill]
<1>. DEFINE d == ByteBits
            w == s.bitCount
            l == Len(s.file)
            v == LeftAligned(s, fill)
            t == FlushOutput(fill, s)
            k == (d - (PutSize(s) % d)) % d
            bits == [x \in 1 .. k |-> fill]
<1>1. /\ s.file \in Seq(Byte) /\ l \in Nat /\ s.room \in Nat /\ w \in 0 .. d - 1
      /\ d \in Nat \ {0} /\ PutSize(s) = l * d + w /\ l * d \in Nat /\ PutSize(s) \in Nat
      /\ w > 0 => l < s.room
      /\ BitsInFile(s) = l * d
  <2>1. 0 + w > 0 <=> w > 0
    BY PutSizes
  <2>. QED
    BY <2>1, PutSizes, ByteRange DEF PutSize, BitsInFile
<1>2. PutSize(s) % d = w
  <2>1. (l * ByteBits + w) % ByteBits = w
    BY <1>1, BitPlace
  <2>. QED
    BY <1>1, <2>1
<1>3. /\ v \in Nat
      /\ \A j \in 0 .. d - 1 :
           BitOf(v, d - 1 - j) = IF j < w THEN BitOf(s.bitBuffer, w - 1 - j) ELSE fill
  BY AlignedByte
<1>. HIDE DEF v
<1>4. CASE w = 0
  <2>1. t = [s EXCEPT !.bitBuffer = 0, !.bitCount = 0]
    BY <1>4 DEF FlushOutput, Emptied
  <2>2. /\ t.file = s.file /\ t.room = s.room /\ t.bitCount = 0 /\ t.bitBuffer = 0
    BY <2>1 DEF Streams, StreamsUpTo
  <2>3. t \in Streams
    <3>1. 0 \in Nat /\ 0 \in 0 .. ByteBits - 1
      BY <1>1
    <3>. QED
      BY <2>1, <3>1 DEF Streams, StreamsUpTo
  <2>. HIDE DEF t
  <2>4. PutSize(t) = PutSize(s) /\ BitsInFile(t) = BitsInFile(s)
    BY <1>4, <2>2 DEF PutSize, BitsInFile
  <2>5. HasRoom(t, 0)
    BY <2>2, <2>4 DEF HasRoom
  <2>6. k = 0
    <3>1. (d - w) % d = 0
      <4>1. 1 \in Nat /\ 0 \in 0 .. d - 1 /\ d * 1 + 0 = d - w
        BY <1>1, <1>4
      <4>2. (d * 1 + 0) % d = 0
        BY <1>1, <4>1, Remainder
      <4>. QED
        BY <4>1, <4>2
    <3>. QED
      BY <1>2, <3>1
  <2>7. PutQueue(t) = PutQueue(s)
    <3>1. \A x \in 1 .. PutSize(s) : PutBitAt(t, x - 1) = PutBitAt(s, x - 1)
      <4>1. \A x \in 1 .. PutSize(s) : x - 1 < BitsInFile(s)
        BY <1>1, <1>4
      <4>. QED
        BY <2>2, <2>4, <4>1 DEF PutBitAt
    <3>. QED
      BY <2>4, <3>1 DEF PutQueue
  <2>8. PutQueue(s) \o bits = PutQueue(s)
    <3>1. bits = << >>
      BY <2>6
    <3>2. PutQueue(s) \in Seq({0, 1})
      BY PutQueueIs
    <3>. DEFINE e == PutQueue(s)
    <3>. HIDE DEF e, bits
    <3>3. e \o << >> = e
      BY <3>2 DEF e
    <3>. QED
      BY <3>1, <3>3 DEF e
  <2>. QED
    BY <2>2, <2>3, <2>5, <2>7, <2>8 DEF t
<1>5. CASE w # 0
  <2>. DEFINE new == Append(s.file, UChar(v))
              u == FPutC(v, s)
  <2>1. l < s.room
    BY <1>1, <1>5
  <2>2. u = [s EXCEPT !.file = new, !.ok = TRUE]
    <3>1. s \in StreamsUpTo(d - 1) /\ d - 1 \in Nat
      BY <1>1 DEF Streams
    <3>. QED
      BY <1>3, <2>1, <3>1, WriteByte
  <2>3. u \in Streams
    <3>1. s \in StreamsUpTo(d - 1) /\ d - 1 \in Nat
      BY <1>1 DEF Streams
    <3>. QED
      BY <1>3, <3>1, FPutCType DEF Streams
  <2>4. t = Emptied(u)
    BY <1>5 DEF FlushOutput, v
  <2>5. t \in Streams
    BY <1>1, <2>3, <2>4, EmptiedType DEF Streams
  <2>6. /\ t.file = new /\ t.room = s.room /\ t.bitCount = 0 /\ t.bitBuffer = 0 /\ t.ok
    BY <2>2, <2>4 DEF Emptied, Streams, StreamsUpTo
  <2>7. /\ new \in Seq(Byte) /\ Len(new) = l + 1 /\ (l + 1) * d = l * d + d
        /\ \A n \in 0 .. l * d - 1 : FileBit(new, n) = FileBit(s.file, n)
        /\ \A j \in 0 .. d - 1 : FileBit(new, l * d + j) = BitOf(v, d - 1 - j)
    BY <1>1, <1>3, AppendedBits
  <2>. HIDE DEF t, u, new
  <2>8. BitsInFile(t) = l * d + d /\ PutSize(t) = l * d + d
    <3>1. BitsInFile(t) = l * d + d
      BY <2>6, <2>7 DEF BitsInFile
    <3>. QED
      BY <1>1, <2>6, <3>1 DEF PutSize
  <2>9. HasRoom(t, 0)
    <3>1. d * (l + 1) <= d * s.room
      <4>. DEFINE x == l + 1
                  y == s.room
      <4>1. d \in Nat /\ x \in Nat /\ y \in Nat /\ x <= y
        BY <1>1, <2>1
      <4>. HIDE DEF x, y, d
      <4>2. d * x <= d * y
        BY <4>1, ProductMonotonic
      <4>. QED
        BY <4>2 DEF x, y
    <3>2. (l + 1) * d <= s.room * d
      BY <1>1, <3>1
    <3>. DEFINE e == s.room * d
                o == l * d
    <3>3. o + d <= e /\ o \in Nat /\ PutSize(t) = o + d
      BY <1>1, <2>7, <2>8, <3>2
    <3>. HIDE DEF e, o
    <3>4. PutSize(t) + 0 <= e
      BY <1>1, <3>3
    <3>. QED
      BY <2>6, <3>4 DEF HasRoom, e
  <2>10. k = d - w
    <3>1. 0 \in Nat /\ d - w \in 0 .. d - 1 /\ d * 0 + (d - w) = d - w
      BY <1>1, <1>5
    <3>. DEFINE e == d - w
    <3>2. (d * 0 + e) % d = e
      BY <1>1, <3>1, Remainder
    <3>. QED
      BY <1>2, <3>1, <3>2
  <2>11. bits \in Seq({0, 1}) /\ Len(bits) = d - w /\ \A x \in 1 .. d - w : bits[x] = fill
    <3>1. d - w \in Nat
      BY <1>1
    <3>. QED
      BY <2>10, <3>1
  <2>. HIDE DEF bits, k
  <2>. DEFINE b == [j \in 0 .. d - w - 1 |-> fill]
              o == l * d
  <2>12. /\ o \in Nat /\ PutSize(s) = o + w /\ BitsInFile(s) = o /\ BitsInFile(t) = o + d
         /\ PutSize(t) = PutSize(s) + (d - w)
    BY <1>1, <2>8
  <2>13. ASSUME NEW n \in 0 .. PutSize(s) - 1 PROVE PutBitAt(t, n) = PutBitAt(s, n)
    <3>1. n < BitsInFile(t)
      BY <1>1, <2>12
    <3>2. PutBitAt(t, n) = FileBit(new, n)
      BY <2>6, <3>1 DEF PutBitAt
    <3>3. CASE n < o
      <4>1. n \in 0 .. o - 1
        BY <2>12, <3>3
      <4>. QED
        BY <2>7, <2>12, <3>2, <3>3, <4>1 DEF PutBitAt
    <3>4. CASE ~ (n < o)
      <4>. DEFINE j == n - o
      <4>1. j \in 0 .. w - 1 /\ j \in 0 .. d - 1 /\ n = o + j /\ j < w
        <5>1. /\ d \in Nat /\ w \in 0 .. d - 1 /\ o \in Nat /\ n \in Nat /\ n < o + w
              /\ ~ (n < o)
          BY <1>1, <2>12, <3>4
        <5>. HIDE DEF d, w, o
        <5>. QED
          BY <5>1
      <4>2. PutBitAt(s, n) = BitOf(s.bitBuffer, w - 1 - j)
        BY <2>12, <3>4 DEF PutBitAt
      <4>. HIDE DEF j
      <4>3. FileBit(new, o + j) = BitOf(v, d - 1 - j)
        BY <2>7, <4>1
      <4>. QED
        BY <1>3, <3>2, <4>1, <4>2, <4>3
    <3>. QED
      BY <3>3, <3>4
  <2>14. ASSUME NEW j \in 0 .. d - w - 1 PROVE PutBitAt(t, PutSize(s) + j) = fill
    <3>. DEFINE i0 == w + j
    <3>1. i0 \in 0 .. d - 1 /\ ~ (i0 < w) /\ PutSize(s) + j = o + i0 /\ o + i0 < o + d
      <4>. HIDE DEF o
      <4>. DEFINE z == PutSize(s)
      <4>1. o \in Nat /\ z = o + w /\ w \in 0 .. d - 1 /\ d \in Nat
        BY <1>1, <2>12
      <4>. HIDE DEF w, d, z
      <4>2. i0 \in 0 .. d - 1 /\ ~ (i0 < w) /\ z + j = o + i0 /\ o + i0 < o + d
        BY <4>1
      <4>. QED
        BY <4>2 DEF z
    <3>. HIDE DEF i0
    <3>2. PutBitAt(t, o + i0) = FileBit(new, o + i0)
      BY <2>6, <2>12, <3>1 DEF PutBitAt
    <3>3. FileBit(new, o + i0) = BitOf(v, d - 1 - i0)
      BY <2>7, <3>1
    <3>. QED
      BY <1>3, <3>1, <3>2, <3>3
  <2>15. \A j \in 0 .. d - w - 1 : b[j] = fill /\ bits[j + 1] = fill
    <3>1. \A j \in 0 .. d - w - 1 : j + 1 \in 1 .. d - w
      BY <1>1
    <3>. QED
      BY <2>11, <3>1
  <2>. HIDE DEF b
  <2>16. Puts(s, t, Len(bits), b)
    <3>1. Len(bits) = d - w
      BY <2>11
    <3>2. PutSize(t) = PutSize(s) + Len(bits)
      BY <2>12, <3>1
    <3>3. \A j \in 0 .. Len(bits) - 1 : PutBitAt(t, PutSize(s) + j) = b[j]
      BY <2>14, <2>15, <3>1
    <3>. QED
      BY <2>5, <2>6, <2>13, <3>2, <3>3 DEF Puts
  <2>17. PutQueue(t) = PutQueue(s) \o bits
    BY <2>11, <2>15, <2>16, QueuePut
  <2>. QED
    BY <2>5, <2>6, <2>9, <2>17 DEF t, bits, k
<1>. QED
  BY <1>4, <1>5

(* BitFilePutBits puts the bits of an array as those of a number that has    *)
(* the same ones.                                                            *)
LEMMA PutBitsIsNum ==
  ASSUME NEW count \in Nat, NEW bytes \in Seq(Byte), Len(bytes) = count \div ByteBits + 1,
         NEW s, NEW v \in Nat, \A n \in 0 .. count - 1 : NumBit(v, count, n) = FileBit(bytes, n)
  PROVE  PutBits(bytes, count, s) = PutBitsNum(v, count, s)
<1>. DEFINE d == ByteBits
            q == count \div d
            r == count % d
            e == q * d
            a1 == SubSeq(bytes, 1, q)
            a2 == [x \in 1 .. q |-> ByteOf(v, x - 1)]
            b1 == [x \in 1 .. r |-> BitOf(bytes[q + 1], d - x)]
            b2 == [x \in 1 .. r |-> BitOf(ByteOf(v, q), r - x)]
<1>1. d \in Nat \ {0} /\ q \in Nat /\ r \in 0 .. d - 1 /\ e \in Nat /\ count = e + r
  <2>1. d \in Nat \ {0}
    BY ByteRange
  <2>. HIDE DEF d
  <2>2. q \in Nat /\ r \in 0 .. d - 1 /\ count = d * q + r
    BY <2>1, Remainder
  <2>. HIDE DEF q, r
  <2>. QED
    BY <2>1, <2>2
<1>. HIDE DEF q, r
<1>2. ASSUME NEW k \in 0 .. q - 1 PROVE bytes[k + 1] = ByteOf(v, k)
  <2>1. k \in Nat /\ k + 1 \in 1 .. Len(bytes)
    BY <1>1 DEF q
  <2>2. bytes[k + 1] \in 0 .. 2 ^ d - 1 /\ ByteOf(v, k) \in 0 .. 2 ^ d - 1
    <3>1. bytes[k + 1] \in Byte
      BY <2>1
    <3>2. ByteOf(v, k) \in Byte
      BY <2>1, ByteOfRange
    <3>. QED
      BY <3>1, <3>2 DEF Byte
  <2>3. ASSUME NEW x \in 0 .. d - 1 PROVE BitOf(bytes[k + 1], x) = BitOf(ByteOf(v, k), x)
    <3>. DEFINE j == d - 1 - x
                n == k * d + j
    <3>1. j \in 0 .. d - 1 /\ d - 1 - j = x
      BY <1>1
    <3>. HIDE DEF j
    <3>2. n \div d = k /\ n % d = j /\ k * d \in Nat
      BY <2>1, <3>1, BitPlace
    <3>3. n < e /\ n \in 0 .. count - 1
      <4>1. d * (k + 1) <= d * q
        BY <1>1, ProductMonotonic
      <4>. HIDE DEF d, n
      <4>2. d * (k + 1) = k * d + d /\ d * q = e
        BY <1>1, <2>1
      <4>. QED
        BY <1>1, <3>1, <3>2, <4>1, <4>2 DEF n
    <3>. HIDE DEF n
    <3>4. NumBit(v, count, n) = BitOf(ByteOf(v, k), d - 1 - j)
      BY <3>2, <3>3 DEF NumBit, q
    <3>5. FileBit(bytes, n) = BitOf(bytes[k + 1], d - 1 - j)
      BY <3>2 DEF FileBit
    <3>. QED
      BY <3>1, <3>3, <3>4, <3>5
  <2>. QED
    BY <1>1, <2>2, <2>3, BitsDetermine
<1>3. a1 = a2
  <2>1. q <= Len(bytes) /\ 1 \in 1 .. Len(bytes) + 1
    BY <1>1 DEF q
  <2>2. a1 = [x \in 1 .. q |-> bytes[x]]
    <3>1. /\ Len(a1) = q /\ a1 \in Seq(Byte) /\ \A x \in 1 .. q : a1[x] = bytes[x]
      <4>1. Len(bytes) \in Nat
        OBVIOUS
      <4>. QED
        BY <1>1, <2>1, <4>1
    <3>. HIDE DEF a1
    <3>. QED
      BY <1>1, <3>1
  <2>3. ASSUME NEW x \in 1 .. q PROVE bytes[x] = ByteOf(v, x - 1)
    <3>1. x - 1 \in 0 .. q - 1 /\ (x - 1) + 1 = x
      BY <1>1
    <3>. QED
      BY <1>2, <3>1
  <2>. HIDE DEF a1
  <2>. QED
    BY <2>2, <2>3
<1>4. b1 = b2
  <2>1. ASSUME NEW x \in 1 .. r PROVE BitOf(bytes[q + 1], d - x) = BitOf(ByteOf(v, q), r - x)
    <3>. DEFINE j == x - 1
                n == e + j
    <3>1. /\ j \in 0 .. d - 1 /\ n \in 0 .. count - 1 /\ ~ (n < e) /\ count - 1 - n = r - x
          /\ d - 1 - j = d - x
      BY <1>1
    <3>. HIDE DEF j
    <3>2. n \div d = q /\ n % d = j
      BY <1>1, <3>1, BitPlace
    <3>. HIDE DEF n
    <3>3. NumBit(v, count, n) = BitOf(ByteOf(v, q), count - 1 - n)
      BY <3>1 DEF NumBit, q
    <3>4. FileBit(bytes, n) = BitOf(bytes[q + 1], d - 1 - j)
      BY <3>2 DEF FileBit
    <3>. QED
      BY <3>1, <3>3, <3>4
  <2>. QED
    BY <2>1
<1>5. PutBits(bytes, count, s) = PutAll(a1, b1, s)
  BY DEF PutBits, q, r
<1>6. PutBitsNum(v, count, s) = PutAll(a2, b2, s)
  BY DEF PutBitsNum, q, r
<1>. QED
  BY <1>3, <1>4, <1>5, <1>6

(* The bits that are next in a stream that is read.                          *)
NextBits(s, k) == [x \in 1 .. k |-> FileBit(s.file, GetPos(s) + (x - 1))]

(* As long as there are enough of them they are those of a number.           *)
LEMMA NextNumber ==
  ASSUME NEW s, Reading(s), NEW count \in Nat
  PROVE  \E v \in 0 .. 2 ^ count - 1 :
           GetPos(s) + count <= BitsInFile(s) => NumberNext(s, v, count)
<1>. DEFINE b == [n \in 0 .. count - 1 |-> FileBit(s.file, GetPos(s) + n)]
<1>1. CASE GetPos(s) + count <= BitsInFile(s)
  <2>1. /\ s.file \in Seq(Byte) /\ GetPos(s) \in Nat /\ BitsInFile(s) \in Nat
        /\ BitsInFile(s) = Len(s.file) * ByteBits
    BY GetSizes
  <2>2. ASSUME NEW n \in 0 .. count - 1 PROVE b[n] \in {0, 1}
    <3>. DEFINE x == GetPos(s) + n
                l == BitsInFile(s)
    <3>1. GetPos(s) \in Nat /\ l \in Nat /\ GetPos(s) + count <= l
      BY <1>1, <2>1
    <3>. HIDE DEF l
    <3>2. x \in 0 .. l - 1
      BY <3>1
    <3>3. x \in 0 .. Len(s.file) * ByteBits - 1
      BY <2>1, <3>2 DEF l
    <3>. HIDE DEF x
    <3>4. FileBit(s.file, x) \in {0, 1}
      BY <2>1, <3>3, FileBitRange
    <3>. QED
      BY <3>4 DEF x
  <2>3. PICK v \in 0 .. 2 ^ count - 1 : \A n \in 0 .. count - 1 : NumBit(v, count, n) = b[n]
    <3>. HIDE DEF b
    <3>. QED
      BY <2>2, NumberExists
  <2>4. NumberNext(s, v, count)
    BY <2>3 DEF NumberNext
  <2>. QED
    BY <2>3, <2>4
<1>2. CASE ~ (GetPos(s) + count <= BitsInFile(s))
  <2>1. 2 ^ count \in Nat \ {0}
    BY PowersPositive
  <2>. DEFINE p == 2 ^ count
  <2>. HIDE DEF p
  <2>2. 0 \in 0 .. p - 1
    BY <2>1 DEF p
  <2>. QED
    BY <1>2, <2>2 DEF p
<1>. QED
  BY <1>1, <1>2

(* BitFileGetBitsNum gets a number with the next bits.                       *)
LEMMA NumBitsGot ==
  ASSUME NEW s, Reading(s), NEW count \in Nat
  PROVE  LET t == GetBitsNum(count, s)
         IN GotTo(s, count, t) /\ (t.ok => NumBits(t.val, count) = NextBits(s, count))
<1>. DEFINE t == GetBitsNum(count, s)
<1>1. PICK v \in 0 .. 2 ^ count - 1 :
             GetPos(s) + count <= BitsInFile(s) => NumberNext(s, v, count)
  BY NextNumber
<1>2. GotTo(s, count, t) /\ (t.ok /\ NumberNext(s, v, count) => t.val = v)
  BY <1>1, GetNumGets
<1>. HIDE DEF t
<1>3. ASSUME t.ok PROVE NumBits(t.val, count) = NextBits(s, count)
  <2>1. NumberNext(s, v, count) /\ t.val = v
    BY <1>1, <1>2, <1>3 DEF GotTo
  <2>2. ASSUME NEW x \in 1 .. count
        PROVE  NumBit(v, count, x - 1) = FileBit(s.file, GetPos(s) + (x - 1))
    <3>1. x - 1 \in 0 .. count - 1
      OBVIOUS
    <3>. QED
      BY <2>1, <3>1 DEF NumberNext
  <2>. QED
    BY <2>1, <2>2 DEF NumBits, NextBits
<1>. QED
  BY <1>2, <1>3 DEF t

(* BitFileGetBits gets an array with the next bits.                          *)
LEMMA ArrayBitsGot ==
  ASSUME NEW s, Reading(s), NEW count \in Nat
  PROVE  \E g : LET t == GetBits(count, s)
                IN /\ GotTo(s, count, g) /\ t.ok = g.ok /\ Returned(t) = Returned(g)
                   /\ t.ok => ArrayBits(t.val, count) = NextBits(s, count)
<1>. DEFINE d == ByteBits
            q == count \div d
            r == count % d
            e == q * d
            got == GetAll(count, s)
            g == got.s
            val == IF r = 0 THEN got.bytes ELSE Append(got.bytes, got.last * 2 ^ (d - r))
            t == GetBits(count, s)
<1>1. d \in Nat \ {0} /\ q \in Nat /\ r \in 0 .. d - 1 /\ e \in Nat /\ count = e + r
  <2>1. d \in Nat \ {0}
    BY ByteRange
  <2>. HIDE DEF d
  <2>2. q \in Nat /\ r \in 0 .. d - 1 /\ count = d * q + r
    BY <2>1, Remainder
  <2>. HIDE DEF q, r
  <2>. QED
    BY <2>1, <2>2
<1>2. PICK v \in 0 .. 2 ^ count - 1 :
             GetPos(s) + count <= BitsInFile(s) => NumberNext(s, v, count)
  BY NextNumber
<1>. DEFINE bytes == [x \in 1 .. q |-> ByteOf(v, x - 1)]
            last == ByteOf(v, q)
<1>3. /\ g \in Streams /\ GotTo(s, count, g)
      /\ g.ok /\ NumberNext(s, v, count) => got.bytes = bytes /\ got.last = last
      /\ v \in Nat
  BY <1>2, GetAllGets
<1>4. t = [g EXCEPT !.val = val]
  BY DEF GetBits
<1>. HIDE DEF t, g, val
<1>5. t.ok = g.ok /\ t.val = val /\ Returned(t) = Returned(g)
  BY <1>3, <1>4 DEF Returned, Streams, StreamsUpTo
<1>6. ASSUME g.ok PROVE ArrayBits(val, count) = NextBits(s, count)
  <2>1. NumberNext(s, v, count) /\ got.bytes = bytes /\ got.last = last
    BY <1>2, <1>3, <1>6 DEF GotTo
  <2>. DEFINE top == last * 2 ^ (d - r)
  <2>2. val = IF r = 0 THEN bytes ELSE Append(bytes, top)
    BY <2>1 DEF val
  <2>3. last \in Nat /\ \A x \in 1 .. q : ByteOf(v, x - 1) \in Nat
    <3>1. \A x \in 1 .. q : x - 1 \in Nat
      BY <1>1
    <3>. HIDE DEF q
    <3>. QED
      BY <1>1, <1>3, <3>1, ByteOfRange
  <2>4. top \in Nat /\ \A j \in 0 .. r - 1 : BitOf(top, d - 1 - j) = BitOf(last, r - 1 - j)
    <3>. DEFINE m == d - r
                p == 2 ^ m
    <3>1. m \in Nat /\ m + r = d
      BY <1>1
    <3>. HIDE DEF m, last
    <3>2. p \in Nat \ {0}
      BY <3>1, PowersPositive
    <3>. HIDE DEF p
    <3>3. last * p = p * last + 0 /\ last * p \in Nat /\ 0 \in 0 .. p - 1
      BY <2>3, <3>2
    <3>4. ASSUME NEW j \in 0 .. r - 1 PROVE BitOf(last * p, d - 1 - j) = BitOf(last, r - 1 - j)
      <4>. DEFINE x == d - 1 - j
      <4>1. x \in Nat /\ ~ (x < m) /\ x - m = r - 1 - j
        BY <1>1, <3>1
      <4>. HIDE DEF x
      <4>2. BitOf(2 ^ m * last + 0, x) = BitOf(last, x - m)
        BY <2>3, <3>1, <3>3, <4>1, BitsOfSum DEF p
      <4>. QED
        BY <3>3, <4>1, <4>2 DEF p, x
    <3>. QED
      BY <3>3, <3>4 DEF p, m
  <2>. HIDE DEF q, r, top, last
  <2>5. bytes \in Seq(Nat) /\ Len(bytes) = q /\ \A k \in 0 .. q - 1 : bytes[k + 1] = ByteOf(v, k)
    <3>1. bytes \in [1 .. q -> Nat]
      BY <2>3
    <3>2. \A k \in 0 .. q - 1 : k + 1 \in 1 .. q /\ (k + 1) - 1 = k
      BY <1>1
    <3>. QED
      BY <1>1, <3>1, <3>2
  <2>. HIDE DEF bytes
  <2>6. /\ \A k \in 0 .. q - 1 : val[k + 1] = ByteOf(v, k)
        /\ r # 0 => val[q + 1] = top
    <3>1. \A k \in 0 .. q - 1 : k + 1 \in 1 .. q
      BY <1>1
    <3>. QED
      BY <1>1, <2>2, <2>4, <2>5, <3>1
  <2>7. ASSUME NEW n \in 0 .. count - 1 PROVE FileBit(val, n) = NumBit(v, count, n)
    <3>1. CASE n < e
      <4>1. n \in Nat /\ n < q * ByteBits
        BY <3>1
      <4>2. n \div d \in 0 .. q - 1
        BY <1>1, <4>1, BitInside
      <4>. QED
        BY <2>6, <3>1, <4>2 DEF FileBit, NumBit, q
    <3>2. CASE ~ (n < e)
      <4>. DEFINE j == n - e
      <4>1. j \in 0 .. r - 1 /\ j \in 0 .. d - 1 /\ n = e + j /\ count - 1 - n = r - 1 - j /\ r # 0
        BY <1>1, <3>2
      <4>. HIDE DEF j
      <4>2. n \div d = q /\ n % d = j
        BY <1>1, <4>1, BitPlace
      <4>3. FileBit(val, n) = BitOf(top, d - 1 - j)
        BY <2>6, <4>1, <4>2 DEF FileBit
      <4>4. NumBit(v, count, n) = BitOf(last, count - 1 - n)
        BY <3>2 DEF NumBit, q, last
      <4>. QED
        BY <2>4, <4>1, <4>3, <4>4
    <3>. QED
      BY <3>1, <3>2
  <2>8. ASSUME NEW x \in 1 .. count
        PROVE  FileBit(val, x - 1) = FileBit(s.file, GetPos(s) + (x - 1))
    <3>1. x - 1 \in 0 .. count - 1
      OBVIOUS
    <3>. QED
      BY <2>1, <2>7, <3>1 DEF NumberNext
  <2>. QED
    BY <2>8 DEF ArrayBits, NextBits
<1>. QED
  BY <1>3, <1>5, <1>6 DEF t

(* What is left in a stream after bits were got or lost.                     *)
LEMMA QueueTaken ==
  ASSUME NEW s, Reading(s), NEW t, Moved(s, t)
  PROVE  LET n == GetPos(t) - GetPos(s)
         IN /\ n \in 0 .. Len(GetQueue(s))
            /\ GetQueue(t) = SubSeq(GetQueue(s), n + 1, Len(GetQueue(s)))
<1>. DEFINE n == GetPos(t) - GetPos(s)
            f == GetQueue(s)
            g == GetQueue(t)
            a == GetPos(s)
            l == Left(s)
<1>1. f \in Seq({0, 1}) /\ Len(f) = l /\ l \in Nat /\ a \in Nat /\ BitsInFile(s) = a + l
  BY GetQueueIs
<1>2. /\ Reading(t) /\ t.file = s.file /\ a <= GetPos(t) /\ BitsInFile(t) = BitsInFile(s)
  BY DEF Moved, BitsInFile
<1>3. g \in Seq({0, 1}) /\ Len(g) = Left(t) /\ Left(t) \in Nat /\ GetPos(t) \in Nat
      /\ BitsInFile(t) = GetPos(t) + Left(t)
  BY <1>2, GetQueueIs
<1>4. n \in 0 .. l /\ GetPos(t) = a + n /\ Left(t) = l - n
  BY <1>1, <1>2, <1>3
<1>5. \A x \in 1 .. l : f[x] = FileBit(s.file, a + (x - 1))
  BY DEF GetQueue
<1>6. \A x \in 1 .. Left(t) : g[x] = FileBit(s.file, GetPos(t) + (x - 1))
  BY <1>2 DEF GetQueue
<1>. HIDE DEF n, f, g, a, l
<1>7. \A x \in 1 .. l - n : g[x] = f[n + x]
  <2>1. \A x \in 1 .. l - n : n + x \in 1 .. l /\ a + n + (x - 1) = a + (n + x - 1)
    BY <1>1, <1>4
  <2>. QED
    BY <1>4, <1>5, <1>6, <2>1
<1>. DEFINE h == SubSeq(f, n + 1, l)
<1>8. h \in Seq({0, 1}) /\ Len(h) = l - n /\ \A x \in 1 .. l - n : h[x] = f[n + x]
  <2>1. n + 1 \in 1 .. l + 1 /\ l - (n + 1) + 1 = l - n /\ l - n \in Nat
        /\ \A x \in 1 .. l - n : (n + 1) + x - 1 = n + x
    BY <1>1, <1>4
  <2>. QED
    BY <1>1, <2>1, SubSeqProperties
<1>. HIDE DEF h
<1>9. g = h
  BY <1>3, <1>4, <1>7, <1>8
<1>. QED
  BY <1>1, <1>4, <1>9 DEF h, n, f, g, a

(* What was got is the first part of the queue.                              *)
LEMMA QueueGot ==
  ASSUME NEW s, Reading(s), NEW k \in 0 .. Left(s)
  PROVE  NextBits(s, k) = SubSeq(GetQueue(s), 1, k)
<1>. DEFINE f == GetQueue(s)
            l == Left(s)
            h == SubSeq(f, 1, k)
<1>1. f \in Seq({0, 1}) /\ Len(f) = l /\ l \in Nat
  BY GetQueueIs
<1>2. \A x \in 1 .. l : f[x] = FileBit(s.file, GetPos(s) + (x - 1))
  BY DEF GetQueue
<1>. HIDE DEF f, l
<1>3. h \in Seq({0, 1}) /\ Len(h) = k /\ \A x \in 1 .. k : h[x] = f[x]
  <2>1. k \in Nat /\ k <= Len(f)
    BY <1>1 DEF l
  <2>. QED
    BY <1>1, <2>1
<1>. HIDE DEF h
<1>4. \A x \in 1 .. k : h[x] = FileBit(s.file, GetPos(s) + (x - 1))
  <2>1. \A x \in 1 .. k : x \in 1 .. l
    BY <1>1 DEF l
  <2>. QED
    BY <1>2, <1>3, <2>1
<1>5. h = [x \in 1 .. k |-> h[x]]
  BY <1>3
<1>6. h = NextBits(s, k)
  BY <1>4, <1>5 DEF NextBits
<1>. QED
  BY <1>6 DEF h, f

(* While it is written the stream has room for all bits that may be put, and *)
(* while it is read bitBuffer has the byte that was got last.                *)
UseInv ==
  /\ stream \in Streams
  /\ stream.room = MaxBits
  /\ openMode \in {"BF_WRITE", "BF_READ"}
  /\ IF openMode = "BF_WRITE" THEN HasRoom(stream, 0) ELSE Reading(stream)

(* The queue of the stream in either mode.                                   *)
LEMMA WrittenQueue ==
  ASSUME UseInv, openMode = "BF_WRITE"
  PROVE  /\ Contents = PutQueue(stream) /\ Taken = 0
         /\ stream \in Streams /\ HasRoom(stream, 0)
         /\ Contents \in Seq({0, 1}) /\ Len(Contents) = PutSize(stream)
<1>1. stream \in Streams /\ HasRoom(stream, 0)
  BY DEF UseInv
<1>2. /\ PutQueue(stream) = FileBits(stream.file) \o LowBits(stream.bitBuffer, stream.bitCount)
      /\ PutQueue(stream) \in Seq({0, 1}) /\ Len(PutQueue(stream)) = PutSize(stream)
  BY <1>1, PutQueueIs
<1>3. Contents = PutQueue(stream)
  BY <1>2 DEF Contents, Waiting
<1>. QED
  BY <1>1, <1>2, <1>3 DEF Taken

LEMMA ReadQueue ==
  ASSUME UseInv, openMode # "BF_WRITE"
  PROVE  /\ Contents = GetQueue(stream) /\ Taken = GetPos(stream)
         /\ Reading(stream) /\ openMode = "BF_READ"
         /\ Contents \in Seq({0, 1}) /\ Len(Contents) = Left(stream) /\ Left(stream) \in Nat
         /\ GetPos(stream) \in Nat /\ BitsInFile(stream) = GetPos(stream) + Left(stream)
<1>1. Reading(stream) /\ openMode = "BF_READ"
  BY DEF UseInv
<1>2. /\ GetQueue(stream) = LowBits(stream.bitBuffer, stream.bitCount)
                         \o FileBits(SubSeq(stream.file, stream.pos + 1, Len(stream.file)))
      /\ GetQueue(stream) \in Seq({0, 1}) /\ Len(GetQueue(stream)) = Left(stream)
      /\ Left(stream) \in Nat
      /\ GetPos(stream) \in Nat /\ BitsInFile(stream) = GetPos(stream) + Left(stream)
  BY <1>1, GetQueueIs
<1>3. Contents = GetQueue(stream)
  BY <1>2 DEF Contents, Waiting
<1>4. Taken = GetPos(stream)
  BY DEF Taken, GetPos
<1>. QED
  BY <1>1, <1>2, <1>3, <1>4

(* What the last call returned is no part of the queue.                      *)
LEMMA ReturnedSame ==
  ASSUME NEW s \in Streams
  PROVE  LET t == Returned(s)
         IN /\ t \in Streams /\ t.room = s.room /\ t.file = s.file
            /\ PutQueue(t) = PutQueue(s) /\ PutSize(t) = PutSize(s)
            /\ GetQueue(t) = GetQueue(s) /\ GetPos(t) = GetPos(s)
            /\ Reading(s) => Reading(t)
<1>. DEFINE t == Returned(s)
<1>1. /\ t \in Streams /\ t.room = s.room /\ t.file = s.file /\ t.pos = s.pos
      /\ t.bitBuffer = s.bitBuffer /\ t.bitCount = s.bitCount
  <2>1. s \in Streams /\ 0 \in Nat /\ TRUE \in BOOLEAN
    OBVIOUS
  <2>. QED
    BY <2>1 DEF Returned, Streams, StreamsUpTo
<1>. HIDE DEF t
<1>2. BitsInFile(t) = BitsInFile(s)
  BY <1>1 DEF BitsInFile
<1>3. PutSize(t) = PutSize(s)
  BY <1>1, <1>2 DEF PutSize
<1>4. \A n : PutBitAt(t, n) = PutBitAt(s, n)
  BY <1>1, <1>2 DEF PutBitAt
<1>5. PutQueue(t) = PutQueue(s)
  BY <1>3, <1>4 DEF PutQueue
<1>6. GetPos(t) = GetPos(s)
  BY <1>1 DEF GetPos
<1>7. Left(t) = Left(s)
  BY <1>2, <1>6 DEF Left
<1>8. GetQueue(t) = GetQueue(s)
  BY <1>1, <1>6, <1>7 DEF GetQueue
<1>9. Reading(s) => Reading(t)
  BY <1>1 DEF Reading
<1>. QED
  BY <1>1, <1>3, <1>5, <1>6, <1>8, <1>9 DEF t

(* There is room for the bits that are put.                                  *)
LEMMA RoomToPut ==
  ASSUME UseInv, openMode = "BF_WRITE", NEW k \in Nat, BitsInside + k <= MaxBits
  PROVE  HasRoom(stream, k)
<1>. DEFINE l == PutSize(stream)
            z == MaxBits * ByteBits
<1>1. l \in Nat /\ BitsInside = l
  <2>1. stream \in Streams
    BY DEF UseInv
  <2>. QED
    BY <2>1, PutSizes DEF BitsInside, PutSize, BitsInFile
<1>2. MaxBits \in Nat /\ MaxBits <= z
  <2>1. MaxBits \in Nat /\ ByteBits \in Nat \ {0}
    BY UseAssumption, ByteRange
  <2>2. ByteBits - 1 \in Nat /\ MaxBits * (ByteBits - 1) \in Nat
    BY <2>1
  <2>3. z = MaxBits + MaxBits * (ByteBits - 1) /\ z \in Nat
    BY <2>1, <2>2
  <2>. HIDE DEF z
  <2>. DEFINE y == MaxBits * (ByteBits - 1)
  <2>4. y \in Nat /\ z = MaxBits + y
    BY <2>2, <2>3
  <2>. HIDE DEF y
  <2>. QED
    BY <2>1, <2>4
<1>3. z \in Int
  BY UseAssumption, ByteRange
<1>. HIDE DEF l, z
<1>4. l + k <= z
  BY <1>1, <1>2, <1>3
<1>5. stream.room = MaxBits
  BY DEF UseInv
<1>. QED
  BY <1>4, <1>5 DEF HasRoom, l, z

(* A call that puts bits puts them into the queue.                           *)
LEMMA PutIsPut ==
  ASSUME UseInv, NEW after, NEW bits \in Seq({0, 1}), Put(after, bits), NEW b,
         \A j \in 0 .. Len(bits) - 1 : b[j] = bits[j + 1],
         HasRoom(stream, Len(bits)) => Puts(stream, after, Len(bits), b)
  PROVE  UseInv' /\ Queue!Put
<1>. DEFINE k == Len(bits)
<1>1. /\ openMode = "BF_WRITE" /\ BitsInside + k <= MaxBits /\ stream' = Returned(after)
      /\ io' = IoCall(k, bits) /\ openMode' = openMode
  BY DEF Put
<1>2. k \in Nat
  OBVIOUS
<1>3. HasRoom(stream, k)
  BY <1>1, <1>2, RoomToPut
<1>4. Puts(stream, after, k, b)
  BY <1>3
<1>5. after \in Streams /\ after.room = stream.room /\ PutSize(after) = PutSize(stream) + k
  BY <1>4 DEF Puts
<1>6. /\ Contents = PutQueue(stream) /\ Taken = 0 /\ stream \in Streams
  BY <1>1, WrittenQueue
<1>7. PutQueue(after) = PutQueue(stream) \o bits
  BY <1>4, <1>6, QueuePut
<1>8. /\ stream' \in Streams /\ stream'.room = after.room
      /\ PutQueue(stream') = PutQueue(after) /\ PutSize(stream') = PutSize(after)
  BY <1>1, <1>5, ReturnedSame
<1>9. HasRoom(stream', 0)
  <2>1. PutSize(stream') + 0 = PutSize(stream) + k
    <3>1. PutSize(stream) \in Nat
      BY <1>6, PutSizes
    <3>. QED
      BY <1>2, <1>5, <1>8, <3>1
  <2>. QED
    BY <1>3, <1>5, <1>8, <2>1 DEF HasRoom
<1>10. UseInv'
  BY <1>1, <1>5, <1>8, <1>9 DEF UseInv
<1>11. Contents' = PutQueue(stream') /\ Taken' = 0
  <2>1. /\ PutQueue(stream') = FileBits(stream'.file)
                                 \o LowBits(stream'.bitBuffer, stream'.bitCount)
    BY <1>8, PutQueueIs
  <2>. QED
    BY <1>1, <2>1 DEF Contents, Waiting, Taken
<1>12. Contents' = Contents \o bits
  BY <1>6, <1>7, <1>8, <1>11
<1>13. io'.bits = bits /\ io'.asked = k
  BY <1>1 DEF IoCall
<1>14. Queue!Put
  BY <1>1, <1>6, <1>11, <1>12, <1>13 DEF Queue!Put, Queue!Bits
<1>. QED
  BY <1>10, <1>14

(* The bits of a number, and of an array, are bits.                          *)
LEMMA NumBitRange ==
  ASSUME NEW v \in Nat, NEW count \in Nat, NEW n \in 0 .. count - 1
  PROVE  NumBit(v, count, n) \in {0, 1}
<1>. DEFINE d == ByteBits
            q == count \div d
            r == count % d
            e == q * d
<1>1. d \in Nat \ {0} /\ q \in Nat /\ r \in 0 .. d - 1 /\ count = e + r /\ e \in Nat
  <2>1. d \in Nat \ {0}
    BY ByteRange
  <2>2. q \in Nat /\ r \in 0 .. d - 1 /\ count = d * q + r
    BY <2>1, Remainder
  <2>. HIDE DEF q, r
  <2>3. d * q = e /\ e \in Nat
    BY <2>1, <2>2
  <2>. QED
    BY <2>1, <2>2, <2>3
<1>2. \A k \in Nat : ByteOf(v, k) \in Nat
  <2>1. ASSUME NEW k \in Nat PROVE ByteOf(v, k) \in Nat
    <3>. DEFINE a == k * d
                p == 2 ^ a
    <3>1. a \in Nat
      BY <1>1
    <3>. HIDE DEF a
    <3>2. p \in Nat \ {0}
      BY <3>1, PowersPositive
    <3>. HIDE DEF p
    <3>3. v \div p \in Nat
      BY <3>2, Remainder
    <3>4. UChar(v \div p) \in Byte
      BY <3>3, ByteRange
    <3>5. UChar(v \div p) \in Nat
      BY <3>4, ByteRange
    <3>. QED
      BY <3>5 DEF ByteOf, p, a, d
  <2>. QED
    BY <2>1
<1>3. CASE n < e
  <2>. DEFINE k == n \div d
              j == d - 1 - (n % d)
  <2>1. k \in Nat /\ j \in Nat
    <3>1. n \in Nat
      OBVIOUS
    <3>2. n \div d \in Nat /\ n % d \in 0 .. d - 1
      BY <1>1, <3>1, Remainder
    <3>. QED
      BY <1>1, <3>2
  <2>. HIDE DEF k, j
  <2>2. BitOf(ByteOf(v, k), j) \in {0, 1}
    BY <1>2, <2>1, BitRange
  <2>. QED
    BY <1>3, <2>2 DEF NumBit, k, j, e, q, d
<1>4. CASE ~ (n < e)
  <2>. DEFINE j == count - 1 - n
  <2>1. j \in Nat
    OBVIOUS
  <2>. HIDE DEF j
  <2>2. BitOf(ByteOf(v, q), j) \in {0, 1}
    BY <1>1, <1>2, <2>1, BitRange
  <2>. QED
    BY <1>4, <2>2 DEF NumBit, j, e, q, d
<1>. QED
  BY <1>3, <1>4

(* The bits of an array.                                                     *)
LEMMA ArrayBitRange ==
  ASSUME NEW count \in Nat, NEW bytes \in Seq(Byte), Len(bytes) = count \div ByteBits + 1,
         NEW n \in 0 .. count - 1
  PROVE  FileBit(bytes, n) \in {0, 1}
<1>. DEFINE d == ByteBits
            q == count \div d
            r == count % d
            e == (q + 1) * d
<1>1. d \in Nat \ {0}
  BY ByteRange
<1>2. q \in Nat /\ r \in 0 .. d - 1 /\ count = d * q + r
  BY <1>1, Remainder
<1>3. Len(bytes) = q + 1
  OBVIOUS
<1>. HIDE DEF d, q, r
<1>4. e = d * q + d /\ d * q \in Nat
  BY <1>1, <1>2
<1>5. e \in Nat /\ n \in 0 .. e - 1
  BY <1>1, <1>2, <1>4
<1>6. n \in 0 .. Len(bytes) * ByteBits - 1
  BY <1>3, <1>5 DEF d
<1>. QED
  BY <1>6, FileBitRange

(* A sequence of bits and the function from 0 that it stands for.            *)
LEMMA BitSequence ==
  ASSUME NEW k \in Nat, NEW b, \A n \in 0 .. k - 1 : b[n] \in {0, 1},
         NEW bits, bits = [x \in 1 .. k |-> b[x - 1]]
  PROVE  /\ bits \in Seq({0, 1}) /\ Len(bits) = k
         /\ \A j \in 0 .. k - 1 : b[j] = bits[j + 1]
<1>1. \A x \in 1 .. k : x - 1 \in 0 .. k - 1
  OBVIOUS
<1>2. bits \in [1 .. k -> {0, 1}]
  BY <1>1
<1>3. bits \in Seq({0, 1}) /\ Len(bits) = k
  BY <1>2
<1>4. ASSUME NEW j \in 0 .. k - 1 PROVE b[j] = bits[j + 1]
  <2>1. j + 1 \in 1 .. k /\ (j + 1) - 1 = j
    OBVIOUS
  <2>. QED
    BY <2>1
<1>. QED
  BY <1>3, <1>4

(* The calls that put bits.                                                  *)
LEMMA BitIsPut ==
  ASSUME UseInv, PutSomeBit
  PROVE  UseInv' /\ Queue!Put
<1>1. PICK c \in {0, 1} : Put(PutBit(c, stream), <<c>>)
  BY DEF PutSomeBit
<1>. DEFINE b == [j \in 0 .. 0 |-> c]
            after == PutBit(c, stream)
            bits == <<c>>
<1>2. bits \in Seq({0, 1}) /\ Len(bits) = 1 /\ \A j \in 0 .. Len(bits) - 1 : b[j] = bits[j + 1]
  OBVIOUS
<1>3. b[0] = c
  OBVIOUS
<1>4. stream \in Streams
  BY DEF UseInv
<1>. HIDE DEF b
<1>5. HasRoom(stream, Len(bits)) => Puts(stream, after, Len(bits), b)
  BY <1>2, <1>3, <1>4, PutBitPuts
<1>. HIDE DEF after, bits
<1>6. Put(after, bits)
  BY <1>1 DEF after, bits
<1>. QED
  BY <1>2, <1>5, <1>6, PutIsPut

LEMMA CharIsPut ==
  ASSUME UseInv, PutSomeChar
  PROVE  UseInv' /\ Queue!Put
<1>1. PICK c \in Byte : Put(PutChar(c, stream), LowBits(c, ByteBits))
  BY DEF PutSomeChar
<1>. DEFINE d == ByteBits
            b == [j \in 0 .. d - 1 |-> BitOf(c, d - 1 - j)]
            after == PutChar(c, stream)
            bits == LowBits(c, d)
<1>2. c \in Nat /\ d \in Nat
  BY ByteRange
<1>3. \A j \in 0 .. d - 1 : b[j] = BitOf(c, d - 1 - j) /\ b[j] \in {0, 1}
  <2>1. ASSUME NEW j \in 0 .. d - 1 PROVE BitOf(c, d - 1 - j) \in {0, 1}
    <3>1. d - 1 - j \in Nat
      BY <1>2
    <3>. QED
      BY <1>2, <3>1, BitRange
  <2>. QED
    BY <2>1
<1>4. bits = [x \in 1 .. d |-> b[x - 1]]
  <2>1. \A x \in 1 .. d : x - 1 \in 0 .. d - 1 /\ d - 1 - (x - 1) = d - x
    BY <1>2
  <2>2. \A x \in 1 .. d : BitOf(c, d - x) = b[x - 1]
    <3>1. ASSUME NEW x \in 1 .. d PROVE BitOf(c, d - x) = b[x - 1]
      <4>. HIDE DEF b
      <4>1. b[x - 1] = BitOf(c, d - 1 - (x - 1))
        BY <1>3, <2>1
      <4>. QED
        BY <2>1, <4>1
    <3>. QED
      BY <3>1
  <2>. HIDE DEF b
  <2>. QED
    BY <2>2 DEF LowBits
<1>. HIDE DEF b, bits, after
<1>5. bits \in Seq({0, 1}) /\ Len(bits) = d /\ \A j \in 0 .. d - 1 : b[j] = bits[j + 1]
  BY <1>2, <1>3, <1>4, BitSequence
<1>6. stream \in Streams
  BY DEF UseInv
<1>7. HasRoom(stream, Len(bits)) => Puts(stream, after, Len(bits), b)
  BY <1>2, <1>3, <1>5, <1>6, PutCharPuts DEF after
<1>8. Put(after, bits)
  BY <1>1 DEF after, bits
<1>. QED
  BY <1>5, <1>7, <1>8, PutIsPut

LEMMA NumIsPut ==
  ASSUME UseInv, NEW n \in Nat, NEW v \in Nat, Put(PutBitsNum(v, n, stream), NumBits(v, n))
  PROVE  UseInv' /\ Queue!Put
<1>. DEFINE b == [j \in 0 .. n - 1 |-> NumBit(v, n, j)]
            after == PutBitsNum(v, n, stream)
            bits == NumBits(v, n)
<1>1. \A j \in 0 .. n - 1 : b[j] = NumBit(v, n, j) /\ b[j] \in {0, 1}
  BY NumBitRange
<1>2. bits = [x \in 1 .. n |-> b[x - 1]]
  <2>1. \A x \in 1 .. n : x - 1 \in 0 .. n - 1
    OBVIOUS
  <2>. HIDE DEF b
  <2>. QED
    BY <1>1, <2>1 DEF NumBits
<1>. HIDE DEF b, bits, after
<1>3. bits \in Seq({0, 1}) /\ Len(bits) = n /\ \A j \in 0 .. n - 1 : b[j] = bits[j + 1]
  BY <1>1, <1>2, BitSequence
<1>4. stream \in Streams
  BY DEF UseInv
<1>5. HasRoom(stream, Len(bits)) => Puts(stream, after, Len(bits), b)
  BY <1>1, <1>3, <1>4, PutNumPuts DEF after
<1>6. Put(after, bits)
  BY DEF after, bits
<1>. QED
  BY <1>3, <1>5, <1>6, PutIsPut

LEMMA ArrayIsPut ==
  ASSUME UseInv, PutSomeBits
  PROVE  UseInv' /\ Queue!Put
<1>0. PICK n \in Counts : \E bytes \in [1 .. n \div ByteBits + 1 -> Byte] :
                             Put(PutBits(bytes, n, stream), ArrayBits(bytes, n))
  BY DEF PutSomeBits
<1>1. PICK bytes \in [1 .. n \div ByteBits + 1 -> Byte] :
             Put(PutBits(bytes, n, stream), ArrayBits(bytes, n))
  BY <1>0
<1>2. n \in Nat
  BY UseAssumption
<1>3. n \div ByteBits \in Nat
  BY <1>2, ByteRange, Remainder
<1>4. bytes \in Seq(Byte) /\ Len(bytes) = n \div ByteBits + 1
  <2>. DEFINE m == n \div ByteBits + 1
  <2>1. m \in Nat /\ bytes \in [1 .. m -> Byte]
    BY <1>1, <1>3
  <2>. HIDE DEF m
  <2>2. bytes \in Seq(Byte) /\ Len(bytes) = m
    BY <2>1
  <2>. QED
    BY <2>2 DEF m
<1>. DEFINE b == [j \in 0 .. n - 1 |-> FileBit(bytes, j)]
<1>5. \A j \in 0 .. n - 1 : b[j] = FileBit(bytes, j) /\ b[j] \in {0, 1}
  BY <1>2, <1>4, ArrayBitRange
<1>. HIDE DEF b
<1>6. PICK v \in 0 .. 2 ^ n - 1 : \A j \in 0 .. n - 1 : NumBit(v, n, j) = b[j]
  BY <1>2, <1>5, NumberExists
<1>7. v \in Nat /\ \A j \in 0 .. n - 1 : NumBit(v, n, j) = FileBit(bytes, j)
  BY <1>5, <1>6
<1>8. PutBits(bytes, n, stream) = PutBitsNum(v, n, stream)
  BY <1>2, <1>4, <1>7, PutBitsIsNum
<1>9. ArrayBits(bytes, n) = NumBits(v, n)
  <2>1. \A x \in 1 .. n : x - 1 \in 0 .. n - 1
    BY <1>2
  <2>2. \A x \in 1 .. n : NumBit(v, n, x - 1) = FileBit(bytes, x - 1)
    BY <1>7, <2>1
  <2>. QED
    BY <2>2 DEF ArrayBits, NumBits
<1>10. Put(PutBitsNum(v, n, stream), NumBits(v, n))
  BY <1>1, <1>8, <1>9
<1>. QED
  BY <1>2, <1>7, <1>10, NumIsPut

(* Aligning and closing the file fill up the queue.                          *)
LEMMA AlignIsAlign ==
  ASSUME UseInv, NEW fill \in {0, 1}, Align(fill)
  PROVE  UseInv' /\ Queue!Align(fill)
<1>. DEFINE t == FlushOutput(fill, stream)
<1>1. /\ Contents = PutQueue(stream) /\ Taken = 0 /\ stream \in Streams
      /\ HasRoom(stream, 0) /\ Len(Contents) = PutSize(stream) /\ openMode = "BF_WRITE"
      /\ stream.room = MaxBits
  BY WrittenQueue DEF Align, UseInv
<1>2. /\ stream' = t /\ openMode' = "BF_WRITE" /\ io' = NoBits
  BY <1>1 DEF Align
<1>3. /\ t \in Streams /\ t.room = stream.room /\ HasRoom(t, 0)
      /\ PutQueue(t) = PutQueue(stream)
           \o [x \in 1 .. (ByteBits - (PutSize(stream) % ByteBits)) % ByteBits |-> fill]
  BY <1>1, FlushQueue
<1>. HIDE DEF t
<1>4. UseInv'
  BY <1>1, <1>2, <1>3 DEF UseInv
<1>5. Contents' = PutQueue(t) /\ Taken' = 0
  <2>1. PutQueue(t) = FileBits(t.file) \o LowBits(t.bitBuffer, t.bitCount)
    BY <1>3, PutQueueIs
  <2>. QED
    BY <1>2, <2>1 DEF Contents, Waiting, Taken
<1>6. Contents' = Contents \o [x \in 1 .. Queue!Filling |-> fill]
  BY <1>1, <1>3, <1>5 DEF Queue!Filling
<1>7. Queue!Align(fill)
  BY <1>1, <1>2, <1>5, <1>6
     DEF Queue!Align, NoBits, IoCall, Queue!NoBits, Queue!Call
<1>. QED
  BY <1>4, <1>7

LEMMA CloseIsClose ==
  ASSUME UseInv, Close
  PROVE  UseInv' /\ Queue!Close
<1>. DEFINE t == FlushOutput(0, stream)
            u == MakeBitFile(t.file, MaxBits)
<1>1. /\ Contents = PutQueue(stream) /\ Taken = 0 /\ stream \in Streams
      /\ HasRoom(stream, 0) /\ Len(Contents) = PutSize(stream) /\ openMode = "BF_WRITE"
  BY WrittenQueue DEF Close
<1>2. /\ stream' = u /\ openMode' = "BF_READ" /\ io' = NoBits
  BY DEF Close
<1>3. /\ t \in Streams /\ t.bitCount = 0 /\ t.bitBuffer = 0
      /\ PutQueue(t) = PutQueue(stream)
           \o [x \in 1 .. (ByteBits - (PutSize(stream) % ByteBits)) % ByteBits |-> 0]
  <2>1. 0 \in {0, 1}
    OBVIOUS
  <2>. QED
    BY <1>1, <2>1, FlushQueue
<1>. HIDE DEF t
<1>4. /\ Reading(u) /\ u.room = MaxBits /\ u.file = t.file /\ u.pos = 0
      /\ u.bitCount = 0 /\ u.bitBuffer = 0
  <2>1. t.file \in Seq(Byte) /\ Len(t.file) \in Nat
    BY <1>3, PutSizes
  <2>2. MaxBits \in Nat /\ ByteBits \in Nat \ {0} /\ 0 \in 0 .. ByteBits - 1
    BY UseAssumption, ByteRange
  <2>3. u \in Streams
    BY <2>1, <2>2 DEF MakeBitFile, Streams, StreamsUpTo
  <2>4. /\ u.room = MaxBits /\ u.file = t.file /\ u.pos = 0
        /\ u.bitCount = 0 /\ u.bitBuffer = 0
    BY DEF MakeBitFile
  <2>. QED
    BY <2>1, <2>3, <2>4 DEF Reading
<1>. HIDE DEF u
<1>5. UseInv'
  BY <1>2, <1>4 DEF UseInv, Reading
<1>6. Contents' = LowBits(0, 0) \o FileBits(SubSeq(t.file, 0 + 1, Len(t.file)))
  BY <1>2, <1>4 DEF Contents, Waiting
<1>7. SubSeq(t.file, 0 + 1, Len(t.file)) = t.file
  <2>1. t.file \in Seq(Byte)
    BY <1>3, PutSizes
  <2>2. SubSeq(t.file, 1, Len(t.file)) = t.file
    BY <2>1
  <2>. QED
    BY <2>2
<1>8. PutQueue(t) = FileBits(t.file) \o LowBits(0, 0) /\ PutQueue(t) \in Seq({0, 1})
      /\ Len(PutQueue(t)) = Len(t.file) * ByteBits
  <2>1. PutSize(t) = Len(t.file) * ByteBits
    BY <1>3, PutSizes DEF PutSize, BitsInFile
  <2>. QED
    BY <1>3, <2>1, PutQueueIs
<1>9. LowBits(0, 0) = << >>
  <2>1. LowBits(0, 0) = [x \in 1 .. 0 |-> BitOf(0, 0 - x)]
    BY DEF LowBits
  <2>2. 1 .. 0 = {}
    OBVIOUS
  <2>. QED
    BY <2>1, <2>2
<1>10. FileBits(t.file) \in Seq({0, 1})
  <2>. DEFINE z == Len(t.file) * ByteBits
              f == FileBits(t.file)
  <2>1. t.file \in Seq(Byte) /\ z \in Nat
    BY <1>3, PutSizes DEF BitsInFile
  <2>2. \A x \in 1 .. z : x - 1 \in 0 .. z - 1
    <3>. HIDE DEF z
    <3>. QED
      BY <2>1
  <2>3. \A n \in 0 .. z - 1 : FileBit(t.file, n) \in {0, 1}
    BY <2>1, FileBitRange
  <2>4. f = [x \in 1 .. z |-> FileBit(t.file, x - 1)]
    BY DEF FileBits, ArrayBits
  <2>. HIDE DEF z, f
  <2>5. f \in [1 .. z -> {0, 1}]
    BY <2>2, <2>3, <2>4
  <2>6. f \in Seq({0, 1})
    BY <2>1, <2>5
  <2>. QED
    BY <2>6 DEF f
<1>11. Contents' = PutQueue(t)
  <2>. DEFINE f == FileBits(t.file)
  <2>1. f \in Seq({0, 1})
    BY <1>10
  <2>. HIDE DEF f
  <2>2. << >> \o f = f /\ f \o << >> = f
    BY <2>1
  <2>. QED
    BY <1>6, <1>7, <1>8, <1>9, <2>2 DEF f
<1>12. Taken' = 0
  <2>1. 0 * ByteBits - 0 = 0
    BY ByteRange
  <2>. QED
    BY <1>2, <1>4, <2>1 DEF Taken
<1>13. Contents' = Contents \o [x \in 1 .. Queue!Filling |-> 0]
  BY <1>1, <1>3, <1>11 DEF Queue!Filling
<1>14. Queue!Close
  BY <1>1, <1>2, <1>12, <1>13
     DEF Queue!Close, NoBits, IoCall, Queue!NoBits, Queue!Call
<1>. QED
  BY <1>5, <1>14

(* A call that gets bits takes them out of the queue.                        *)
LEMMA GetIsGet ==
  ASSUME UseInv, NEW k \in Nat, NEW after, NEW bits, Get(k, after, bits),
         NEW g, Reading(stream) => GotTo(stream, k, g),
         after.ok = g.ok, Returned(after) = Returned(g),
         Reading(stream) /\ after.ok => bits = NextBits(stream, k)
  PROVE  UseInv' /\ (Queue!EndOfFile \/ \E n \in 0 .. Len(Contents) : Queue!Get(n))
<1>1. /\ openMode = "BF_READ" /\ stream' = Returned(g) /\ openMode' = openMode
      /\ io' = IoCall(k, IF after.ok THEN bits ELSE << >>)
  BY DEF Get
<1>2. /\ Contents = GetQueue(stream) /\ Taken = GetPos(stream)
      /\ Reading(stream) /\ Len(Contents) = Left(stream) /\ Left(stream) \in Nat
      /\ GetPos(stream) \in Nat /\ BitsInFile(stream) = GetPos(stream) + Left(stream)
      /\ Contents \in Seq({0, 1})
  BY <1>1, ReadQueue
<1>3. GotTo(stream, k, g)
  BY <1>2
<1>4. Moved(stream, g)
  <2>1. CASE GetPos(stream) + k <= BitsInFile(stream)
    <3>1. Gets(stream, g, k)
      BY <1>3, <2>1 DEF GotTo
    <3>2. GetPos(stream) <= GetPos(stream) + k
      BY <1>2
    <3>. QED
      BY <3>1, <3>2 DEF Gets, Moved
  <2>2. CASE ~ (GetPos(stream) + k <= BitsInFile(stream))
    BY <1>3, <2>2 DEF GotTo
  <2>. QED
    BY <2>1, <2>2
<1>5. Reading(g) /\ g \in Streams /\ g.room = stream.room
  BY <1>4 DEF Moved, Reading
<1>6. /\ Reading(stream') /\ stream' \in Streams /\ stream'.room = stream.room
      /\ GetQueue(stream') = GetQueue(g) /\ GetPos(stream') = GetPos(g)
  BY <1>1, <1>5, ReturnedSame
<1>7. UseInv'
  BY <1>1, <1>6 DEF UseInv
<1>8. Contents' = GetQueue(stream') /\ Taken' = GetPos(stream')
  <2>1. GetQueue(stream') = LowBits(stream'.bitBuffer, stream'.bitCount)
              \o FileBits(SubSeq(stream'.file, stream'.pos + 1, Len(stream'.file)))
    BY <1>6, GetQueueIs
  <2>. QED
    BY <1>1, <2>1 DEF Contents, Waiting, Taken, GetPos
<1>. DEFINE m == GetPos(g) - GetPos(stream)
<1>9. /\ m \in 0 .. Len(Contents)
      /\ Contents' = SubSeq(Contents, m + 1, Len(Contents))
      /\ Taken' = Taken + m
  <2>1. /\ m \in 0 .. Len(GetQueue(stream))
        /\ GetQueue(g) = SubSeq(GetQueue(stream), m + 1, Len(GetQueue(stream)))
    BY <1>2, <1>4, QueueTaken
  <2>2. GetPos(g) \in Nat
    BY <1>5, GetSizes
  <2>3. GetPos(g) = GetPos(stream) + m
    BY <1>2, <2>2
  <2>. QED
    BY <1>2, <1>6, <1>8, <2>1, <2>3
<1>10. Queue!Take(m)
  BY <1>2, <1>9 DEF Queue!Take
<1>11. CASE GetPos(stream) + k <= BitsInFile(stream)
  <2>1. Gets(stream, g, k)
    BY <1>3, <1>11 DEF GotTo
  <2>2. g.ok /\ GetPos(g) = GetPos(stream) + k
    BY <2>1 DEF Gets
  <2>3. m = k
    BY <1>2, <2>2
  <2>4. k \in 0 .. Left(stream)
    BY <1>2, <1>11
  <2>5. bits = SubSeq(Contents, 1, k)
    BY <1>2, <2>2, <2>4, QueueGot
  <2>6. io' = Queue!Call(k, SubSeq(Contents, 1, k))
    BY <1>1, <2>2, <2>5 DEF IoCall, Queue!Call
  <2>7. Queue!Get(k)
    BY <1>1, <1>10, <2>3, <2>6 DEF Queue!Get
  <2>. QED
    BY <1>2, <1>7, <2>4, <2>7
<1>12. CASE ~ (GetPos(stream) + k <= BitsInFile(stream))
  <2>1. ~ g.ok
    BY <1>3, <1>12 DEF GotTo
  <2>2. io' = Queue!Call(k, << >>)
    BY <1>1, <2>1 DEF IoCall, Queue!Call
  <2>3. io'.asked = k
    BY <2>2 DEF Queue!Call
  <2>4. k > Len(Contents)
    BY <1>2, <1>12
  <2>5. \E n \in 0 .. Len(Contents) : Queue!Take(n)
    BY <1>9, <1>10
  <2>6. Queue!EndOfFile
    BY <1>1, <2>2, <2>3, <2>4, <2>5 DEF Queue!EndOfFile
  <2>. QED
    BY <1>7, <2>6
<1>. QED
  BY <1>11, <1>12

(* The calls that get bits.                                                  *)
LEMMA BitIsGot ==
  ASSUME UseInv, GetNextBit
  PROVE  UseInv' /\ (Queue!EndOfFile \/ \E n \in 0 .. Len(Contents) : Queue!Get(n))
<1>. DEFINE g == GetBit(stream)
            bits == <<g.val>>
<1>1. Get(1, g, bits)
  BY DEF GetNextBit
<1>2. Reading(stream) => GotTo(stream, 1, g)
  BY GetBitGets DEF GotTo
<1>3. ASSUME Reading(stream), g.ok PROVE bits = NextBits(stream, 1)
  <2>. DEFINE f == NextBits(stream, 1)
  <2>1. g.val = FileBit(stream.file, GetPos(stream))
    BY <1>3, GetBitGets
  <2>2. GetPos(stream) \in Nat
    BY <1>3, GetSizes
  <2>3. f = [x \in 1 .. 1 |-> FileBit(stream.file, GetPos(stream) + (x - 1))]
    BY DEF NextBits
  <2>4. \A x \in 1 .. 1 : GetPos(stream) + (x - 1) = GetPos(stream)
    BY <2>2
  <2>. HIDE DEF g, f
  <2>5. f = [x \in 1 .. 1 |-> g.val]
    BY <2>1, <2>3, <2>4
  <2>6. f = <<g.val>>
    BY <2>5
  <2>. QED
    BY <2>6 DEF f
<1>. HIDE DEF g, bits
<1>4. Reading(stream) /\ g.ok => bits = NextBits(stream, 1)
  BY <1>3
<1>5. 1 \in Nat
  OBVIOUS
<1>. QED
  BY <1>1, <1>2, <1>4, <1>5, GetIsGet

LEMMA CharIsGot ==
  ASSUME UseInv, GetNextChar
  PROVE  UseInv' /\ (Queue!EndOfFile \/ \E n \in 0 .. Len(Contents) : Queue!Get(n))
<1>. DEFINE d == ByteBits
            g == GetChar(stream)
            bits == LowBits(g.val, d)
<1>1. Get(d, g, bits)
  BY DEF GetNextChar
<1>2. Reading(stream) => GotTo(stream, d, g)
  BY GetCharGets DEF GotTo
<1>3. ASSUME Reading(stream), g.ok PROVE bits = NextBits(stream, d)
  <2>1. \A j \in 0 .. d - 1 : BitOf(g.val, d - 1 - j) = FileBit(stream.file, GetPos(stream) + j)
    BY <1>3, GetCharGets
  <2>2. d \in Nat
    BY ByteRange
  <2>. HIDE DEF g, d
  <2>3. ASSUME NEW x \in 1 .. d
        PROVE  BitOf(g.val, d - x) = FileBit(stream.file, GetPos(stream) + (x - 1))
    <3>1. x - 1 \in 0 .. d - 1 /\ d - 1 - (x - 1) = d - x
      BY <2>2
    <3>. QED
      BY <2>1, <3>1
  <2>. QED
    BY <2>3 DEF LowBits, NextBits
<1>. HIDE DEF g, bits
<1>4. Reading(stream) /\ g.ok => bits = NextBits(stream, d)
  BY <1>3
<1>5. d \in Nat
  BY ByteRange
<1>. QED
  BY <1>1, <1>2, <1>4, <1>5, GetIsGet

LEMMA NumIsGot ==
  ASSUME UseInv, GetNextNum
  PROVE  UseInv' /\ (Queue!EndOfFile \/ \E n \in 0 .. Len(Contents) : Queue!Get(n))
<1>1. PICK k \in Counts : Get(k, GetBitsNum(k, stream), NumBits(GetBitsNum(k, stream).val, k))
  BY DEF GetNextNum
<1>2. k \in Nat
  BY UseAssumption
<1>. DEFINE g == GetBitsNum(k, stream)
            bits == NumBits(g.val, k)
<1>3. Reading(stream) => GotTo(stream, k, g) /\ (g.ok => bits = NextBits(stream, k))
  BY <1>2, NumBitsGot
<1>. HIDE DEF g, bits
<1>4. Get(k, g, bits)
  BY <1>1 DEF g, bits
<1>. QED
  BY <1>2, <1>3, <1>4, GetIsGet

LEMMA ArrayIsGot ==
  ASSUME UseInv, GetNextBits
  PROVE  UseInv' /\ (Queue!EndOfFile \/ \E n \in 0 .. Len(Contents) : Queue!Get(n))
<1>1. PICK k \in Counts : Get(k, GetBits(k, stream), ArrayBits(GetBits(k, stream).val, k))
  BY DEF GetNextBits
<1>2. k \in Nat
  BY UseAssumption
<1>3. Reading(stream)
  BY <1>1, ReadQueue DEF Get
<1>. DEFINE t == GetBits(k, stream)
            bits == ArrayBits(t.val, k)
<1>4. \E g : /\ GotTo(stream, k, g) /\ t.ok = g.ok /\ Returned(t) = Returned(g)
             /\ t.ok => bits = NextBits(stream, k)
  BY <1>2, <1>3, ArrayBitsGot
<1>5. Get(k, t, bits)
  BY <1>1
<1>. HIDE DEF t, bits
<1>6. PICK g : /\ GotTo(stream, k, g) /\ t.ok = g.ok /\ Returned(t) = Returned(g)
               /\ t.ok => bits = NextBits(stream, k)
  BY <1>4
<1>. QED
  BY <1>2, <1>5, <1>6, GetIsGet

(* Dropping the buffer takes what is left of a byte.                         *)
LEMMA DropIsSkip ==
  ASSUME UseInv, DropBuffer
  PROVE  UseInv' /\ Queue!SkipToByte
<1>. DEFINE d == ByteBits
            w == stream.bitCount
            p == stream.pos
            u == Emptied(stream)
            n == (d - (Taken % d)) % d
<1>1. openMode = "BF_READ" /\ stream' = u /\ openMode' = openMode /\ io' = NoBits
  BY DEF DropBuffer
<1>2. /\ Contents = GetQueue(stream) /\ Taken = GetPos(stream)
      /\ Reading(stream) /\ Len(Contents) = Left(stream) /\ Left(stream) \in Nat
  BY <1>1, ReadQueue
<1>3. /\ d \in Nat \ {0} /\ w \in 0 .. d - 1 /\ p \in Nat /\ p * d \in Nat
      /\ w # 0 => p \in Nat \ {0}
      /\ GetPos(stream) \in Nat /\ GetPos(stream) = p * d - w
  BY <1>2, GetSizes, ByteRange DEF GetPos
<1>4. /\ Reading(u) /\ u.file = stream.file /\ u.room = stream.room
      /\ GetPos(u) = p * d
  <2>1. /\ u.file = stream.file /\ u.room = stream.room /\ u.pos = p
        /\ u.bitCount = 0
    BY <1>2 DEF Emptied, Reading, Streams, StreamsUpTo
  <2>2. u \in Streams
    <3>1. 0 \in 0 .. d - 1 /\ 0 \in Nat
      BY <1>3
    <3>. QED
      BY <1>2, <3>1 DEF Emptied, Reading, Streams, StreamsUpTo
  <2>3. p <= Len(stream.file)
    BY <1>2 DEF Reading
  <2>4. p * d - 0 = p * d
    BY <1>3
  <2>. HIDE DEF u
  <2>. QED
    BY <2>1, <2>2, <2>3, <2>4 DEF Reading, GetPos
<1>. HIDE DEF u
<1>5. GetPos(u) - GetPos(stream) = w /\ GetPos(stream) <= GetPos(u)
  BY <1>3, <1>4
<1>6. n = w
  <2>1. CASE w = 0
    <3>1. Taken = p * d + 0
      BY <1>2, <1>3, <2>1
    <3>2. (p * ByteBits + 0) % ByteBits = 0
      <4>1. 0 \in 0 .. ByteBits - 1
        BY <1>3
      <4>. QED
        BY <1>3, <4>1, BitPlace
    <3>3. Taken % d = 0
      BY <3>1, <3>2
    <3>4. d - 0 = d /\ d % d = 0
      BY <1>3
    <3>. QED
      BY <2>1, <3>3, <3>4
  <2>2. CASE w # 0
    <3>. DEFINE r == p - 1
                j == d - w
    <3>1. r \in Nat /\ j \in 0 .. d - 1 /\ Taken = r * d + j /\ j \in Nat
      <4>1. /\ d \in Nat /\ w \in 1 .. d - 1 /\ p \in Nat \ {0} /\ p * d \in Nat
            /\ Taken = p * d - w
        BY <1>2, <1>3, <2>2
      <4>. HIDE DEF d, w, p
      <4>2. r \in Nat /\ j \in 0 .. d - 1 /\ j \in Nat
        BY <4>1
      <4>3. r * d = p * d - d
        BY <4>1
      <4>. QED
        BY <4>1, <4>2, <4>3
    <3>. HIDE DEF r, j
    <3>2. (r * ByteBits + j) % ByteBits = j
      BY <3>1, BitPlace
    <3>3. Taken % d = j
      BY <3>1, <3>2
    <3>4. d - j = w /\ w % d = w
      <4>. HIDE DEF d, w
      <4>1. d \in Nat \ {0} /\ w \in 0 .. d - 1
        BY <1>3
      <4>. QED
        BY <4>1 DEF j
    <3>. QED
      BY <3>3, <3>4
  <2>. QED
    BY <2>1, <2>2
<1>7. Moved(stream, u)
  BY <1>4, <1>5 DEF Moved
<1>8. UseInv'
  BY <1>1, <1>4 DEF UseInv, Reading
<1>9. Contents' = GetQueue(u) /\ Taken' = GetPos(u)
  <2>1. GetQueue(u) = LowBits(u.bitBuffer, u.bitCount)
              \o FileBits(SubSeq(u.file, u.pos + 1, Len(u.file)))
    BY <1>4, GetQueueIs
  <2>. QED
    BY <1>1, <2>1 DEF Contents, Waiting, Taken, GetPos
<1>10. /\ w \in 0 .. Len(GetQueue(stream))
       /\ GetQueue(u) = SubSeq(GetQueue(stream), w + 1, Len(GetQueue(stream)))
  BY <1>2, <1>5, <1>7, QueueTaken
<1>11. Taken' = Taken + w
  BY <1>2, <1>3, <1>4, <1>9
<1>12. w <= Len(Contents)
  BY <1>2, <1>10
<1>. HIDE DEF w
<1>13. Queue!Take(w)
  BY <1>2, <1>9, <1>10, <1>11, <1>12 DEF Queue!Take
<1>14. Queue!SkipToByte
  BY <1>1, <1>6, <1>13 DEF Queue!SkipToByte, NoBits, IoCall, Queue!NoBits, Queue!Call
<1>. QED
  BY <1>8, <1>14

(* Every call is a step of the queue.                                        *)
LEMMA QueueStep ==
  ASSUME UseInv, [UseNext]_useVars
  PROVE  UseInv' /\ [Queue!Next]_(Queue!vars)
<1>1. CASE UNCHANGED useVars
  <2>1. stream' = stream /\ openMode' = openMode /\ io' = io
    BY <1>1 DEF useVars
  <2>2. UseInv'
    BY <2>1 DEF UseInv
  <2>3. Contents' = Contents /\ Taken' = Taken
    BY <2>1 DEF Contents, Waiting, Taken
  <2>. QED
    BY <2>1, <2>2, <2>3 DEF Queue!vars
<1>2. CASE PutSomeBit
  BY <1>2, BitIsPut DEF Queue!Next
<1>3. CASE PutSomeChar
  BY <1>3, CharIsPut DEF Queue!Next
<1>4. CASE PutSomeNum
  <2>1. PICK n \in Counts : \E v \in 0 .. 2 ^ n - 1 :
               Put(PutBitsNum(v, n, stream), NumBits(v, n))
    BY <1>4 DEF PutSomeNum
  <2>2. PICK v \in 0 .. 2 ^ n - 1 : Put(PutBitsNum(v, n, stream), NumBits(v, n))
    BY <2>1
  <2>3. n \in Nat /\ v \in Nat
    BY <2>2, UseAssumption
  <2>. QED
    BY <2>2, <2>3, NumIsPut DEF Queue!Next
<1>5. CASE PutSomeBits
  BY <1>5, ArrayIsPut DEF Queue!Next
<1>6. CASE \E fill \in {0, 1} : Align(fill)
  <2>1. PICK fill \in {0, 1} : Align(fill)
    BY <1>6
  <2>2. UseInv' /\ Queue!Align(fill)
    BY <2>1, AlignIsAlign
  <2>. QED
    BY <2>2 DEF Queue!Next, Queue!Bits
<1>7. CASE Close
  BY <1>7, CloseIsClose DEF Queue!Next
<1>8. CASE GetNextBit
  BY <1>8, BitIsGot DEF Queue!Next
<1>9. CASE GetNextChar
  BY <1>9, CharIsGot DEF Queue!Next
<1>10. CASE GetNextNum
  BY <1>10, NumIsGot DEF Queue!Next
<1>11. CASE GetNextBits
  BY <1>11, ArrayIsGot DEF Queue!Next
<1>12. CASE DropBuffer
  BY <1>12, DropIsSkip DEF Queue!Next
<1>. QED
  BY <1>1, <1>2, <1>3, <1>4, <1>5, <1>6, <1>7, <1>8, <1>9, <1>10, <1>11, <1>12 DEF UseNext

(* The empty file is the empty queue.                                        *)
LEMMA QueueInit ==
  ASSUME UseInit
  PROVE  UseInv /\ Queue!Init
<1>1. /\ stream = MakeBitFile(<< >>, MaxBits) /\ openMode = "BF_WRITE" /\ io = NoBits
  BY DEF UseInit
<1>2. MaxBits \in Nat /\ ByteBits \in Nat \ {0} /\ 0 \in 0 .. ByteBits - 1
      /\ 0 * ByteBits = 0 /\ MaxBits * ByteBits \in Nat
  BY UseAssumption, ByteRange
<1>3. stream \in Streams
  BY <1>1, <1>2 DEF MakeBitFile, Streams, StreamsUpTo
<1>4. /\ stream.room = MaxBits /\ stream.file = << >> /\ stream.bitCount = 0
  BY <1>1 DEF MakeBitFile
<1>5. PutSize(stream) = 0
  BY <1>2, <1>4 DEF PutSize, BitsInFile
<1>6. HasRoom(stream, 0)
  BY <1>2, <1>4, <1>5 DEF HasRoom
<1>7. UseInv
  BY <1>1, <1>3, <1>4, <1>6 DEF UseInv
<1>8. Contents \in Seq({0, 1}) /\ Len(Contents) = 0 /\ Taken = 0
  BY <1>1, <1>5, <1>7, WrittenQueue
<1>9. Contents = << >>
  <2>. DEFINE c == Contents
  <2>1. c \in Seq({0, 1}) /\ Len(c) = 0
    BY <1>8
  <2>. HIDE DEF c
  <2>2. c = << >>
    BY <2>1
  <2>. QED
    BY <2>2 DEF c
<1>10. Queue!Init
  BY <1>1, <1>8, <1>9 DEF Queue!Init, NoBits, IoCall, Queue!NoBits, Queue!Call
<1>. QED
  BY <1>7, <1>10

(* Whatever calls are made in whatever order, with whatever portions and     *)
(* however large the file, the bits that bitfile.cpp takes out of the file   *)
(* are those that it put into it, in the same order: none is lost or doubled *)
(* at the boundary of a byte, and none is left over from another call.       *)
THEOREM BitsComeBack == UseSpec => StreamIsQueue
<1>1. UseInit => UseInv /\ Queue!Init
  BY QueueInit
<1>2. UseInv /\ [UseNext]_useVars => UseInv' /\ [Queue!Next]_(Queue!vars)
  BY QueueStep
<1>. QED
  BY <1>1, <1>2, PTL DEF UseSpec, StreamIsQueue, Queue!Spec
===============================================================================
