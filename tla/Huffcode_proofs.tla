---------------------------- MODULE Huffcode_proofs ----------------------------
(***************************************************************************)
(* Proofs about run_huffman, for every number of threads, every width of a *)
(* byte, every file and every code table.                                  *)
(*                                                                         *)
(* The number of bits that codes take is a cardinality, that of a set of   *)
(* pairs of a position and a bit.  The inductive invariant Inv says that   *)
(* get_out_size has counted the bits of the positions it has passed        *)
(* (SizingInv), that the slots up to m tile the buffer up to the sum       *)
(* (PrefixInv), and that do_encode has put the bits of the positions it    *)
(* has passed and a part of the current code (EncodingInv).  Both counts   *)
(* are of the same positions if the two cuts agree.  ReadInv says which    *)
(* part of the file is in memory.                                          *)
(*                                                                         *)
(* If the cuts agree (Decodable), the buffer holds what belongs there: the *)
(* bytes that a thread has stored are those of the reference and the byte  *)
(* it is filling holds the next bits (PackingInv).  A decoding thread then *)
(* stands on the way to the leaf of its next symbol, it has used the bits  *)
(* that were walked from bytes of its own slot, and the output is the part *)
(* of the file that the threads have passed (DecInv).                      *)
(*                                                                         *)
(* The sequential version has the invariant of SeqCodec_proofs, which is   *)
(* instantiated (P) with the driver's variables; SequentialInv ties it to  *)
(* the driver.                                                             *)
(***************************************************************************)
EXTENDS Huffcode, OperatorLemmas

(* The bits that the symbols at a set of positions take: pairs of a position *)
(* and the number of a bit in the code of the symbol there.                  *)
BitsOf(c, d, S) == UNION {{x} \X (1 .. Len(c[d[x]])) : x \in S}

(* The positions that get_out_size hands to a thread.                        *)
StaticPart(t) == StaticStart(size, NumThreads, t) .. StaticEnd(size, NumThreads, t) - 1

(* The symbols at these positions take n bits.                               *)
Counts(c, d, n, S) ==
  IsFiniteSet(BitsOf(c, d, S)) /\ n = Cardinality(BitsOf(c, d, S))

(* The size of the thread's chunk is known.                                  *)
Measured(t) ==
  /\ Counts(code, data, cnt[t], StaticPart(t))
  /\ bytes[t] = Enc!BytesFor(cnt[t])

(* get_out_size: cnt is the number of bits of the positions passed so far.   *)
SizingInv ==
  IF encMain = "size"
  THEN \A t \in Threads :
         /\ StaticStart(size, NumThreads, t) <= k[t]
         /\ k[t] <= StaticEnd(size, NumThreads, t)
         /\ Counts(code, data, cnt[t], StaticStart(size, NumThreads, t) .. k[t] - 1)
         /\ encPc[t] \in {"run", "end"}
         /\ encPc[t] = "end" => Measured(t)
  ELSE \A t \in Threads : Measured(t)

(* The prefix loop: the slots up to m lie one behind the other from 0 on,    *)
(* without a gap.                                                            *)
PrefixInv ==
  /\ encMain = "size" => m = 0
  /\ encMain \in {"encode", "done"} => m = NumThreads - 1
  /\ encOffset[0] = 0
  /\ sum = encOffset[m]
  /\ \A u \in 1 .. m : \A t \in 0 .. u - 1 : encOffset[t] + bytes[t] <= encOffset[u]
  /\ \A a \in 0 .. sum - 1 : \E t \in 0 .. m - 1 : a \in Enc!Slot(t)

(* do_encode: the bits put so far are those of the positions passed so far   *)
(* and the first b of the current one.                                       *)
Put(t) == (encPos[t] - encOffset[t]) * ByteBits + bit[t]

Encoding(t) ==
  /\ ChunkStart(size, NumThreads, t) <= k[t]
  /\ k[t] <= ChunkEnd(size, NumThreads, t) \/ k[t] = ChunkStart(size, NumThreads, t)
  /\ encOffset[t] <= encPos[t]
  /\ IF Enc!HasSymbol(t) THEN b[t] <= Len(code[data[k[t]]]) ELSE b[t] = 0
  /\ \E n \in Nat : /\ Counts(code, data, n, ChunkStart(size, NumThreads, t) .. k[t] - 1)
                    /\ Put(t) = n + b[t]

EncodingInv ==
  \A t \in Threads :
    /\ encMain \in {"size", "prefix"} \/ encPc[t] = "begin" => b[t] = 0 /\ bit[t] = 0
    /\ encMain = "encode" /\ encPc[t] = "run" => Encoding(t)

EncInv == Enc!TypeOK /\ SizingInv /\ PrefixInv /\ EncodingInv

-------------------------------------------------------------------------------
(* Bits as pairs. *)

(* Dividing by the bits of a byte, rounded up. *)
LEMMA EnoughBytes ==
  ASSUME NEW n \in Nat
  PROVE  /\ Enc!BytesFor(n) \in Nat
         /\ \A q, r \in Nat : q * ByteBits + r < n => q < Enc!BytesFor(n)
<1>1. ByteBits \in Nat \ {0}
  BY WidthAssumption
<1>2. Enc!BytesFor(n) = UPDIV(n, ByteBits)
  BY DEF Enc!BytesFor, Enc!UPDIV, UPDIV
<1>. QED
  BY <1>1, <1>2, UPDIVRoundsUp, BitHasByte

(* No positions, no bits. *)
LEMMA NoBits ==
  ASSUME NEW c, NEW d, NEW S, S = {}
  PROVE  Counts(c, d, 0, S)
<1>1. BitsOf(c, d, S) = {}
  BY DEF BitsOf
<1>. QED
  BY <1>1, FS_EmptySet DEF Counts

(* The bits of one more position. *)
LEMMA MoreBits ==
  ASSUME NEW c, NEW d, NEW lo \in Nat, NEW x \in Nat, lo <= x, NEW n \in Nat,
         Counts(c, d, n, lo .. x - 1), Len(c[d[x]]) \in Nat
  PROVE  Counts(c, d, n + Len(c[d[x]]), lo .. x)
<1>. DEFINE l == Len(c[d[x]])
            A == BitsOf(c, d, lo .. x - 1)
            C == {x} \X (1 .. l)
<1>1. lo .. x = (lo .. x - 1) \cup {x}
  OBVIOUS
<1>2. BitsOf(c, d, lo .. x) = A \cup C
  BY <1>1 DEF BitsOf
<1>3. A \cap C = {}
  <2>. SUFFICES ASSUME NEW e \in A, e \in C PROVE FALSE
    OBVIOUS
  <2>1. PICK y \in lo .. x - 1 : e \in {y} \X (1 .. Len(c[d[y]]))
    BY DEF BitsOf
  <2>2. e[1] = y /\ e[1] = x
    BY <2>1
  <2>. QED
    BY <2>2
<1>4. IsFiniteSet(C) /\ Cardinality(C) = l
  <2>. HIDE DEF l
  <2>0. l \in Nat /\ l \in Int /\ 1 \in Int
    BY DEF l
  <2>1. IsFiniteSet({x}) /\ Cardinality({x}) = 1
    BY FS_Singleton
  <2>2. IsFiniteSet(1 .. l) /\ Cardinality(1 .. l) = IF 1 > l THEN 0 ELSE l - 1 + 1
    BY <2>0, FS_Interval, Zenon
  <2>3. Cardinality(1 .. l) = l
    BY <2>0, <2>2
  <2>4. IsFiniteSet(C) /\ Cardinality(C) = Cardinality({x}) * Cardinality(1 .. l)
    BY <2>1, <2>2, FS_Product
  <2>. QED
    BY <2>0, <2>1, <2>3, <2>4
<1>5. IsFiniteSet(A) /\ Cardinality(A) = n
  BY DEF Counts
<1>. HIDE DEF A, C, l
<1>6. l \in Nat
  BY DEF l
<1>7. IsFiniteSet(A \cup C) /\ Cardinality(A \cup C) = n + l - 0
  <2>1. Cardinality(A \cap C) = 0
    BY <1>3, FS_EmptySet
  <2>2. /\ IsFiniteSet(A \cup C)
        /\ Cardinality(A \cup C) = Cardinality(A) + Cardinality(C) - Cardinality(A \cap C)
    BY <1>4, <1>5, FS_Union, Zenon
  <2>. QED
    BY <1>4, <1>5, <2>1, <2>2
<1>8. n \in Nat
  BY <1>5, FS_CardinalityType
<1>9. Cardinality(A \cup C) = n + l
  BY <1>6, <1>7, <1>8
<1>. QED
  BY <1>2, <1>7, <1>9 DEF Counts, l

(* Fewer positions take no more bits. *)
LEMMA FewerBits ==
  ASSUME NEW c, NEW d, NEW S, NEW T, S \subseteq T, NEW n, NEW l,
         Counts(c, d, n, S), Counts(c, d, l, T)
  PROVE  n \in Nat /\ l \in Nat /\ n <= l
<1>1. BitsOf(c, d, S) \subseteq BitsOf(c, d, T)
  BY DEF BitsOf
<1>. QED
  BY <1>1, FS_Subset, FS_CardinalityType DEF Counts
-------------------------------------------------------------------------------
(* The bounds of the loops. *)

(* The cuts of the encoder are those of the driver. *)
LEMMA SameCuts ==
  ASSUME NEW n, NEW q, NEW t
  PROVE  /\ Enc!StaticStart(n, q, t) = StaticStart(n, q, t)
         /\ Enc!StaticEnd(n, q, t) = StaticEnd(n, q, t)
         /\ Enc!ChunkStart(n, q, t) = ChunkStart(n, q, t)
         /\ Enc!ChunkEnd(n, q, t) = ChunkEnd(n, q, t)
BY DEF Enc!StaticStart, StaticStart, Enc!StaticEnd, StaticEnd, Enc!ChunkStart,
       ChunkStart, Enc!ChunkEnd, ChunkEnd, Enc!UPDIV, UPDIV, Enc!Least, Least

(* The piece of schedule(static) lies inside the file. *)
LEMMA StaticBounds ==
  ASSUME NEW n \in Nat, NEW q \in Nat \ {0}, NEW t \in 0 .. q - 1
  PROVE  /\ StaticStart(n, q, t) \in Nat
         /\ StaticEnd(n, q, t) \in Nat
         /\ StaticStart(n, q, t) <= StaticEnd(n, q, t)
         /\ StaticEnd(n, q, t) <= n
<1>. DEFINE d == n \div q
            r == n % q
            a == d * t
            e == q * d
<1>1. d \in Nat /\ r \in 0 .. q - 1 /\ n = e + r
  BY Division
<1>2. /\ a \in Nat
      /\ a + d <= e
      /\ StaticStart(n, q, t) = a + Least(t, r)
      /\ StaticEnd(n, q, t) = a + d + Least(t + 1, r)
  BY CutBounds
<1>. HIDE DEF d, r, a, e
<1>3. e \in Nat
  <2>1. q * d \in Nat
    BY <1>1, SMT
  <2>. QED
    BY <2>1 DEF e
<1>. QED
  BY <1>1, <1>2, <1>3 DEF Least

(* What the types say of the input. *)
LEMMA InputBounds ==
  ASSUME Enc!TypeOK
  PROVE  /\ size \in Nat
         /\ NumThreads \in Nat \ {0}
         /\ ByteBits \in Nat \ {0}
         /\ \A x \in Nat : x < size => /\ Len(code[data[x]]) \in Nat
                                      /\ code[data[x]] \in Seq({0, 1})
<1>1. size \in Nat
  BY SizesAssumption DEF Enc!TypeOK
<1>2. NumThreads \in Nat \ {0} /\ ByteBits \in Nat \ {0}
  BY NumThreadsAssumption, WidthAssumption
<1>3. ASSUME NEW x \in Nat, x < size
      PROVE  Len(code[data[x]]) \in Nat /\ code[data[x]] \in Seq({0, 1})
  <2>1. x \in 0 .. size - 1
    BY <1>1, <1>3
  <2>2. data[x] \in DOMAIN code
    BY <2>1 DEF Enc!TypeOK
  <2>3. code[data[x]] \in Seq({0, 1})
    BY <2>2, CodesAssumption DEF Enc!TypeOK
  <2>. QED
    BY <2>3
<1>. QED
  BY <1>1, <1>2, <1>3

(* What they say of the parts of a thread.                                   *)
LEMMA ThreadBounds ==
  ASSUME Enc!TypeOK, NEW t \in Threads
  PROVE  /\ StaticStart(size, NumThreads, t) \in Nat
         /\ StaticEnd(size, NumThreads, t) \in Nat
         /\ StaticStart(size, NumThreads, t) <= StaticEnd(size, NumThreads, t)
         /\ StaticEnd(size, NumThreads, t) <= size
         /\ ChunkStart(size, NumThreads, t) \in Nat
         /\ ChunkEnd(size, NumThreads, t) \in Nat
         /\ ChunkEnd(size, NumThreads, t) <= size
<1>1. t \in Nat /\ t \in 0 .. NumThreads - 1
  BY InputBounds DEF Threads
<1>. QED
  BY <1>1, InputBounds, StaticBounds, ChunkBounds

-------------------------------------------------------------------------------
(* The types of the encoder. *)

(* The types after a step of get_out_size ...                                *)
LEMMA SizingTypes ==
  ASSUME Enc!TypeOK, NEW t \in Threads,
         Enc!CountCode(t) \/ Enc!StoreBytes(t) \/ Enc!EndOfSizing
  PROVE  Enc!TypeOK'
<1>1. CASE Enc!CountCode(t)
  <2>1. k[t] \in Nat /\ k[t] < StaticEnd(size, NumThreads, t)
    BY <1>1, SameCuts DEF Enc!CountCode, Enc!TypeOK, Enc!Threads, Threads
  <2>2. k[t] < size
    BY <2>1, ThreadBounds, InputBounds
  <2>. DEFINE l == Len(code[data[k[t]]])
  <2>3. l \in Nat
    BY <2>1, <2>2, InputBounds
  <2>4. cnt[t] \in Nat /\ cnt' = [cnt EXCEPT ![t] = @ + l] /\ k' = [k EXCEPT ![t] = @ + 1]
    BY <1>1 DEF Enc!CountCode, Enc!TypeOK, Enc!Threads, Threads
  <2>. HIDE DEF l
  <2>5. cnt[t] + l \in Nat /\ k[t] + 1 \in Nat
    BY <2>1, <2>3, <2>4
  <2>6. cnt' \in [Threads -> Nat] /\ k' \in [Threads -> Nat]
    BY <2>4, <2>5 DEF Enc!TypeOK, Enc!Threads, Threads
  <2>. QED
    BY <1>1, <2>6
    DEF Enc!CountCode, Enc!TypeOK, Enc!input, Enc!encoding, Enc!Threads, Threads, Enc!Bytes
<1>2. CASE Enc!StoreBytes(t)
  <2>1. Enc!BytesFor(cnt[t]) \in Nat
    BY EnoughBytes DEF Enc!TypeOK, Enc!Threads, Threads
  <2>. QED
    BY <1>2, <2>1
    DEF Enc!StoreBytes, Enc!TypeOK, Enc!input, Enc!encoding, Enc!Threads, Enc!Bytes
<1>3. CASE Enc!EndOfSizing
  BY <1>3 DEF Enc!EndOfSizing, Enc!TypeOK, Enc!input, Enc!sizing, Enc!encoding,
              Enc!Threads, Enc!Bytes
<1>. QED
  BY <1>1, <1>2, <1>3

(* ... of the main thread in huffman_encode_parallel ...                     *)
LEMMA PrefixTypes ==
  ASSUME Enc!TypeOK, Enc!NextOffset \/ Enc!StartEncoding \/ Enc!EndOfEncoding
  PROVE  Enc!TypeOK'
<1>1. CASE Enc!NextOffset
  <2>1. m \in Threads /\ m < NumThreads - 1 /\ sum \in Nat /\ bytes[m] \in Nat
    BY <1>1 DEF Enc!NextOffset, Enc!TypeOK, Enc!Threads, Threads
  <2>2. m + 1 \in Threads /\ sum + bytes[m] \in Nat
    BY <2>1, InputBounds DEF Threads
  <2>. QED
    BY <1>1, <2>1, <2>2 DEF Enc!NextOffset, Enc!TypeOK, Enc!input, Enc!sizing, Enc!encoding,
                      Enc!Threads, Threads, Enc!Bytes
<1>2. CASE Enc!StartEncoding
  BY <1>2 DEF Enc!StartEncoding, Enc!TypeOK, Enc!input, Enc!sizing, Enc!encoding,
              Enc!Threads, Enc!Bytes
<1>3. CASE Enc!EndOfEncoding
  BY <1>3 DEF Enc!EndOfEncoding, Enc!TypeOK, Enc!input, Enc!sizing, Enc!encoding,
              Enc!Threads, Enc!Bytes
<1>. QED
  BY <1>1, <1>2, <1>3

(* A byte that is written, or or-ed into. *)
LEMMA StoreTypes ==
  ASSUME Enc!TypeOK, NEW a \in Nat, NEW v \in Enc!Bytes, Enc!Store(a, v)
  PROVE  (payload \in [DOMAIN payload -> Enc!Bytes] /\ DOMAIN payload \subseteq Nat)'
<1>1. DOMAIN payload' = DOMAIN payload \cup {a}
  BY DEF Enc!Store
<1>2. \A x \in DOMAIN payload' : payload'[x] \in Enc!Bytes
  BY DEF Enc!Store, Enc!TypeOK
<1>. QED
  BY <1>1, <1>2 DEF Enc!Store, Enc!TypeOK, Enc!Bytes

(* ... and of do_encode.                                                     *)
LEMMA EncodingTypes ==
  ASSUME Enc!TypeOK, NEW t \in Threads,
         \/ Enc!StoreOffset(t)
         \/ Enc!AddBit(t)
         \/ Enc!FillByte(t)
         \/ Enc!NextSymbol(t)
         \/ Enc!Flush(t)
  PROVE  Enc!TypeOK'
<1>1. /\ bit[t] \in 0 .. ByteBits - 1 /\ encPos[t] \in Nat /\ k[t] \in Nat
      /\ b[t] \in Nat /\ encByte[t] \in Enc!Bytes /\ encOffset[t] \in Nat
  BY DEF Enc!TypeOK, Enc!Threads, Threads
<1>2. Enc!WithNextBit(t) \in Enc!Bytes
  BY <1>1 DEF Enc!WithNextBit, Enc!Bytes
<1>3. ByteBits \in Nat \ {0}
  BY InputBounds
<1>4. CASE Enc!StoreOffset(t)
  <2>1. Enc!ChunkStart(size, NumThreads, t) \in Nat
    BY ThreadBounds, SameCuts
  <2>. QED
    BY <1>1, <1>4, <2>1
    DEF Enc!StoreOffset, Enc!TypeOK, Enc!input, Enc!sizing, Enc!Threads
<1>5. CASE Enc!AddBit(t)
  <2>1. bit[t] + 1 \in 0 .. ByteBits - 1 /\ b[t] + 1 \in Nat
    BY <1>1, <1>3, <1>5 DEF Enc!AddBit
  <2>2. /\ encByte' \in [Threads -> Enc!Bytes]
        /\ bit' \in [Threads -> 0 .. ByteBits - 1]
        /\ b' \in [Threads -> Nat]
    BY <1>2, <1>5, <2>1 DEF Enc!AddBit, Enc!TypeOK, Enc!Threads, Threads
  <2>. QED
    BY <1>5, <2>2
    DEF Enc!AddBit, Enc!TypeOK, Enc!input, Enc!sizing, Enc!Threads, Threads, Enc!Bytes
<1>6. CASE Enc!FillByte(t)
  <2>1. (payload \in [DOMAIN payload -> Enc!Bytes] /\ DOMAIN payload \subseteq Nat)'
    BY <1>1, <1>2, <1>6, StoreTypes DEF Enc!FillByte
  <2>2. {} \in Enc!Bytes /\ 0 \in 0 .. ByteBits - 1
    BY <1>3 DEF Enc!Bytes
  <2>3. encPos[t] + 1 \in Nat /\ b[t] + 1 \in Nat
    BY <1>1
  <2>4. /\ encByte' \in [Threads -> Enc!Bytes]
        /\ bit' \in [Threads -> 0 .. ByteBits - 1]
        /\ b' \in [Threads -> Nat]
        /\ encPos' \in [Threads -> Nat]
    BY <1>6, <2>2, <2>3 DEF Enc!FillByte, Enc!TypeOK, Enc!Threads, Threads
  <2>. QED
    BY <1>6, <2>1, <2>4
    DEF Enc!FillByte, Enc!TypeOK, Enc!input, Enc!sizing, Enc!Threads, Threads, Enc!Bytes
<1>7. CASE Enc!NextSymbol(t)
  <2>1. k[t] + 1 \in Nat
    BY <1>1
  <2>2. k' \in [Threads -> Nat] /\ b' \in [Threads -> Nat]
    BY <1>7, <2>1 DEF Enc!NextSymbol, Enc!TypeOK, Enc!Threads, Threads
  <2>. QED
    BY <1>7, <2>2
    DEF Enc!NextSymbol, Enc!TypeOK, Enc!input, Enc!sizing, Enc!Threads, Threads, Enc!Bytes
<1>8. CASE Enc!Flush(t)
  <2>1. (payload \in [DOMAIN payload -> Enc!Bytes] /\ DOMAIN payload \subseteq Nat)'
    BY <1>1, <1>8, StoreTypes DEF Enc!Flush, Enc!TypeOK
  <2>. QED
    BY <1>1, <1>8, <2>1 DEF Enc!Flush, Enc!TypeOK, Enc!input, Enc!sizing, Enc!Threads
<1>. QED
  BY <1>4, <1>5, <1>6, <1>7, <1>8

-------------------------------------------------------------------------------
(* The sizes. *)

(* A chunk that is measured stays so.                                        *)
LEMMA MeasuredStays ==
  ASSUME NEW t, Measured(t), UNCHANGED <<size, data, code, cnt, bytes>>
  PROVE  Measured(t)'
<1>1. StaticPart(t)' = StaticPart(t)
  BY DEF StaticPart
<1>2. Enc!BytesFor(cnt[t])' = Enc!BytesFor(cnt[t])
  OBVIOUS
<1>. QED
  BY <1>1, <1>2 DEF Measured

(* A thread adds the bits of one more symbol.                                *)
LEMMA CountCodeSizing ==
  ASSUME Enc!TypeOK, SizingInv, NEW t \in Threads, Enc!CountCode(t)
  PROVE  SizingInv'
<1>. DEFINE Passed(u) == StaticStart(size, NumThreads, u) .. k[u] - 1
<1>1. /\ encMain = "size" /\ encPc[t] = "run" /\ k[t] < StaticEnd(size, NumThreads, t)
      /\ cnt' = [cnt EXCEPT ![t] = @ + Len(code[data[k[t]]])]
      /\ k' = [k EXCEPT ![t] = @ + 1]
      /\ UNCHANGED <<size, data, code, encMain, encPc, bytes>>
  BY SameCuts DEF Enc!CountCode, Enc!input
<1>2. k \in [Threads -> Nat] /\ cnt \in [Threads -> Nat]
  BY DEF Enc!TypeOK, Enc!Threads, Threads
<1>3. SUFFICES ASSUME NEW u \in Threads
               PROVE  (/\ StaticStart(size, NumThreads, u) <= k[u]
                       /\ k[u] <= StaticEnd(size, NumThreads, u)
                       /\ Counts(code, data, cnt[u], Passed(u))
                       /\ encPc[u] \in {"run", "end"}
                       /\ encPc[u] = "end" => Measured(u))'
  BY <1>1 DEF SizingInv
<1>4. /\ StaticStart(size, NumThreads, u) <= k[u]
      /\ k[u] <= StaticEnd(size, NumThreads, u)
      /\ Counts(code, data, cnt[u], Passed(u))
      /\ encPc[u] \in {"run", "end"}
      /\ encPc[u] = "end" => Measured(u)
  BY <1>1 DEF SizingInv
<1>5. CASE u = t
  <2>. DEFINE lo == StaticStart(size, NumThreads, t)
              l == Len(code[data[k[t]]])
  <2>1. lo \in Nat /\ k[t] \in Nat /\ lo <= k[t] /\ k[t] < size /\ size \in Nat
        /\ StaticEnd(size, NumThreads, t) \in Nat
    BY <1>1, <1>2, <1>4, <1>5, ThreadBounds, InputBounds
  <2>2. l \in Nat /\ cnt[t] \in Nat
    BY <1>2, <2>1, InputBounds
  <2>3. Counts(code, data, cnt[t] + l, lo .. k[t])
    BY <1>4, <1>5, <2>1, <2>2, MoreBits
  <2>4. k'[t] = k[t] + 1 /\ cnt'[t] = cnt[t] + l
    BY <1>1, <1>2
  <2>5. k'[t] - 1 = k[t]
    BY <2>1, <2>4
  <2>6. Counts(code, data, cnt[u], Passed(u))'
    BY <1>1, <1>5, <2>3, <2>4, <2>5
  <2>. QED
    BY <1>1, <1>4, <1>5, <2>1, <2>4, <2>6
<1>6. CASE u # t
  <2>1. k'[u] = k[u] /\ cnt'[u] = cnt[u]
    BY <1>1, <1>2, <1>6
  <2>2. encPc[u] = "end" => Measured(u)'
    <3>1. StaticPart(u)' = StaticPart(u)
      BY <1>1 DEF StaticPart
    <3>2. Enc!BytesFor(cnt[u])' = Enc!BytesFor(cnt[u])
      BY <2>1
    <3>. QED
      BY <1>1, <1>4, <2>1, <3>1, <3>2 DEF Measured
  <2>. QED
    BY <1>1, <1>4, <2>1, <2>2
<1>. QED
  BY <1>5, <1>6

(* A thread has passed its part and stores the bytes for it.                 *)
LEMMA StoreBytesSizing ==
  ASSUME Enc!TypeOK, SizingInv, NEW t \in Threads, Enc!StoreBytes(t)
  PROVE  SizingInv'
<1>1. /\ encMain = "size" /\ encPc[t] = "run" /\ k[t] >= StaticEnd(size, NumThreads, t)
      /\ bytes' = [bytes EXCEPT ![t] = Enc!BytesFor(cnt[t])]
      /\ encPc' = [encPc EXCEPT ![t] = "end"]
      /\ UNCHANGED <<size, data, code, encMain, k, cnt>>
  BY SameCuts DEF Enc!StoreBytes, Enc!input
<1>2. /\ k \in [Threads -> Nat] /\ cnt \in [Threads -> Nat] /\ bytes \in [Threads -> Nat]
      /\ encPc \in [Threads -> {"begin", "run", "end"}]
  BY DEF Enc!TypeOK, Enc!Threads, Threads
<1>3. \A u \in Threads :
        /\ StaticStart(size, NumThreads, u) <= k[u]
        /\ k[u] <= StaticEnd(size, NumThreads, u)
        /\ Counts(code, data, cnt[u], StaticStart(size, NumThreads, u) .. k[u] - 1)
        /\ encPc[u] \in {"run", "end"}
        /\ encPc[u] = "end" => Measured(u)
  BY <1>1 DEF SizingInv
<1>4. k[t] = StaticEnd(size, NumThreads, t)
  BY <1>1, <1>2, <1>3, ThreadBounds
<1>5. Counts(code, data, cnt[t], StaticPart(t))
  BY <1>3, <1>4 DEF StaticPart
<1>6. ASSUME NEW u \in Threads, encPc'[u] = "end"
      PROVE  Measured(u)'
  <2>1. StaticPart(u)' = StaticPart(u) /\ Enc!BytesFor(cnt[u])' = Enc!BytesFor(cnt[u])
    BY <1>1 DEF StaticPart
  <2>2. CASE u = t
    BY <1>1, <1>2, <1>5, <2>1, <2>2 DEF Measured
  <2>3. CASE u # t
    <3>1. encPc[u] = "end" /\ bytes'[u] = bytes[u]
      BY <1>1, <1>2, <1>6, <2>3
    <3>. QED
      BY <1>1, <1>3, <2>1, <3>1 DEF Measured
  <2>. QED
    BY <2>2, <2>3
<1>7. \A u \in Threads : encPc'[u] \in {"run", "end"}
  BY <1>1, <1>2, <1>3
<1>. QED
  BY <1>1, <1>3, <1>6, <1>7 DEF SizingInv

(* No other step of the encoder touches the sizes once they are stored. *)
LEMMA SizingStep ==
  ASSUME Enc!TypeOK, SizingInv,
         (\E t \in Threads : Enc!Step(t)) \/ Enc!MainStep
  PROVE  SizingInv'
<1>1. ASSUME NEW t \in Threads, Enc!CountCode(t) PROVE SizingInv'
  BY <1>1, CountCodeSizing
<1>2. ASSUME NEW t \in Threads, Enc!StoreBytes(t) PROVE SizingInv'
  BY <1>2, StoreBytesSizing
<1>3. CASE Enc!EndOfSizing
  <2>1. \A t \in Threads : Measured(t)
    BY <1>3 DEF Enc!EndOfSizing, Enc!TeamFinished, Enc!Threads, Threads, SizingInv
  <2>2. encMain' # "size" /\ UNCHANGED <<size, data, code, cnt, bytes>>
    BY <1>3 DEF Enc!EndOfSizing, Enc!input, Enc!sizing
  <2>. QED
    BY <2>1, <2>2, MeasuredStays DEF SizingInv
<1>4. ASSUME encMain # "size", encMain' # "size", UNCHANGED <<size, data, code, cnt, bytes>>
      PROVE  SizingInv'
  BY <1>4, MeasuredStays DEF SizingInv
<1>5. CASE Enc!NextOffset \/ Enc!StartEncoding \/ Enc!EndOfEncoding
  <2>1. encMain # "size" /\ encMain' # "size" /\ UNCHANGED <<size, data, code, cnt, bytes>>
    BY <1>5 DEF Enc!NextOffset, Enc!StartEncoding, Enc!EndOfEncoding, Enc!input, Enc!sizing
  <2>. QED
    BY <1>4, <2>1
<1>6. ASSUME NEW t \in Threads,
             \/ Enc!StoreOffset(t)
             \/ Enc!AddBit(t)
             \/ Enc!FillByte(t)
             \/ Enc!NextSymbol(t)
             \/ Enc!Flush(t)
      PROVE  SizingInv'
  <2>1. encMain # "size" /\ encMain' # "size" /\ UNCHANGED <<size, data, code, cnt, bytes>>
    BY <1>6 DEF Enc!StoreOffset, Enc!AddBit, Enc!FillByte, Enc!NextSymbol, Enc!Flush,
                Enc!Running, Enc!input, Enc!sizing
  <2>. QED
    BY <1>4, <2>1
<1>. QED
  BY <1>1, <1>2, <1>3, <1>5, <1>6 DEF Enc!Step, Enc!MainStep

-------------------------------------------------------------------------------
(* The offsets. *)

(* One more slot is put behind the last one.                                 *)
LEMMA NextOffsetPrefix ==
  ASSUME Enc!TypeOK, PrefixInv, Enc!NextOffset
  PROVE  PrefixInv'
<1>1. /\ encMain = "prefix" /\ m < NumThreads - 1
      /\ sum' = sum + bytes[m]
      /\ encOffset' = [encOffset EXCEPT ![m + 1] = sum']
      /\ m' = m + 1
      /\ UNCHANGED <<encMain, bytes>>
  BY DEF Enc!NextOffset, Enc!sizing
<1>2. /\ m \in 0 .. NumThreads - 1 /\ NumThreads \in Nat \ {0} /\ sum \in Nat
      /\ bytes \in [0 .. NumThreads - 1 -> Nat]
      /\ encOffset \in [0 .. NumThreads - 1 -> Nat]
  BY InputBounds DEF Enc!TypeOK, Enc!Threads
<1>3. /\ m + 1 \in 1 .. NumThreads - 1 /\ m + 1 \in 0 .. NumThreads - 1 /\ m + 1 # 0
      /\ bytes[m] \in Nat
  BY <1>1, <1>2
<1>4. /\ encOffset'[m + 1] = sum + bytes[m]
      /\ \A t \in 0 .. m : encOffset'[t] = encOffset[t]
  BY <1>1, <1>2, <1>3
<1>5. encOffset'[0] = 0 /\ sum' = encOffset'[m']
  BY <1>1, <1>2, <1>4 DEF PrefixInv
<1>6. ASSUME NEW u \in 1 .. m + 1, NEW t \in 0 .. u - 1
      PROVE  encOffset'[t] + bytes[t] <= encOffset'[u]
  <2>0. t \in 0 .. m /\ encOffset[t] \in Nat /\ bytes[t] \in Nat /\ encOffset[m] = sum
    BY <1>2, <1>6 DEF PrefixInv
  <2>1. CASE u <= m
    BY <1>2, <1>4, <1>6, <2>0, <2>1 DEF PrefixInv
  <2>2. CASE u = m + 1 /\ t = m
    BY <1>2, <1>4, <2>0, <2>2
  <2>3. CASE u = m + 1 /\ t < m
    <3>1. encOffset[t] + bytes[t] <= encOffset[m]
      BY <1>2, <1>6, <2>0, <2>3 DEF PrefixInv
    <3>. QED
      BY <1>2, <1>3, <1>4, <2>0, <2>3, <3>1
  <2>. QED
    BY <1>2, <1>6, <2>1, <2>2, <2>3
<1>7. ASSUME NEW a \in 0 .. sum' - 1
      PROVE  \E t \in 0 .. m : a \in Enc!Slot(t)'
  <2>1. CASE a < sum
    <3>0. a \in 0 .. sum - 1
      BY <1>1, <1>2, <1>3, <1>7, <2>1
    <3>1. PICK t \in 0 .. m - 1 : a \in Enc!Slot(t)
      BY <3>0 DEF PrefixInv
    <3>2. t \in 0 .. m /\ Enc!Slot(t)' = Enc!Slot(t)
      BY <1>1, <1>2, <1>4, <3>1 DEF Enc!Slot
    <3>. QED
      BY <3>1, <3>2
  <2>2. CASE a >= sum
    <3>1. m \in 0 .. m /\ encOffset'[m] = sum /\ bytes'[m] = bytes[m]
      BY <1>1, <1>2, <1>4 DEF PrefixInv
    <3>2. a \in Enc!Slot(m)
      BY <1>1, <1>2, <1>3, <1>7, <2>2, <3>1 DEF Enc!Slot, PrefixInv
    <3>3. a \in encOffset'[m] .. encOffset'[m] + bytes'[m] - 1
      BY <3>1, <3>2 DEF Enc!Slot, PrefixInv
    <3>. QED
      BY <3>1, <3>3 DEF Enc!Slot
  <2>. QED
    BY <1>2, <1>3, <1>7, <1>1, <2>1, <2>2
<1>. QED
  <2>1. \A u \in 1 .. m' : \A t \in 0 .. u - 1 : encOffset'[t] + bytes'[t] <= encOffset'[u]
    BY <1>1, <1>6
  <2>2. m' - 1 = m
    BY <1>1, <1>2
  <2>. QED
    BY <1>1, <1>5, <1>7, <2>1, <2>2 DEF PrefixInv

(* Only the prefix loop changes the offsets, and get_out_size the sizes,     *)
(* before it.                                                                *)
LEMMA PrefixStep ==
  ASSUME Enc!TypeOK, PrefixInv,
         (\E t \in Threads : Enc!Step(t)) \/ Enc!MainStep
  PROVE  PrefixInv'
<1>1. CASE Enc!NextOffset
  BY <1>1, NextOffsetPrefix
<1>2. ASSUME NEW t \in Threads, Enc!StoreBytes(t)
      PROVE  PrefixInv'
  <2>1. m = 0 /\ m' = 0 /\ encMain' = "size" /\ sum' = sum /\ encOffset' = encOffset
    BY <1>2 DEF Enc!StoreBytes, PrefixInv
  <2>2. sum = 0
    BY <2>1 DEF PrefixInv
  <2>. QED
    BY <2>1, <2>2 DEF PrefixInv
<1>3. ASSUME UNCHANGED <<m, sum, encOffset, bytes>>,
             encMain' = "size" => m = 0,
             encMain' \in {"encode", "done"} => m = NumThreads - 1
      PROVE  PrefixInv'
  <2>1. \A t \in 0 .. m - 1 : Enc!Slot(t)' = Enc!Slot(t)
    BY <1>3 DEF Enc!Slot
  <2>. QED
    BY <1>3, <2>1 DEF PrefixInv
<1>4. CASE Enc!EndOfSizing
  BY <1>3, <1>4 DEF Enc!EndOfSizing, Enc!sizing, PrefixInv
<1>5. CASE Enc!StartEncoding
  <2>0. m \in 0 .. NumThreads - 1 /\ NumThreads \in Nat /\ m >= NumThreads - 1
    BY <1>5, InputBounds DEF Enc!StartEncoding, Enc!TypeOK, Enc!Threads
  <2>1. m = NumThreads - 1
    BY <2>0
  <2>. QED
    BY <1>3, <1>5, <2>1 DEF Enc!StartEncoding, Enc!sizing
<1>6. CASE Enc!EndOfEncoding
  BY <1>3, <1>6 DEF Enc!EndOfEncoding, Enc!sizing, PrefixInv
<1>7. ASSUME NEW t \in Threads,
             \/ Enc!CountCode(t)
             \/ Enc!StoreOffset(t)
             \/ Enc!AddBit(t)
             \/ Enc!FillByte(t)
             \/ Enc!NextSymbol(t)
             \/ Enc!Flush(t)
      PROVE  PrefixInv'
  <2>1. UNCHANGED <<m, sum, encOffset, bytes, encMain>>
    BY <1>7 DEF Enc!CountCode, Enc!StoreOffset, Enc!AddBit, Enc!FillByte, Enc!NextSymbol,
                Enc!Flush, Enc!sizing
  <2>. QED
    BY <1>3, <2>1 DEF PrefixInv
<1>. QED
  BY <1>1, <1>2, <1>4, <1>5, <1>6, <1>7 DEF Enc!Step, Enc!MainStep

-------------------------------------------------------------------------------
(* The bits. *)

(* What a thread has put depends on its own variables only.                  *)
LEMMA EncodingStays ==
  ASSUME NEW u, Encoding(u), UNCHANGED <<size, data, code, encOffset>>,
         k'[u] = k[u], encPos'[u] = encPos[u], b'[u] = b[u], bit'[u] = bit[u]
  PROVE  Encoding(u)'
<1>1. Enc!HasSymbol(u)' <=> Enc!HasSymbol(u)
  BY DEF Enc!HasSymbol
<1>2. Put(u)' = Put(u)
  BY DEF Put
<1>3. code[data[k[u]]]' = code[data[k[u]]]
  OBVIOUS
<1>. QED
  BY <1>1, <1>2, <1>3 DEF Encoding

(* At first nothing is put.                                                  *)
LEMMA StoreOffsetEncoding ==
  ASSUME Enc!TypeOK, EncodingInv, NEW t \in Threads, Enc!StoreOffset(t)
  PROVE  Encoding(t)'
<1>. DEFINE lo == ChunkStart(size, NumThreads, t)
<1>1. /\ encPc[t] = "begin" /\ encPos'[t] = encOffset[t] /\ k'[t] = lo
      /\ UNCHANGED <<size, data, code, encOffset, b, bit>>
  BY SameCuts DEF Enc!StoreOffset, Enc!input, Enc!sizing, Enc!TypeOK, Enc!Threads, Threads
<1>2. b[t] = 0 /\ bit[t] = 0
  BY <1>1 DEF EncodingInv
<1>3. lo \in Nat /\ encOffset[t] \in Nat /\ ByteBits \in Nat
  BY ThreadBounds, InputBounds DEF Enc!TypeOK, Enc!Threads, Threads
<1>4. lo .. k'[t] - 1 = {}
  BY <1>1, <1>3
<1>5. Counts(code', data', 0, lo .. k'[t] - 1)
  BY <1>4, NoBits
<1>6. Put(t)' = 0
  <2>1. encPos'[t] - encOffset'[t] = 0 /\ bit'[t] = 0
    BY <1>1, <1>2, <1>3
  <2>. QED
    BY <1>3, <2>1 DEF Put
<1>7. Enc!HasSymbol(t)' => b'[t] <= Len(code[data[k[t]]])'
  <2>1. k' [t] \in Nat /\ (Enc!HasSymbol(t)' => k'[t] < size)
    BY <1>1, <1>3, SameCuts, ThreadBounds, InputBounds DEF Enc!HasSymbol
  <2>. QED
    BY <1>1, <1>2, <2>1, InputBounds
<1>8. lo' = lo
  BY <1>1
<1>. HIDE DEF lo
<1>9. lo' <= k'[t] /\ k'[t] = lo' /\ encOffset'[t] <= encPos'[t] /\ b'[t] = 0
  BY <1>1, <1>2, <1>3, <1>8
<1>10. Counts(code', data', 0, lo' .. k'[t] - 1) /\ Put(t)' = 0 + b'[t] /\ 0 \in Nat
  BY <1>5, <1>6, <1>8, <1>9
<1>. QED
  BY <1>7, <1>9, <1>10 DEF Encoding, lo

(* AddBit and FillByte put one bit each.                                     *)
LEMMA PutStep ==
  ASSUME Enc!TypeOK, NEW t \in Threads, NEW n \in Nat, Put(t) = n + b[t],
         Enc!AddBit(t) \/ Enc!FillByte(t)
  PROVE  Put(t)' = n + b'[t] /\ encPos'[t] >= encPos[t] /\ b'[t] = b[t] + 1
<1>. DEFINE d == encPos[t] - encOffset[t]
<1>1. /\ encPos[t] \in Nat /\ encOffset[t] \in Nat /\ bit[t] \in Nat /\ b[t] \in Nat
      /\ ByteBits \in Nat /\ d \in Int
  <2>1. /\ encPos[t] \in Nat /\ encOffset[t] \in Nat /\ b[t] \in Nat
        /\ bit[t] \in 0 .. ByteBits - 1
    BY DEF Enc!TypeOK, Enc!Threads, Threads
  <2>. QED
    BY <2>1, InputBounds
<1>2. encOffset' = encOffset /\ b'[t] = b[t] + 1
  BY DEF Enc!AddBit, Enc!FillByte, Enc!TypeOK, Enc!Threads, Threads
<1>3. CASE Enc!AddBit(t)
  <2>1. encPos' = encPos /\ bit'[t] = bit[t] + 1
    BY <1>3 DEF Enc!AddBit, Enc!TypeOK, Enc!Threads, Threads
  <2>2. d * ByteBits \in Int
    BY <1>1, SMT
  <2>3. Put(t) = d * ByteBits + bit[t] /\ Put(t)' = d * ByteBits + (bit[t] + 1)
    BY <1>2, <2>1 DEF Put
  <2>. HIDE DEF d
  <2>. QED
    BY <1>1, <1>2, <2>1, <2>2, <2>3
<1>4. CASE Enc!FillByte(t)
  <2>1. encPos'[t] = encPos[t] + 1 /\ bit'[t] = 0 /\ bit[t] + 1 = ByteBits
    BY <1>4 DEF Enc!FillByte, Enc!TypeOK, Enc!Threads, Threads
  <2>2. encPos'[t] - encOffset'[t] = d + 1
    BY <1>1, <1>2, <2>1
  <2>3. Put(t) = d * ByteBits + bit[t] /\ Put(t)' = (d + 1) * ByteBits + 0
    BY <2>1, <2>2 DEF Put
  <2>. HIDE DEF d
  <2>4. (d + 1) * ByteBits = d * ByteBits + ByteBits /\ d * ByteBits \in Int
    BY <1>1, SMT
  <2>5. Put(t)' = Put(t) + 1
    BY <1>1, <2>1, <2>3, <2>4
  <2>6. encPos'[t] >= encPos[t]
    BY <1>1, <2>1
  <2>. QED
    BY <1>1, <1>2, <2>5, <2>6
<1>. QED
  BY <1>3, <1>4

(* With it, one more bit of the current code is put.                         *)
LEMMA BitEncoding ==
  ASSUME Enc!TypeOK, EncodingInv, NEW t \in Threads, Enc!AddBit(t) \/ Enc!FillByte(t)
  PROVE  Encoding(t)'
<1>1. /\ encMain = "encode" /\ encPc[t] = "run" /\ Enc!HasSymbol(t)
      /\ b[t] < Len(code[data[k[t]]])
      /\ UNCHANGED <<size, data, code, encOffset, k>>
  BY DEF Enc!AddBit, Enc!FillByte, Enc!Running, Enc!HasBit, Enc!input
<1>2. Encoding(t)
  BY <1>1 DEF EncodingInv
<1>3. PICK n \in Nat : /\ Counts(code, data, n, ChunkStart(size, NumThreads, t) .. k[t] - 1)
                       /\ Put(t) = n + b[t]
  BY <1>2 DEF Encoding
<1>4. Put(t)' = n + b'[t] /\ encPos'[t] >= encPos[t] /\ b'[t] = b[t] + 1
  BY <1>3, PutStep
<1>5. Enc!HasSymbol(t)'
  BY <1>1 DEF Enc!HasSymbol
<1>6. encPos[t] \in Nat /\ encOffset[t] \in Nat /\ encPos'[t] \in Nat
      /\ b[t] \in Nat /\ k[t] \in Nat
  <2>1. Enc!TypeOK'
    BY EncodingTypes
  <2>. QED
    BY <2>1 DEF Enc!TypeOK, Enc!Threads, Threads
<1>7. b'[t] <= Len(code[data[k[t]]])'
  <2>1. k[t] < size
    BY <1>1, <1>6, SameCuts, ThreadBounds, InputBounds DEF Enc!HasSymbol
  <2>2. Len(code[data[k[t]]]) \in Nat
    BY <1>6, <2>1, InputBounds
  <2>. QED
    BY <1>1, <1>4, <1>6, <2>2
<1>8. encOffset'[t] <= encPos'[t]
  BY <1>1, <1>2, <1>4, <1>6 DEF Encoding
<1>. QED
  BY <1>1, <1>2, <1>3, <1>4, <1>5, <1>7, <1>8 DEF Encoding

(* All bits of the code are put when the next symbol is taken.               *)
LEMMA NextSymbolEncoding ==
  ASSUME Enc!TypeOK, EncodingInv, NEW t \in Threads, Enc!NextSymbol(t)
  PROVE  Encoding(t)'
<1>. DEFINE lo == ChunkStart(size, NumThreads, t)
            l == Len(code[data[k[t]]])
<1>1. /\ encMain = "encode" /\ encPc[t] = "run" /\ Enc!HasSymbol(t)
      /\ ~ (b[t] < l)
      /\ k'[t] = k[t] + 1 /\ b'[t] = 0
      /\ UNCHANGED <<size, data, code, encOffset, encPos, bit>>
  BY DEF Enc!NextSymbol, Enc!Running, Enc!HasBit, Enc!input, Enc!TypeOK, Enc!Threads, Threads
<1>2. Encoding(t)
  BY <1>1 DEF EncodingInv
<1>3. PICK n \in Nat : Counts(code, data, n, lo .. k[t] - 1) /\ Put(t) = n + b[t]
  BY <1>2 DEF Encoding
<1>4. k[t] \in Nat /\ lo \in Nat /\ lo <= k[t] /\ b[t] \in Nat
  BY <1>2, ThreadBounds DEF Encoding, Enc!TypeOK, Enc!Threads, Threads
<1>5. k[t] < size
  BY <1>1, <1>4, SameCuts, ThreadBounds, InputBounds DEF Enc!HasSymbol
<1>6. l \in Nat
  BY <1>4, <1>5, InputBounds
<1>7. b[t] = l
  BY <1>1, <1>2, <1>4, <1>6 DEF Encoding
<1>8. Counts(code, data, n + l, lo .. k[t])
  BY <1>3, <1>4, <1>6, MoreBits
<1>9. Put(t)' = Put(t)
  BY <1>1 DEF Put
<1>10. Enc!HasSymbol(t)' => b'[t] <= Len(code[data[k[t]]])'
  <2>1. k'[t] \in Nat /\ (Enc!HasSymbol(t)' => k'[t] < size)
    BY <1>1, <1>4, SameCuts, ThreadBounds, InputBounds DEF Enc!HasSymbol
  <2>. QED
    BY <1>1, <2>1, InputBounds
<1>11. lo' = lo /\ k'[t] - 1 = k[t]
  BY <1>1, <1>4
<1>. HIDE DEF lo, l
<1>12. n + l \in Nat /\ Counts(code', data', n + l, lo' .. k'[t] - 1) /\ Put(t)' = (n + l) + b'[t]
  BY <1>1, <1>3, <1>6, <1>7, <1>8, <1>9, <1>11
<1>13. lo' <= k'[t] /\ encOffset'[t] <= encPos'[t] /\ b'[t] = 0
  BY <1>1, <1>2, <1>4, <1>11 DEF Encoding
<1>14. k'[t] <= ChunkEnd(size', NumThreads, t)
  BY <1>1, <1>4, SameCuts, ThreadBounds DEF Enc!HasSymbol
<1>. QED
  BY <1>10, <1>12, <1>13, <1>14 DEF Encoding, lo

(* A step of one thread disturbs no other one.                               *)
LEMMA EncodingStep ==
  ASSUME Enc!TypeOK, EncodingInv,
         (\E t \in Threads : Enc!Step(t)) \/ Enc!MainStep
  PROVE  EncodingInv'
<1>1. ASSUME encMain' \in {"size", "prefix", "encode"}, encMain \in {"size", "prefix"},
             UNCHANGED <<b, bit>>,
             encMain' = "encode" => \A t \in Threads : encPc'[t] = "begin"
      PROVE  EncodingInv'
  BY <1>1 DEF EncodingInv
<1>2. ASSUME NEW t \in Threads, Enc!CountCode(t) \/ Enc!StoreBytes(t)
      PROVE  EncodingInv'
  BY <1>1, <1>2 DEF Enc!CountCode, Enc!StoreBytes, Enc!encoding
<1>3. CASE Enc!EndOfSizing \/ Enc!NextOffset
  BY <1>1, <1>3 DEF Enc!EndOfSizing, Enc!NextOffset, Enc!encoding
<1>4. CASE Enc!StartEncoding
  BY <1>1, <1>4 DEF Enc!StartEncoding, Enc!encoding, Enc!Threads, Threads
<1>5. CASE Enc!EndOfEncoding
  BY <1>5 DEF Enc!EndOfEncoding, Enc!TeamFinished, Enc!Threads, Threads, EncodingInv
<1>6. ASSUME NEW t \in Threads, encMain = "encode",
             UNCHANGED <<size, data, code, encOffset, encMain>>,
             \A u \in Threads \ {t} :
               /\ k'[u] = k[u] /\ encPos'[u] = encPos[u]
               /\ b'[u] = b[u] /\ bit'[u] = bit[u] /\ encPc'[u] = encPc[u],
             encPc'[t] \in {"run", "end"},
             encPc'[t] = "run" => Encoding(t)'
      PROVE  EncodingInv'
  <2>. SUFFICES ASSUME NEW u \in Threads
                PROVE  (/\ encPc[u] = "begin" => b[u] = 0 /\ bit[u] = 0
                        /\ encPc[u] = "run" => Encoding(u))'
    BY <1>6 DEF EncodingInv
  <2>1. CASE u = t
    BY <1>6, <2>1
  <2>2. CASE u # t
    BY <1>6, <2>2, EncodingStays DEF EncodingInv
  <2>. QED
    BY <2>1, <2>2
<1>7. ASSUME NEW t \in Threads,
             \/ Enc!StoreOffset(t)
             \/ Enc!AddBit(t)
             \/ Enc!FillByte(t)
             \/ Enc!NextSymbol(t)
             \/ Enc!Flush(t)
      PROVE  EncodingInv'
  <2>1. /\ encMain = "encode" /\ UNCHANGED <<size, data, code, encOffset, encMain>>
        /\ \A u \in Threads \ {t} :
               /\ k'[u] = k[u] /\ encPos'[u] = encPos[u]
               /\ b'[u] = b[u] /\ bit'[u] = bit[u] /\ encPc'[u] = encPc[u]
        /\ encPc'[t] \in {"run", "end"}
        /\ encPc'[t] = "run" => ~ Enc!Flush(t)
    <3>. USE DEF Enc!TypeOK, Enc!Threads, Threads, Enc!Running, Enc!input, Enc!sizing
    <3>1. CASE Enc!StoreOffset(t)
      BY <3>1 DEF Enc!StoreOffset, Enc!Flush
    <3>2. CASE Enc!AddBit(t)
      BY <3>2 DEF Enc!AddBit, Enc!HasBit, Enc!Flush
    <3>3. CASE Enc!FillByte(t)
      BY <3>3 DEF Enc!FillByte, Enc!HasBit, Enc!Flush
    <3>4. CASE Enc!NextSymbol(t)
      BY <3>4 DEF Enc!NextSymbol, Enc!Flush
    <3>5. CASE Enc!Flush(t)
      BY <3>5 DEF Enc!Flush
    <3>. QED
      BY <1>7, <3>1, <3>2, <3>3, <3>4, <3>5
  <2>2. encPc'[t] = "run" => Encoding(t)'
    BY <1>7, <2>1, StoreOffsetEncoding, BitEncoding, NextSymbolEncoding
  <2>. QED
    BY <1>6, <2>1, <2>2
<1>. QED
  BY <1>2, <1>3, <1>4, <1>5, <1>7 DEF Enc!Step, Enc!MainStep

-------------------------------------------------------------------------------
(* What the other steps leave alone. *)

(* Neither the parallel encoder ...                                          *)
LEMMA ParallelSteps ==
  ASSUME (\E t \in Threads : Enc!Step(t)) \/ Enc!MainStep
  PROVE  UNCHANGED file
BY DEF Enc!Step, Enc!CountCode, Enc!StoreBytes, Enc!StoreOffset, Enc!AddBit,
       Enc!FillByte, Enc!NextSymbol, Enc!Flush, Enc!MainStep, Enc!EndOfSizing,
       Enc!NextOffset, Enc!StartEncoding, Enc!EndOfEncoding, Enc!input, file

(* ... nor the sequential codec changes the file or the codes ...            *)
LEMMA SequentialSteps ==
  ASSUME Seql!Encode \/ Seql!Decode \/ Seql!Rewind \/ Seql!Abort
  PROVE  UNCHANGED file
<1>1. CASE Seql!Encode
  BY <1>1
  DEF Seql!Encode, Seql!MeasureByte, Seql!Allocate, Seql!WriteHeader, Seql!AddBit,
      Seql!FillByte, Seql!NextSymbol, Seql!Flush, Seql!input, file,
      Seql!Table!WriteStep, Seql!Table!WriteCount, Seql!Table!WriteSize,
      Seql!Table!WriteEntry, Seql!Table!EndOfWriting, Seql!Table!given
<1>2. CASE Seql!Decode
  BY <1>2
  DEF Seql!Decode, Seql!ReadHeader, Seql!FetchByte, Seql!Descend, Seql!EmitSymbol,
      Seql!EndOfByte, Seql!EndOfDecoding, Seql!input, file,
      Seql!Table!ReadStep, Seql!Table!ReadCount, Seql!Table!ReadSize,
      Seql!Table!ReadEntry, Seql!Table!EndOfReading, Seql!Table!given
<1>3. CASE Seql!Rewind \/ Seql!Abort
  BY <1>3 DEF Seql!Rewind, Seql!Abort, Seql!Table!Rewind, Seql!Table!given, Seql!input, file
<1>. QED
  BY <1>1, <1>2, <1>3

(* ... nor does the parallel decoder, which leaves the compressed file too.  *)
LEMMA DecodingSteps ==
  ASSUME (\E t \in Threads : Dec!Step(t)) \/ Dec!ReadOffsets \/ Dec!EndOfDecoding
  PROVE  UNCHANGED <<file, table, payload>>
BY DEF Dec!Step, Dec!FetchByte, Dec!Descend, Dec!EmitSymbol, Dec!Crash, Dec!EndOfByte,
       Dec!ReadOffsets, Dec!EndOfDecoding, Dec!file, file

(* The file never changes, only EncodeParallel touches what the encoder has, *)
(* and only ReadChunk the part that was read.                                *)
LEMMA Frame ==
  ASSUME [Next]_vars
  PROVE  /\ UNCHANGED file
         /\ EncodeParallel \/ UNCHANGED <<table, payload, encVars>>
         /\ (\E t \in Threads : ReadChunk(t)) \/ UNCHANGED <<loaded, reading>>
         /\ isSeq' = isSeq
         /\ \/ stage' = stage
            \/ stage = "read" /\ reading = {} /\ stage' = "encode"
            \/ stage = "encode" /\ stage' = "decode" /\ (isSeq \/ encMain = "done")
            \/ stage = "decode" /\ stage' = "done"
         /\ EncodeParallel => stage = "encode" /\ stage' = "encode"
<1>1. CASE \E t \in Threads : ReadChunk(t)
  BY <1>1 DEF ReadChunk, codecs, EncodeParallel
<1>2. CASE Compress
  BY <1>2 DEF Compress, codecs, reader, EncodeParallel
<1>3. CASE EncodeParallel
  BY <1>3, ParallelSteps DEF EncodeParallel, reader
<1>4. CASE EncodeSequentially
  BY <1>4, SequentialSteps DEF EncodeSequentially, reader, EncodeParallel
<1>5. CASE Decompress
  BY <1>5, SequentialSteps DEF Decompress, reader, codecs, Enc!Done, EncodeParallel
<1>6. CASE DecodeParallel
  BY <1>6, DecodingSteps DEF DecodeParallel, reader, EncodeParallel
<1>7. CASE DecodeSequentially
  BY <1>7, SequentialSteps DEF DecodeSequentially, reader, EncodeParallel
<1>8. CASE Finish
  BY <1>8 DEF Finish, reader, codecs, EncodeParallel
<1>9. CASE Abort
  BY <1>9, SequentialSteps DEF Abort, reader, EncodeParallel
<1>10. CASE Terminated \/ UNCHANGED vars
  BY <1>10 DEF Terminated, vars, reader, codecs, EncodeParallel
<1>. QED
  BY <1>1, <1>2, <1>3, <1>4, <1>5, <1>6, <1>7, <1>8, <1>9, <1>10 DEF Next

-------------------------------------------------------------------------------
(* The encoder's invariant. *)

(* The invariant of the encoder holds at first, ...                          *)
LEMMA EncInit ==
  ASSUME Enc!Init
  PROVE  EncInv
<1>0. NumThreads \in Nat \ {0} /\ ByteBits \in Nat \ {0} /\ Enc!Threads = Threads
      /\ 0 \in 0 .. ByteBits - 1 /\ 0 \in Threads /\ size \in Nat
  BY NumThreadsAssumption, WidthAssumption, SizesAssumption
  DEF Enc!Threads, Threads, Enc!Init
<1>1. \A t \in Threads : /\ StaticStart(size, NumThreads, t) \in Nat
                         /\ StaticStart(size, NumThreads, t) <= StaticEnd(size, NumThreads, t)
  BY <1>0, StaticBounds DEF Threads
<1>2. Enc!TypeOK
  <2>1. k \in [Threads -> Nat]
    BY <1>0, <1>1, SameCuts DEF Enc!Init
  <2>2. payload \in [DOMAIN payload -> Enc!Bytes] /\ DOMAIN payload \subseteq Nat
    BY DEF Enc!Init
  <2>3. encByte \in [Threads -> Enc!Bytes]
    BY <1>0 DEF Enc!Init, Enc!Bytes
  <2>. QED
    BY <1>0, <2>1, <2>2, <2>3 DEF Enc!Init, Enc!TypeOK
<1>3. SizingInv
  <2>. SUFFICES ASSUME NEW t \in Threads
                PROVE  /\ StaticStart(size, NumThreads, t) <= k[t]
                       /\ k[t] <= StaticEnd(size, NumThreads, t)
                       /\ Counts(code, data, cnt[t], StaticStart(size, NumThreads, t) .. k[t] - 1)
                       /\ encPc[t] \in {"run", "end"}
                       /\ encPc[t] # "end"
    BY DEF SizingInv, Enc!Init
  <2>1. k[t] = StaticStart(size, NumThreads, t) /\ cnt[t] = 0 /\ encPc[t] = "run"
    BY <1>0, SameCuts DEF Enc!Init
  <2>2. StaticStart(size, NumThreads, t) .. k[t] - 1 = {}
    BY <1>1, <2>1
  <2>. QED
    BY <1>1, <2>1, <2>2, NoBits
<1>4. PrefixInv
  BY <1>0 DEF Enc!Init, PrefixInv
<1>5. EncodingInv
  BY <1>0 DEF Enc!Init, EncodingInv
<1>. QED
  BY <1>2, <1>3, <1>4, <1>5 DEF EncInv

(* ... after each step of the encoder, ...                                   *)
LEMMA EncStep ==
  ASSUME EncInv, (\E t \in Threads : Enc!Step(t)) \/ Enc!MainStep
  PROVE  EncInv'
<1>1. Enc!TypeOK'
  <2>1. CASE Enc!MainStep
    <3>1. 0 \in Threads /\ Enc!TypeOK
      BY InputBounds DEF EncInv, Threads
    <3>2. CASE Enc!EndOfSizing
      BY <3>1, <3>2, SizingTypes
    <3>3. CASE Enc!NextOffset \/ Enc!StartEncoding \/ Enc!EndOfEncoding
      BY <3>1, <3>3, PrefixTypes
    <3>. QED
      BY <2>1, <3>2, <3>3 DEF Enc!MainStep
  <2>2. ASSUME NEW t \in Threads, Enc!Step(t) PROVE Enc!TypeOK'
    <3>1. CASE Enc!CountCode(t) \/ Enc!StoreBytes(t)
      BY <3>1, SizingTypes DEF EncInv
    <3>2. CASE Enc!StoreOffset(t) \/ Enc!AddBit(t) \/ Enc!FillByte(t)
                 \/ Enc!NextSymbol(t) \/ Enc!Flush(t)
      BY <3>2, EncodingTypes DEF EncInv
    <3>. QED
      BY <2>2, <3>1, <3>2 DEF Enc!Step
  <2>. QED
    BY <2>1, <2>2
<1>. QED
  BY <1>1, SizingStep, PrefixStep, EncodingStep DEF EncInv

(* ... and as long as nobody touches its variables.                          *)
LEMMA EncStays ==
  ASSUME EncInv, UNCHANGED <<file, table, payload, encVars>>
  PROVE  EncInv'
<1>1. Enc!TypeOK'
  BY DEF EncInv, Enc!TypeOK, Enc!Bytes, file, encVars
<1>2. SizingInv'
  <2>1. UNCHANGED <<size, data, code, encMain, encPc, k, cnt, bytes>>
    BY DEF file, encVars
  <2>2. \A t \in Threads : Measured(t) => Measured(t)'
    BY <2>1, MeasuredStays
  <2>. QED
    BY <2>1, <2>2 DEF EncInv, SizingInv
<1>3. PrefixInv'
  <2>1. \A t \in 0 .. m - 1 : Enc!Slot(t)' = Enc!Slot(t)
    BY DEF Enc!Slot, encVars
  <2>. QED
    BY <2>1 DEF EncInv, PrefixInv, encVars
<1>4. EncodingInv'
  <2>1. UNCHANGED <<size, data, code, encMain, encPc, k, encOffset, encPos, b, bit>>
    BY DEF file, encVars
  <2>2. \A t \in Threads : Encoding(t) => Encoding(t)'
    BY <2>1, EncodingStays
  <2>. QED
    BY <2>1, <2>2 DEF EncInv, EncodingInv
<1>. QED
  BY <1>1, <1>2, <1>3, <1>4 DEF EncInv

-------------------------------------------------------------------------------
(* Reading the file. *)

(* What was read is the chunks of those threads that have read theirs.       *)
InChunk(t, x) == ChunkStart(size, NumThreads, t) <= x /\ x < ChunkEnd(size, NumThreads, t)

DriverTypes ==
  /\ isSeq \in BOOLEAN
  /\ reading \subseteq Threads
  /\ stage \in {"read", "encode", "decode", "done"}

ReadInv ==
  /\ loaded = [x \in DOMAIN loaded |-> data[x]]
  /\ DOMAIN loaded = {x \in 0 .. size - 1 : \E t \in Threads \ reading : InChunk(t, x)}
  /\ stage # "read" => reading = {}
  /\ stage \in {"decode", "done"} /\ ~ isSeq => encMain = "done"

Inv == EncInv /\ DriverTypes /\ ReadInv

(* fread gets the chunk of its thread and nothing else, also when the amount *)
(* has wrapped around.                                                       *)
LEMMA ReadsItsChunk ==
  ASSUME Enc!TypeOK, NEW t \in Threads, NEW x \in 0 .. size - 1
  PROVE  ReadFrom(t) <= x /\ x < ReadFrom(t) + ReadAmount(t) <=> InChunk(t, x)
<1>. DEFINE from == ChunkStart(size, NumThreads, t)
            to == ChunkEnd(size, NumThreads, t)
            d == to - from
<1>1. /\ from \in Nat /\ to \in Nat /\ to <= size /\ size \in Nat /\ NumThreads \in Nat \ {0}
      /\ t \in Nat
  BY ThreadBounds, InputBounds DEF Threads
<1>2. SizeMax \in Nat /\ size < SizeMax
  BY SizeMaxAssumption DEF Enc!TypeOK
<1>3. ReadFrom(t) = from /\ ReadAmount(t) = d % (SizeMax + 1)
  BY DEF ReadFrom, ReadAmount
<1>4. CASE from <= to
  <2>1. d \in 0 .. SizeMax /\ SizeMax + 1 \in Nat \ {0}
    BY <1>1, <1>2, <1>4
  <2>. HIDE DEF d
  <2>2. ((SizeMax + 1) * 0 + d) \div (SizeMax + 1) = 0
    BY <2>1, <1>2, DivisionUnique
  <2>3. (SizeMax + 1) * 0 + d = d
    BY <2>1, <1>2
  <2>4. d \in Nat /\ d = (SizeMax + 1) * (d \div (SizeMax + 1)) + (d % (SizeMax + 1))
        /\ d % (SizeMax + 1) \in Nat
    <3>. DEFINE w == SizeMax + 1
    <3>. HIDE DEF w
    <3>1. d \in Nat /\ w \in Nat \ {0}
      BY <2>1 DEF w
    <3>2. d % w \in 0 .. w - 1 /\ d = w * (d \div w) + (d % w)
      BY <3>1, Division
    <3>. QED
      BY <3>1, <3>2 DEF w
  <2>5. d = d % (SizeMax + 1)
    BY <1>2, <2>2, <2>3, <2>4
  <2>6. from + d = to
    BY <1>1 DEF d
  <2>. QED
    BY <1>3, <2>5, <2>6 DEF InChunk
<1>5. CASE from > to
  <2>1. to = Least(from + UPDIV(size, NumThreads), size) /\ UPDIV(size, NumThreads) \in Nat
    BY <1>1, ChunkBounds, UPDIVRoundsUp
  <2>2. from > size
    BY <1>1, <1>5, <2>1 DEF Least
  <2>3. ~ (from <= x)
    BY <1>1, <2>2
  <2>. QED
    BY <1>3, <2>3 DEF InChunk
<1>. QED
  BY <1>1, <1>4, <1>5

(* A thread adds its chunk to what was read.                                 *)
LEMMA ReadChunkStep ==
  ASSUME EncInv, DriverTypes, ReadInv, NEW t \in Threads, ReadChunk(t)
  PROVE  (DriverTypes /\ ReadInv)'
<1>. DEFINE found == {x \in 0 .. size - 1 : InChunk(t, x)}
<1>1. /\ stage = "read" /\ stage' = "read" /\ t \in reading /\ reading' = reading \ {t}
      /\ UNCHANGED <<size, data, isSeq>>
  BY DEF ReadChunk, file
<1>2. loaded' = [x \in DOMAIN loaded \cup found |->
                   IF x \in found THEN data[x] ELSE loaded[x]]
  <2>1. found = {x \in 0 .. size - 1 : ReadFrom(t) <= x /\ x < ReadFrom(t) + ReadAmount(t)}
    BY ReadsItsChunk DEF EncInv
  <2>. QED
    BY <2>1 DEF ReadChunk
<1>3. DriverTypes'
  BY <1>1 DEF DriverTypes
<1>4. DOMAIN loaded' = DOMAIN loaded \cup found
  BY <1>2
<1>5. \A x \in DOMAIN loaded : loaded[x] = data[x]
  BY DEF ReadInv
<1>6. loaded' = [x \in DOMAIN loaded' |-> data'[x]]
  BY <1>1, <1>2, <1>4, <1>5
<1>7. \A u, x : InChunk(u, x)' <=> InChunk(u, x)
  BY <1>1 DEF InChunk
<1>8. Threads \ reading' = (Threads \ reading) \cup {t}
  BY <1>1
<1>9. DOMAIN loaded' = {x \in 0 .. size' - 1 : \E u \in Threads \ reading' : InChunk(u, x)'}
  BY <1>1, <1>4, <1>7, <1>8 DEF ReadInv
<1>. QED
  BY <1>1, <1>3, <1>6, <1>9 DEF ReadInv

(* The invariant of the driver holds at first ...                            *)
LEMMA InvInit == Init => Inv
<1>. SUFFICES ASSUME Init PROVE Inv
  OBVIOUS
<1>1. EncInv
  BY EncInit DEF Init
<1>2. DriverTypes
  BY DEF Init, DriverTypes
<1>3. loaded = << >> /\ reading = Threads /\ stage = "read"
  BY DEF Init
<1>4. ReadInv
  BY <1>3 DEF ReadInv
<1>. QED
  BY <1>1, <1>2, <1>4 DEF Inv

(* ... and after each step.                                                  *)
LEMMA InvStep == Inv /\ [Next]_vars => Inv'
<1>. SUFFICES ASSUME Inv, [Next]_vars PROVE Inv'
  OBVIOUS
<1>1. EncInv'
  <2>1. CASE EncodeParallel
    BY <2>1, EncStep DEF Inv, EncodeParallel
  <2>2. CASE UNCHANGED <<table, payload, encVars>>
    BY <2>2, Frame, EncStays DEF Inv
  <2>. QED
    BY <2>1, <2>2, Frame
<1>2. (DriverTypes /\ ReadInv)'
  <2>1. CASE \E t \in Threads : ReadChunk(t)
    BY <2>1, ReadChunkStep DEF Inv
  <2>2. CASE UNCHANGED <<loaded, reading>>
    <3>1. UNCHANGED <<size, data, isSeq>>
      BY Frame DEF file
    <3>2. DriverTypes'
      BY <2>2, <3>1, Frame DEF Inv, DriverTypes
    <3>3. \A u, x : InChunk(u, x)' <=> InChunk(u, x)
      BY <3>1 DEF InChunk
    <3>4. stage' # "read" => reading' = {}
      BY <2>2, Frame DEF Inv, ReadInv
    <3>5. stage' \in {"decode", "done"} /\ ~ isSeq' => encMain' = "done"
      <4>1. CASE EncodeParallel
        BY <4>1, Frame
      <4>2. CASE UNCHANGED <<table, payload, encVars>>
        BY <4>2, <3>1, Frame DEF Inv, ReadInv, DriverTypes, encVars
      <4>. QED
        BY <4>1, <4>2, Frame
    <3>6. ReadInv'
      BY <2>2, <3>1, <3>3, <3>4, <3>5 DEF Inv, ReadInv
    <3>. QED
      BY <3>2, <3>6
  <2>. QED
    BY <2>1, <2>2, Frame
<1>. QED
  BY <1>1, <1>2 DEF Inv

(* The inductive invariant of the driver and its parallel encoder.           *)
THEOREM InvAlways == Spec => []Inv
  BY InvInit, InvStep, PTL DEF Spec

(* The driver's variables and the encoder's keep their types: in particular  *)
(* every symbol that is encoded has a code, and m stays the number of a      *)
(* thread.                                                                   *)
THEOREM TypeCorrect == Spec => []TypeOK
<1>1. Inv => TypeOK
  BY DEF Inv, EncInv, DriverTypes, ReadInv, TypeOK
<1>. QED
  BY <1>1, InvAlways, PTL

(* run_huffman compresses the whole file: the fread of each thread has read  *)
(* its chunk (ReadsItsChunk), also with an amount that wrapped around, and   *)
(* the chunks cover the file (ChunksCover).                                  *)
THEOREM FileIsRead == Spec => []WholeFileRead
<1>1. Inv => WholeFileRead
  <2>. SUFFICES ASSUME Inv, stage # "read" PROVE loaded = data
    BY DEF WholeFileRead
  <2>1. size \in Nat /\ NumThreads \in Nat \ {0}
    BY InputBounds DEF Inv, EncInv
  <2>2. reading = {}
    BY DEF Inv, ReadInv
  <2>3. ASSUME NEW x \in 0 .. size - 1
        PROVE  \E t \in Threads : InChunk(t, x)
    BY <2>1, ChunksCover DEF InChunk, Threads
  <2>4. DOMAIN loaded = 0 .. size - 1
    BY <2>2, <2>3 DEF Inv, ReadInv
  <2>5. data \in [0 .. size - 1 -> DOMAIN code]
    BY DEF Inv, EncInv, Enc!TypeOK
  <2>. QED
    BY <2>4, <2>5 DEF Inv, ReadInv
<1>. QED
  BY <1>1, InvAlways, PTL

(* The slots that the prefix sum of huffman_encode_parallel gives to the     *)
(* threads are disjoint and fill the output buffer, whatever the sizes are.  *)
THEOREM SlotsTile == Spec => []SlotsTileBuffer
<1>1. Inv => SlotsTileBuffer
  <2>. SUFFICES ASSUME Inv, encMain \in {"encode", "done"}
                PROVE  /\ \A t, u \in Threads : t # u => Enc!Slot(t) \cap Enc!Slot(u) = {}
                       /\ UNION {Enc!Slot(t) : t \in Threads} = 0 .. Enc!OutSize - 1
    BY DEF SlotsTileBuffer, Enc!SlotsTileBuffer, Enc!Threads, Threads
  <2>1. /\ NumThreads \in Nat \ {0} /\ m = NumThreads - 1 /\ sum \in Nat /\ sum = encOffset[m]
        /\ \A t \in Threads : encOffset[t] \in Nat /\ bytes[t] \in Nat
    BY InputBounds DEF Inv, EncInv, PrefixInv, Enc!TypeOK, Enc!Threads, Threads
  <2>2. ASSUME NEW t \in Threads, NEW u \in Threads, t < u
        PROVE  encOffset[t] + bytes[t] <= encOffset[u]
    BY <2>1, <2>2 DEF Inv, EncInv, PrefixInv, Threads
  <2>3. ASSUME NEW t \in Threads, NEW u \in Threads, t < u
        PROVE  Enc!Slot(t) \cap Enc!Slot(u) = {}
    BY <2>1, <2>2, <2>3 DEF Enc!Slot
  <2>4. ASSUME NEW t \in Threads, NEW u \in Threads, t # u
        PROVE  Enc!Slot(t) \cap Enc!Slot(u) = {}
    <3>1. t < u \/ u < t
      BY <2>4, <2>1 DEF Threads
    <3>. QED
      BY <2>3, <3>1
  <2>5. ASSUME NEW t \in Threads, NEW a \in Enc!Slot(t)
        PROVE  a \in 0 .. Enc!OutSize - 1
    <3>1. m \in Threads /\ (t = m \/ t < m)
      BY <2>1 DEF Threads
    <3>2. t < m => encOffset[t] + bytes[t] <= encOffset[m]
      BY <2>2, <3>1
    <3>3. Enc!OutSize = encOffset[m] + bytes[m]
      BY <2>1 DEF Enc!OutSize
    <3>. QED
      BY <2>1, <2>5, <3>1, <3>2, <3>3 DEF Enc!Slot
  <2>6. ASSUME NEW a \in 0 .. Enc!OutSize - 1
        PROVE  \E t \in Threads : a \in Enc!Slot(t)
    <3>1. m \in Threads /\ Enc!OutSize = encOffset[m] + bytes[m]
      BY <2>1 DEF Threads, Enc!OutSize
    <3>2. CASE a >= sum
      BY <2>1, <2>6, <3>1, <3>2 DEF Enc!Slot
    <3>3. CASE a < sum
      <4>1. a \in 0 .. sum - 1
        BY <2>1, <2>6, <3>1, <3>3
      <4>2. PICK t \in 0 .. m - 1 : a \in Enc!Slot(t)
        BY <4>1 DEF Inv, EncInv, PrefixInv
      <4>3. t \in Threads
        BY <2>1, <4>2 DEF Threads
      <4>. QED
        BY <4>2, <4>3
    <3>. QED
      BY <2>1, <2>6, <3>1, <3>2, <3>3
  <2>. QED
    BY <2>4, <2>5, <2>6
<1>. QED
  BY <1>1, InvAlways, PTL

(* do_encode writes only what get_out_size measured for the thread, if both  *)
(* passes cut every file alike; by CutsAgree that is so when the remainder   *)
(* of its size is 0 or NumThreads - 1, or the size is less than NumThreads.  *)
(* For other sizes it can fail, as the run uneven_chunks shows.               *)
THEOREM ThreadsKeepToSlots ==
  ASSUME \A n \in Sizes : SameCut(n, NumThreads)
  PROVE  Spec => []OwnSlot
<1>1. Inv => OwnSlot
  <2>. SUFFICES ASSUME Inv, NEW t \in Threads, NEW a \in Enc!Written(t)
                PROVE  a \in Enc!Slot(t)
    BY DEF OwnSlot, Enc!OwnSlot, Enc!Threads, Threads
  <2>. DEFINE lo == ChunkStart(size, NumThreads, t)
              hi == ChunkEnd(size, NumThreads, t)
  <2>1. /\ encMain = "encode" /\ encPc[t] = "run" /\ a = encPos[t]
        /\ IF Enc!HasSymbol(t)
           THEN b[t] < Len(code[data[k[t]]]) /\ bit[t] + 1 = ByteBits
           ELSE bit[t] > 0
    BY DEF Enc!Written, Enc!Running, Enc!HasBit, Enc!HasPartialByte
  <2>2. /\ encPos[t] \in Nat /\ encOffset[t] \in Nat /\ bit[t] \in Nat /\ b[t] \in Nat
        /\ k[t] \in Nat /\ cnt[t] \in Nat /\ lo \in Nat /\ hi \in Nat /\ hi <= size
        /\ size \in Nat /\ size \in Sizes /\ ByteBits \in Nat \ {0}
    <3>1. bit[t] \in 0 .. ByteBits - 1 /\ ByteBits \in Nat \ {0}
      BY InputBounds DEF Inv, EncInv, Enc!TypeOK, Enc!Threads, Threads
    <3>2. bit[t] \in Nat
      BY <3>1
    <3>. QED
      BY <3>1, <3>2, InputBounds, ThreadBounds
      DEF Inv, EncInv, Enc!TypeOK, Enc!Threads, Threads
  <2>3. Encoding(t)
    BY <2>1 DEF Inv, EncInv, EncodingInv
  <2>4. PICK n \in Nat : Counts(code, data, n, lo .. k[t] - 1) /\ Put(t) = n + b[t]
    BY <2>3 DEF Encoding
  <2>5. Enc!HasSymbol(t) <=> k[t] < hi
    BY SameCuts DEF Enc!HasSymbol
  <2>6. Counts(code, data, cnt[t], StaticPart(t)) /\ bytes[t] = Enc!BytesFor(cnt[t])
    BY <2>1 DEF Inv, EncInv, SizingInv, Measured
  <2>7. ASSUME NEW S, S \subseteq lo .. hi - 1
        PROVE  S \subseteq StaticPart(t)
    <3>. SUFFICES ASSUME NEW x \in S
                  PROVE  x \in StaticPart(t)
      OBVIOUS
    <3>1. x \in 0 .. size - 1 /\ lo <= x /\ x < hi
      BY <2>2, <2>7
    <3>2. SameCut(size, NumThreads) /\ t \in 0 .. NumThreads - 1
      BY <2>2 DEF Threads
    <3>3. StaticStart(size, NumThreads, t) <= x /\ x < StaticEnd(size, NumThreads, t)
      BY <3>1, <3>2 DEF SameCut
    <3>4. StaticStart(size, NumThreads, t) \in Nat /\ StaticEnd(size, NumThreads, t) \in Nat
      BY ThreadBounds DEF Inv, EncInv
    <3>. QED
      BY <3>1, <3>3, <3>4 DEF StaticPart
  <2>. DEFINE d == encPos[t] - encOffset[t]
  <2>8. d \in Nat /\ d * ByteBits \in Nat /\ Put(t) = d * ByteBits + bit[t]
    <3>1. d \in Nat
      BY <2>2, <2>3 DEF Encoding
    <3>2. d * ByteBits \in Nat
      <4>. HIDE DEF d
      <4>. QED
        BY <2>2, <3>1, SMT
    <3>. QED
      BY <3>1, <3>2 DEF Put
  <2>9. \E r \in Nat : d * ByteBits + r < cnt[t]
    <3>1. CASE Enc!HasSymbol(t)
      <4>. DEFINE l == Len(code[data[k[t]]])
      <4>1. k[t] < hi /\ lo <= k[t] /\ l \in Nat /\ b[t] < l
        BY <2>1, <2>2, <2>3, <2>5, <3>1, InputBounds DEF Encoding, Inv, EncInv
      <4>2. Counts(code, data, n + l, lo .. k[t])
        BY <2>2, <2>4, <4>1, MoreBits
      <4>3. lo .. k[t] \subseteq lo .. hi - 1
        BY <2>2, <4>1
      <4>4. n + l <= cnt[t]
        BY <2>6, <2>7, <4>2, <4>3, FewerBits
      <4>. HIDE DEF l, d
      <4>5. d * ByteBits + bit[t] < cnt[t]
        BY <2>2, <2>4, <2>8, <4>1, <4>4
      <4>. QED
        BY <2>2, <4>5
    <3>2. CASE ~ Enc!HasSymbol(t)
      <4>1. b[t] = 0 /\ bit[t] > 0
        BY <2>1, <2>3, <3>2 DEF Encoding
      <4>2. lo .. k[t] - 1 \subseteq lo .. hi - 1
        BY <2>2, <2>3 DEF Encoding
      <4>3. n <= cnt[t]
        BY <2>4, <2>6, <2>7, <4>2, FewerBits
      <4>. HIDE DEF d
      <4>4. d * ByteBits + (bit[t] - 1) < cnt[t] /\ bit[t] - 1 \in Nat
        BY <2>2, <2>4, <2>8, <4>1, <4>3
      <4>. QED
        BY <4>4
    <3>. QED
      BY <3>1, <3>2
  <2>10. d < bytes[t] /\ bytes[t] \in Nat
    BY <2>2, <2>6, <2>8, <2>9, EnoughBytes
  <2>11. encOffset[t] <= a /\ a <= encOffset[t] + bytes[t] - 1 /\ a \in Nat
    <3>1. a = encOffset[t] + d /\ d \in Nat
      BY <2>1, <2>2, <2>8
    <3>. HIDE DEF d
    <3>. QED
      BY <2>1, <2>2, <2>10, <3>1
  <2>. QED
    BY <2>2, <2>11 DEF Enc!Slot
<1>. QED
  BY <1>1, InvAlways, PTL

-------------------------------------------------------------------------------
(* The bits of a chunk and the bytes that hold them. *)

(* The number of bits of a chunk is that of the pairs of a position and a    *)
(* bit.                                                                      *)
LEMMA BitsCount ==
  ASSUME NEW c, NEW d, NEW lo \in Nat, NEW x \in Nat, lo <= x, Coded(c, d, lo, x)
  PROVE  Counts(c, d, Len(Bits(c, d, lo, x)), lo .. x - 1)
<1>. DEFINE N(z) == Len(Bits(c, d, lo, z))
            K == {n \in Nat : lo + n <= x => Counts(c, d, N(lo + n), lo .. lo + n - 1)}
<1>1. 0 \in K
  <2>1. N(lo + 0) = 0 /\ lo .. lo + 0 - 1 = {}
    <3>1. lo + 0 \in Int /\ lo + 0 <= lo
      OBVIOUS
    <3>2. Bits(c, d, lo, lo + 0) = << >>
      BY <3>1, BitsSteps
    <3>. QED
      BY <3>2
  <2>. HIDE DEF N
  <2>. QED
    BY <2>1, NoBits
<1>2. ASSUME NEW n \in Nat, n \in K PROVE n + 1 \in K
  <2>. SUFFICES ASSUME lo + (n + 1) <= x
                PROVE  Counts(c, d, N(lo + (n + 1)), lo .. lo + (n + 1) - 1)
    OBVIOUS
  <2>. DEFINE w == lo + n
              l == Len(c[d[w]])
  <2>1. w \in Nat /\ w \in Int /\ lo <= w /\ w < x /\ w <= x /\ w + 1 = lo + (n + 1)
        /\ lo + (n + 1) - 1 = w
    OBVIOUS
  <2>2. Counts(c, d, N(w), lo .. w - 1)
    BY <1>2, <2>1
  <2>. HIDE DEF w
  <2>3. N(w + 1) = N(w) + l /\ l \in Nat /\ N(w) \in Nat
    BY <2>1, CodeInside, BitsGrow, LenProperties DEF LiesIn
  <2>4. Counts(c, d, N(w) + l, lo .. w)
    <3>. HIDE DEF N
    <3>. QED
      BY <2>1, <2>2, <2>3, MoreBits
  <2>. HIDE DEF N, l
  <2>. QED
    BY <2>1, <2>3, <2>4
<1>3. x - lo \in K
  <2>. HIDE DEF K
  <2>. QED
    BY <1>1, <1>2, AllNumbers
<1>4. lo + (x - lo) = x
  OBVIOUS
<1>. HIDE DEF N
<1>5. Counts(c, d, N(x), lo .. x - 1)
  BY <1>3, <1>4
<1>. QED
  BY <1>5 DEF N

(* The bytes that these bits fill.                                           *)
Pack(bits) == PackBits(bits, ByteBits)

(* What is in these bytes.                                                   *)
LEMMA PackValues ==
  ASSUME NEW bits, Len(bits) \in Nat
  PROVE  /\ Enc!BytesFor(Len(bits)) \in Nat
         /\ DOMAIN Pack(bits) = 0 .. Enc!BytesFor(Len(bits)) - 1
         /\ IsFiniteSet(DOMAIN Pack(bits))
         /\ Cardinality(DOMAIN Pack(bits)) = Enc!BytesFor(Len(bits))
         /\ \A q \in 0 .. Enc!BytesFor(Len(bits)) - 1 :
              Pack(bits)[q] = {x \in 0 .. ByteBits - 1 :
                                 q * ByteBits + x < Len(bits) /\ bits[q * ByteBits + x + 1] = 1}
<1>1. Enc!BytesFor(Len(bits)) = UPDIV(Len(bits), ByteBits)
  BY DEF Enc!BytesFor, Enc!UPDIV, UPDIV
<1>2. ByteBits \in Nat \ {0}
  BY WidthAssumption
<1>. QED
  BY <1>1, <1>2, PackParts DEF Pack

-------------------------------------------------------------------------------
(* The chunk of a thread, its bits and the bytes that hold them.             *)
Lo(t) == ChunkStart(size, NumThreads, t)
Hi(t) == ChunkEnd(size, NumThreads, t)
Whole(t) == Bits(code, data, Lo(t), Hi(t))

(* The addresses that a thread has written.                                  *)
Stored(t) ==
  IF encMain \in {"size", "prefix"} \/ encPc[t] = "begin" THEN {}
  ELSE IF encPc[t] = "run" THEN encOffset[t] .. encPos[t] - 1
  ELSE Enc!Slot(t)

(* The byte that a thread is filling: the bits after those of full bytes.    *)
Filling(t) ==
  {x \in 0 .. bit[t] - 1 :
     Whole(t)[(encPos[t] - encOffset[t]) * ByteBits + x + 1] = 1}

(* A thread's offset in the header and its unfinished byte.                  *)
Packing(t) ==
  IF encMain \in {"size", "prefix"} \/ encPc[t] = "begin"
  THEN encByte[t] = {}
  ELSE /\ table[t] = encOffset[t]
       /\ encMain = "encode" /\ encPc[t] = "run" => encByte[t] = Filling(t)

(* What is in the slots is what belongs there, and nothing is elsewhere.     *)
PackingInv ==
  /\ \A u \in 1 .. m : encOffset[u] = encOffset[u - 1] + bytes[u - 1]
  /\ encMain = "done" => \A t \in Threads : encPc[t] = "end"
  /\ \A t \in Threads : Packing(t)
  /\ DOMAIN payload = UNION {Stored(t) : t \in Threads}
  /\ \A t \in Threads : \A a \in Stored(t) :
       payload[a] = Pack(Whole(t))[a - encOffset[t]]

(* The chunk lies in the file, so that its symbols have codes.               *)
LEMMA ChunkBits ==
  ASSUME Enc!TypeOK, NEW t \in Threads
  PROVE  /\ size \in Nat /\ Lo(t) \in Nat /\ Hi(t) \in Nat /\ Hi(t) <= size
         /\ Coded(code, data, Lo(t), Hi(t))
         /\ Whole(t) \in Seq({0, 1}) /\ Len(Whole(t)) \in Nat
         /\ \A z \in 1 .. Len(Whole(t)) : Whole(t)[z] \in {0, 1}
<1>1. size \in Nat /\ Lo(t) \in Nat /\ Hi(t) \in Nat /\ Hi(t) <= size
  BY ThreadBounds, InputBounds DEF Lo, Hi
<1>2. Coded(code, data, Lo(t), Hi(t))
  <2>. SUFFICES ASSUME NEW y \in Lo(t) .. Hi(t) - 1
                PROVE  code[data[y]] \in Seq({0, 1})
    BY DEF Coded
  <2>1. y \in Nat /\ y < size
    BY <1>1
  <2>. QED
    BY <2>1, InputBounds
<1>3. Whole(t) \in Seq({0, 1})
  BY <1>1, <1>2, BitsSteps DEF Whole
<1>. QED
  BY <1>1, <1>2, <1>3, LenProperties

(* The same positions take the same number of bits.                          *)
LEMMA SameCount ==
  ASSUME NEW c, NEW d, NEW n, NEW l, NEW S, NEW T, S = T, Counts(c, d, n, S), Counts(c, d, l, T)
  PROVE  n = l
BY DEF Counts

(* If the cuts agree, a slot has room for the bytes of the chunk, and for    *)
(* nothing else.                                                             *)
LEMMA SlotFitsChunk ==
  ASSUME EncInv, encMain # "size", SameCut(size, NumThreads), NEW t \in Threads
  PROVE  bytes[t] = Enc!BytesFor(Len(Whole(t)))
<1>1. Enc!TypeOK
  BY DEF EncInv
<1>2. Counts(code, data, cnt[t], StaticPart(t)) /\ bytes[t] = Enc!BytesFor(cnt[t])
  BY DEF EncInv, SizingInv, Measured
<1>3. /\ size \in Nat /\ Lo(t) \in Nat /\ Hi(t) \in Nat /\ Hi(t) <= size
      /\ Coded(code, data, Lo(t), Hi(t))
  BY <1>1, ChunkBits
<1>4. /\ StaticStart(size, NumThreads, t) \in Nat /\ StaticEnd(size, NumThreads, t) \in Nat
      /\ StaticEnd(size, NumThreads, t) <= size
  BY <1>1, ThreadBounds
<1>5. ASSUME NEW x \in 0 .. size - 1
      PROVE  Lo(t) <= x /\ x < Hi(t) <=> x \in StaticPart(t)
  <2>1. (Lo(t) <= x /\ x < Hi(t))
          <=> (StaticStart(size, NumThreads, t) <= x /\ x < StaticEnd(size, NumThreads, t))
    BY DEF SameCut, Lo, Hi, Threads
  <2>2. x \in StaticPart(t)
          <=> StaticStart(size, NumThreads, t) <= x /\ x < StaticEnd(size, NumThreads, t)
    BY <1>4 DEF StaticPart
  <2>. QED
    BY <2>1, <2>2
<1>6. Lo(t) .. Hi(t) - 1 = StaticPart(t)
  <2>1. \A x \in Lo(t) .. Hi(t) - 1 : x \in 0 .. size - 1 /\ Lo(t) <= x /\ x < Hi(t)
    BY <1>3
  <2>2. \A x \in StaticPart(t) : x \in 0 .. size - 1
    BY <1>3, <1>4 DEF StaticPart
  <2>3. \A x \in StaticPart(t) : x \in Lo(t) .. Hi(t) - 1
    BY <1>3, <1>5, <2>2
  <2>. QED
    BY <1>5, <2>1, <2>3
<1>7. Counts(code, data, Len(Whole(t)), Lo(t) .. Hi(t) - 1)
  <2>1. CASE Lo(t) <= Hi(t)
    BY <1>3, <2>1, BitsCount DEF Whole
  <2>2. CASE ~ (Lo(t) <= Hi(t))
    <3>1. Whole(t) = << >> /\ Lo(t) .. Hi(t) - 1 = {}
      BY <1>3, <2>2, BitsSteps DEF Whole
    <3>. QED
      BY <3>1, NoBits
  <2>. QED
    BY <2>1, <2>2
<1>8. cnt[t] = Len(Whole(t))
  BY <1>2, <1>6, <1>7, SameCount
<1>. QED
  BY <1>2, <1>8

(* The number of bits that a thread has put, and the bit that is next.       *)
LEMMA PutBits ==
  ASSUME Enc!TypeOK, NEW t \in Threads, Encoding(t)
  PROVE  /\ Put(t) \in Nat /\ Put(t) <= Len(Whole(t))
         /\ Enc!HasBit(t) => /\ Put(t) < Len(Whole(t))
                             /\ Whole(t)[Put(t) + 1] = code[data[k[t]]][b[t] + 1]
         /\ ~ Enc!HasSymbol(t) => Put(t) = Len(Whole(t))
<1>1. /\ size \in Nat /\ Lo(t) \in Nat /\ Hi(t) \in Nat /\ Hi(t) <= size
      /\ Coded(code, data, Lo(t), Hi(t))
      /\ Len(Whole(t)) \in Nat
  BY ChunkBits
<1>2. k[t] \in Nat /\ b[t] \in Nat
  BY DEF Enc!TypeOK, Enc!Threads, Threads
<1>3. /\ Lo(t) <= k[t] /\ (k[t] <= Hi(t) \/ k[t] = Lo(t))
      /\ IF Enc!HasSymbol(t) THEN b[t] <= Len(code[data[k[t]]]) ELSE b[t] = 0
  BY DEF Encoding, Lo, Hi
<1>4. PICK n \in Nat : Counts(code, data, n, Lo(t) .. k[t] - 1) /\ Put(t) = n + b[t]
  BY DEF Encoding, Lo
<1>. DEFINE u == Bits(code, data, Lo(t), k[t])
<1>5. n = Len(u)
  <2>1. Coded(code, data, Lo(t), k[t])
    BY <1>1, <1>2, <1>3 DEF Coded
  <2>2. Counts(code, data, Len(u), Lo(t) .. k[t] - 1)
    BY <1>1, <1>2, <1>3, <2>1, BitsCount
  <2>. HIDE DEF u
  <2>. QED
    BY <1>4, <2>2, SameCount
<1>6. Enc!HasSymbol(t) <=> k[t] < Hi(t)
  BY SameCuts DEF Enc!HasSymbol, Hi
<1>7. CASE Enc!HasSymbol(t)
  <2>. DEFINE e == code[data[k[t]]]
  <2>1. k[t] < Hi(t) /\ k[t] \in Int /\ Lo(t) \in Int /\ Hi(t) \in Int
    BY <1>1, <1>2, <1>6, <1>7
  <2>2. /\ e \in Seq({0, 1})
        /\ Len(u) + Len(e) <= Len(Whole(t))
        /\ \A z \in 1 .. Len(e) : Whole(t)[Len(u) + z] = e[z]
    <3>1. Lo(t) <= k[t] /\ Coded(code, data, Lo(t), Hi(t))
      BY <1>1, <1>3
    <3>. DEFINE x == k[t]
                lo == Lo(t)
                y == Hi(t)
    <3>. HIDE DEF x, lo, y
    <3>2. /\ lo \in Int /\ x \in Int /\ y \in Int /\ lo <= x /\ x < y
          /\ Coded(code, data, lo, y)
      BY <2>1, <3>1 DEF x, lo, y
    <3>3. LiesIn(code, data, lo, x, y)
      BY <3>2, CodeInside
    <3>. QED
      BY <3>3 DEF x, lo, y, Whole, LiesIn
  <2>3. Enc!HasBit(t) <=> b[t] < Len(e)
    BY <1>7 DEF Enc!HasBit
  <2>4. b[t] <= Len(e)
    BY <1>3, <1>7
  <2>. HIDE DEF e, u
  <2>5. Len(e) \in Nat
    BY <2>2, LenProperties
  <2>6. Put(t) \in Nat /\ Put(t) <= Len(Whole(t))
    BY <1>1, <1>2, <1>4, <1>5, <2>2, <2>4, <2>5
  <2>7. ASSUME b[t] < Len(e)
        PROVE  Put(t) < Len(Whole(t)) /\ Whole(t)[Put(t) + 1] = e[b[t] + 1]
    <3>1. b[t] + 1 \in 1 .. Len(e) /\ Len(u) + (b[t] + 1) = Put(t) + 1
      BY <1>2, <1>4, <1>5, <2>5, <2>7
    <3>2. Put(t) < Len(Whole(t))
      BY <1>1, <1>2, <1>4, <1>5, <2>2, <2>5, <2>7
    <3>. QED
      BY <2>2, <3>1, <3>2
  <2>. QED
    BY <1>7, <2>3, <2>6, <2>7 DEF e
<1>8. CASE ~ Enc!HasSymbol(t)
  <2>1. b[t] = 0 /\ ~ Enc!HasBit(t) /\ ~ (k[t] < Hi(t))
    BY <1>3, <1>6, <1>8 DEF Enc!HasBit
  <2>2. u = Whole(t)
    <3>1. CASE k[t] = Hi(t)
      BY <3>1 DEF Whole
    <3>2. CASE k[t] # Hi(t)
      <4>1. k[t] = Lo(t) /\ Hi(t) <= Lo(t)
        BY <1>1, <1>2, <1>3, <2>1, <3>2
      <4>. QED
        BY <1>1, <4>1, BitsSteps DEF Whole
    <3>. QED
      BY <3>1, <3>2
  <2>. HIDE DEF u
  <2>3. Put(t) = Len(Whole(t))
    BY <1>1, <1>4, <1>5, <2>1, <2>2
  <2>. QED
    BY <1>1, <1>8, <2>1, <2>3
<1>. QED
  BY <1>7, <1>8

(* The bytes of a thread that are full.                                      *)
FullBytes(t) == encPos[t] - encOffset[t]

(* What the thread has put is these bytes and the bits of the unfinished one.*)
LEMMA PutParts ==
  ASSUME Enc!TypeOK, NEW t \in Threads, Encoding(t)
  PROVE  /\ FullBytes(t) \in Nat /\ FullBytes(t) * ByteBits \in Nat
         /\ bit[t] \in Nat /\ bit[t] < ByteBits /\ ByteBits \in Nat \ {0}
         /\ Put(t) = FullBytes(t) * ByteBits + bit[t]
         /\ encPos[t] = encOffset[t] + FullBytes(t)
         /\ encOffset[t] \in Nat /\ encPos[t] \in Nat
<1>1. /\ encOffset[t] \in Nat /\ encPos[t] \in Nat /\ bit[t] \in 0 .. ByteBits - 1
      /\ encOffset[t] <= encPos[t] /\ ByteBits \in Nat \ {0}
  BY InputBounds DEF Enc!TypeOK, Enc!Threads, Threads, Encoding
<1>2. FullBytes(t) \in Nat /\ encPos[t] = encOffset[t] + FullBytes(t)
  BY <1>1 DEF FullBytes
<1>3. FullBytes(t) * ByteBits \in Nat
  BY <1>1, <1>2, SMT
<1>4. Put(t) = FullBytes(t) * ByteBits + bit[t]
  BY DEF Put, FullBytes
<1>. QED
  BY <1>1, <1>2, <1>3, <1>4

(* A multiple of the bits of a byte takes that many bytes.                   *)
LEMMA ExactBytes ==
  ASSUME NEW d \in Nat, NEW r \in Nat, r < ByteBits
  PROVE  Enc!BytesFor(d * ByteBits + r) = IF r = 0 THEN d ELSE d + 1
<1>1. ByteBits \in Nat \ {0}
  BY WidthAssumption
<1>. DEFINE n == d * ByteBits + r
            e == IF r = 0 THEN 0 ELSE 1
            v == IF r = 0 THEN ByteBits - 1 ELSE r - 1
<1>2. d * ByteBits \in Nat /\ d * ByteBits = ByteBits * d
  BY <1>1, SMT
<1>3. ByteBits * (d + 1) = ByteBits * d + ByteBits
  BY <1>1, SMT
<1>4. Enc!BytesFor(n) = (n + ByteBits - 1) \div ByteBits
  BY DEF Enc!BytesFor, Enc!UPDIV
<1>5. CASE r = 0
  <2>1. ByteBits - 1 \in 0 .. ByteBits - 1
    BY <1>1
  <2>2. (ByteBits * d + (ByteBits - 1)) \div ByteBits = d
    BY <1>1, <2>1, Remainder
  <2>3. n + ByteBits - 1 = ByteBits * d + (ByteBits - 1)
    BY <1>1, <1>2, <1>5
  <2>. QED
    BY <1>4, <1>5, <2>2, <2>3
<1>6. CASE r # 0
  <2>1. r - 1 \in 0 .. ByteBits - 1 /\ d + 1 \in Nat
    BY <1>1, <1>6
  <2>2. (ByteBits * (d + 1) + (r - 1)) \div ByteBits = d + 1
    BY <1>1, <2>1, Remainder
  <2>3. n + ByteBits - 1 = ByteBits * (d + 1) + (r - 1)
    BY <1>1, <1>2, <1>3, <1>6
  <2>. QED
    BY <1>4, <1>6, <2>2, <2>3
<1>. QED
  BY <1>5, <1>6

(* The slots do not overlap.                                                 *)
LEMMA SlotsApart ==
  ASSUME EncInv, encMain \in {"encode", "done"}, NEW t \in Threads, NEW u \in Threads, t # u
  PROVE  Enc!Slot(t) \cap Enc!Slot(u) = {}
<1>1. /\ NumThreads \in Nat \ {0} /\ m = NumThreads - 1
      /\ \A v \in Threads : encOffset[v] \in Nat /\ bytes[v] \in Nat
      /\ \A w \in 1 .. m : \A v \in 0 .. w - 1 : encOffset[v] + bytes[v] <= encOffset[w]
  BY InputBounds DEF EncInv, PrefixInv, Enc!TypeOK, Enc!Threads, Threads
<1>2. ASSUME NEW v \in Threads, NEW w \in Threads, v < w
      PROVE  Enc!Slot(v) \cap Enc!Slot(w) = {}
  <2>1. encOffset[v] + bytes[v] <= encOffset[w]
    BY <1>1, <1>2 DEF Threads
  <2>. QED
    BY <1>1, <2>1 DEF Enc!Slot
<1>3. t < u \/ u < t
  BY <1>1 DEF Threads
<1>. QED
  BY <1>2, <1>3

(* A running thread has written a part of its slot, and the byte it writes   *)
(* next belongs to it too.                                                   *)
LEMMA StoredInSlot ==
  ASSUME EncInv, encMain \in {"encode", "done"}, SameCut(size, NumThreads), NEW t \in Threads,
         encMain = "done" => encPc[t] = "end"
  PROVE  /\ Stored(t) \subseteq Enc!Slot(t)
         /\ encMain = "encode" /\ encPc[t] = "run" =>
              /\ FullBytes(t) <= bytes[t]
              /\ Put(t) < Len(Whole(t)) \/ (bit[t] > 0 /\ ~ Enc!HasSymbol(t)) =>
                   FullBytes(t) < bytes[t] /\ encPos[t] \in Enc!Slot(t)
<1>1. Enc!TypeOK /\ encMain # "size"
  BY DEF EncInv
<1>2. bytes[t] = Enc!BytesFor(Len(Whole(t))) /\ bytes[t] \in Nat /\ Len(Whole(t)) \in Nat
      /\ encOffset[t] \in Nat
  BY <1>1, SlotFitsChunk, ChunkBits DEF Enc!TypeOK, Enc!Threads, Threads
<1>3. ASSUME encMain = "encode", encPc[t] = "run"
      PROVE  /\ FullBytes(t) <= bytes[t]
             /\ Put(t) < Len(Whole(t)) \/ (bit[t] > 0 /\ ~ Enc!HasSymbol(t)) =>
                  FullBytes(t) < bytes[t] /\ encPos[t] \in Enc!Slot(t)
  <2>1. Encoding(t)
    BY <1>3 DEF EncInv, EncodingInv
  <2>. DEFINE d == FullBytes(t)
  <2>2. /\ d \in Nat /\ d * ByteBits \in Nat /\ bit[t] \in Nat /\ bit[t] < ByteBits
        /\ Put(t) = d * ByteBits + bit[t] /\ encPos[t] = encOffset[t] + d
        /\ ByteBits \in Nat \ {0}
    BY <1>1, <2>1, PutParts
  <2>3. /\ Put(t) \in Nat /\ Put(t) <= Len(Whole(t))
        /\ ~ Enc!HasSymbol(t) => Put(t) = Len(Whole(t))
    BY <1>1, <2>1, PutBits
  <2>. HIDE DEF d
  <2>4. ASSUME Put(t) < Len(Whole(t)) \/ (bit[t] > 0 /\ ~ Enc!HasSymbol(t))
        PROVE  d < bytes[t]
    <3>1. \E r \in Nat : d * ByteBits + r < Len(Whole(t))
      <4>1. CASE Put(t) < Len(Whole(t))
        BY <2>2, <4>1
      <4>2. CASE bit[t] > 0 /\ ~ Enc!HasSymbol(t)
        <5>1. bit[t] - 1 \in Nat /\ d * ByteBits + (bit[t] - 1) < Len(Whole(t))
          BY <1>2, <2>2, <2>3, <4>2
        <5>. QED
          BY <5>1
      <4>. QED
        BY <2>4, <4>1, <4>2
    <3>. QED
      BY <1>2, <2>2, <3>1, EnoughBytes
  <2>5. d <= bytes[t]
    <3>1. CASE d = 0
      BY <1>2, <3>1
    <3>2. CASE d # 0
      <4>. DEFINE c == d - 1
      <4>1. c \in Nat /\ d = c + 1
        BY <2>2, <3>2
      <4>. HIDE DEF c
      <4>2. d * ByteBits = c * ByteBits + ByteBits /\ c * ByteBits \in Nat
        BY <2>2, <4>1, SMT
      <4>3. c * ByteBits + (ByteBits - 1) < Len(Whole(t)) /\ ByteBits - 1 \in Nat
        BY <1>2, <2>2, <2>3, <4>2
      <4>4. c < bytes[t]
        BY <1>2, <4>1, <4>3, EnoughBytes
      <4>. QED
        BY <1>2, <4>1, <4>4
    <3>. QED
      BY <3>1, <3>2
  <2>6. d < bytes[t] => encPos[t] \in Enc!Slot(t)
    BY <1>2, <2>2 DEF Enc!Slot
  <2>. QED
    BY <2>4, <2>5, <2>6 DEF d
<1>4. Stored(t) \subseteq Enc!Slot(t)
  <2>1. CASE encMain = "encode" /\ encPc[t] = "run"
    <3>1. Encoding(t)
      BY <2>1 DEF EncInv, EncodingInv
    <3>2. encPos[t] = encOffset[t] + FullBytes(t) /\ FullBytes(t) \in Nat
      BY <1>1, <3>1, PutParts
    <3>3. Stored(t) = encOffset[t] .. encPos[t] - 1
      BY <2>1 DEF Stored
    <3>4. FullBytes(t) <= bytes[t]
      BY <1>3, <2>1
    <3>. QED
      BY <1>2, <3>2, <3>3, <3>4 DEF Enc!Slot
  <2>2. CASE encPc[t] = "begin" \/ encPc[t] # "run"
    BY <2>2 DEF Stored
  <2>. QED
    BY <2>1, <2>2
<1>. QED
  BY <1>3, <1>4

(* What a thread has written does not change while others work.              *)
LEMMA PackingStays ==
  ASSUME NEW u, UNCHANGED <<size, data, code, encMain, encOffset, bytes>>,
         encPc'[u] = encPc[u], encPos'[u] = encPos[u], bit'[u] = bit[u],
         encByte'[u] = encByte[u], table'[u] = table[u]
  PROVE  /\ Whole(u)' = Whole(u) /\ Stored(u)' = Stored(u)
         /\ Packing(u) => Packing(u)'
<1>1. Lo(u)' = Lo(u) /\ Hi(u)' = Hi(u)
  BY DEF Lo, Hi
<1>2. Whole(u)' = Whole(u)
  BY <1>1 DEF Whole
<1>3. Enc!Slot(u)' = Enc!Slot(u)
  BY DEF Enc!Slot
<1>4. Stored(u)' = Stored(u)
  BY <1>3 DEF Stored
<1>5. Filling(u)' = Filling(u)
  BY <1>2 DEF Filling
<1>. QED
  BY <1>2, <1>4, <1>5 DEF Packing

(* Nothing is written before do_encode starts, ...                           *)
LEMMA PackingBefore ==
  ASSUME PackingInv, encMain \in {"size", "prefix"}, UNCHANGED <<payload, encByte>>,
         \/ encMain' \in {"size", "prefix"}
         \/ encMain' = "encode" /\ \A t \in Threads : encPc'[t] = "begin",
         \A u \in 1 .. m' : encOffset'[u] = encOffset'[u - 1] + bytes'[u - 1]
  PROVE  PackingInv'
<1>1. \A t \in Threads : Stored(t) = {} /\ Stored(t)' = {} /\ encByte[t] = {}
  BY DEF PackingInv, Packing, Stored
<1>2. \A t \in Threads : Packing(t)'
  BY <1>1 DEF Packing
<1>3. DOMAIN payload' = UNION {Stored(t)' : t \in Threads}
  BY <1>1 DEF PackingInv
<1>. QED
  BY <1>1, <1>2, <1>3 DEF PackingInv

(* ... and a step that writes no byte leaves the others' as they are.        *)
LEMMA PackingOfOne ==
  ASSUME PackingInv, NEW t \in Threads, encMain = "encode",
         UNCHANGED <<size, data, code, encMain, encOffset, bytes, m, payload>>,
         \A u \in Threads \ {t} :
           /\ encPc'[u] = encPc[u] /\ encPos'[u] = encPos[u] /\ bit'[u] = bit[u]
           /\ encByte'[u] = encByte[u] /\ table'[u] = table[u],
         Packing(t)', Stored(t)' = Stored(t)
  PROVE  PackingInv'
<1>1. \A u \in Threads \ {t} : /\ Whole(u)' = Whole(u) /\ Stored(u)' = Stored(u)
                               /\ Packing(u)'
  BY PackingStays DEF PackingInv
<1>2. Whole(t)' = Whole(t)
  BY DEF Whole, Lo, Hi
<1>3. \A u \in Threads : /\ Whole(u)' = Whole(u) /\ Stored(u)' = Stored(u) /\ Packing(u)'
  BY <1>1, <1>2
<1>4. DOMAIN payload' = UNION {Stored(u)' : u \in Threads}
  BY <1>3 DEF PackingInv
<1>5. \A u \in Threads : \A a \in Stored(u)' :
        payload'[a] = Pack(Whole(u)')[a - encOffset'[u]]
  BY <1>3 DEF PackingInv
<1>6. \A u \in 1 .. m' : encOffset'[u] = encOffset'[u - 1] + bytes'[u - 1]
  BY DEF PackingInv
<1>. QED
  BY <1>3, <1>4, <1>5, <1>6 DEF PackingInv

(* The byte that is written is the next one of the thread's chunk, and its   *)
(* address belongs to no other thread.                                       *)
LEMMA PackingOfStore ==
  ASSUME PackingInv, EncInv, SameCut(size, NumThreads), NEW t \in Threads,
         encMain = "encode", encPc[t] = "run",
         UNCHANGED <<size, data, code, encMain, encOffset, bytes, m>>,
         \A u \in Threads \ {t} :
           /\ encPc'[u] = encPc[u] /\ encPos'[u] = encPos[u] /\ bit'[u] = bit[u]
           /\ encByte'[u] = encByte[u] /\ table'[u] = table[u],
         Enc!Store(encPos[t], Pack(Whole(t))[FullBytes(t)]),
         encPos[t] \in Enc!Slot(t),
         Packing(t)', Stored(t)' = Stored(t) \cup {encPos[t]}
  PROVE  PackingInv'
<1>1. \A u \in Threads \ {t} : /\ Whole(u)' = Whole(u) /\ Stored(u)' = Stored(u)
                               /\ Packing(u)'
  BY PackingStays DEF PackingInv
<1>2. Whole(t)' = Whole(t)
  BY DEF Whole, Lo, Hi
<1>3. \A u \in Threads : /\ Whole(u)' = Whole(u) /\ Packing(u)'
  BY <1>1, <1>2
<1>. DEFINE a0 == encPos[t]
            v0 == Pack(Whole(t))[FullBytes(t)]
<1>4. payload' = [a \in DOMAIN payload \cup {a0} |-> IF a = a0 THEN v0 ELSE payload[a]]
  BY DEF Enc!Store
<1>. HIDE DEF v0
<1>5. DOMAIN payload' = UNION {Stored(u)' : u \in Threads}
  BY <1>1, <1>4 DEF PackingInv
<1>6. ASSUME NEW u \in Threads, NEW a \in Stored(u)'
      PROVE  payload'[a] = Pack(Whole(u)')[a - encOffset'[u]]
  <2>1. CASE a = a0
    <3>1. u = t
      <4>. SUFFICES ASSUME u # t PROVE FALSE
        OBVIOUS
      <4>1. a \in Stored(u) /\ Stored(u) \subseteq Enc!Slot(u)
        BY <1>1, <1>6, StoredInSlot
      <4>2. Enc!Slot(t) \cap Enc!Slot(u) = {}
        BY SlotsApart
      <4>. QED
        BY <2>1, <4>1, <4>2
    <3>2. payload'[a] = v0
      BY <1>4, <2>1
    <3>3. a - encOffset'[u] = FullBytes(t)
      BY <2>1, <3>1 DEF FullBytes
    <3>. QED
      BY <1>2, <3>1, <3>2, <3>3 DEF v0
  <2>2. CASE a # a0
    <3>1. a \in Stored(u)
      BY <1>1, <1>6, <2>2
    <3>2. a \in DOMAIN payload /\ payload[a] = Pack(Whole(u))[a - encOffset[u]]
      BY <3>1 DEF PackingInv
    <3>3. payload'[a] = payload[a]
      BY <1>4, <2>2, <3>2
    <3>. QED
      BY <1>3, <3>2, <3>3
  <2>. QED
    BY <2>1, <2>2
<1>7. \A u \in 1 .. m' : encOffset'[u] = encOffset'[u - 1] + bytes'[u - 1]
  BY DEF PackingInv
<1>. QED
  BY <1>3, <1>5, <1>6, <1>7 DEF PackingInv

(* One more bit in the byte that is being filled.                            *)
LEMMA NextBit ==
  ASSUME EncInv, PackingInv, NEW t \in Threads, encMain = "encode", encPc[t] = "run",
         Enc!HasBit(t)
  PROVE  Enc!WithNextBit(t) =
           {x \in 0 .. bit[t] : Whole(t)[FullBytes(t) * ByteBits + x + 1] = 1}
<1>1. Enc!TypeOK /\ Encoding(t)
  BY DEF EncInv, EncodingInv
<1>2. encByte[t] = Filling(t)
  BY DEF PackingInv, Packing
<1>. DEFINE d == FullBytes(t)
            e == d * ByteBits
            w == Whole(t)
<1>3. d \in Nat /\ e \in Nat /\ bit[t] \in Nat /\ Put(t) = e + bit[t]
  BY <1>1, PutParts
<1>4. w[Put(t) + 1] = code[data[k[t]]][b[t] + 1]
  BY <1>1, PutBits
<1>5. Filling(t) = {x \in 0 .. bit[t] - 1 : w[e + x + 1] = 1}
  BY DEF Filling, FullBytes
<1>6. Enc!WithNextBit(t) = IF w[e + bit[t] + 1] = 1 THEN encByte[t] \cup {bit[t]} ELSE encByte[t]
  BY <1>3, <1>4 DEF Enc!WithNextBit
<1>. HIDE DEF d, e, w
<1>7. Enc!WithNextBit(t) = {x \in 0 .. bit[t] : w[e + x + 1] = 1}
  <2>1. 0 .. bit[t] = (0 .. bit[t] - 1) \cup {bit[t]}
    BY <1>3
  <2>2. {x \in 0 .. bit[t] : w[e + x + 1] = 1} =
          {x \in 0 .. bit[t] - 1 : w[e + x + 1] = 1}
            \cup {x \in {bit[t]} : w[e + x + 1] = 1}
    BY <2>1
  <2>. QED
    BY <1>2, <1>5, <1>6, <2>2
<1>. QED
  BY <1>7 DEF d, e, w

(* The byte that FillByte or Flush writes is that of the reference.          *)
LEMMA ByteWritten ==
  ASSUME EncInv, PackingInv, SameCut(size, NumThreads), NEW t \in Threads,
         encMain = "encode", encPc[t] = "run"
  PROVE  /\ Enc!HasBit(t) /\ bit[t] + 1 = ByteBits =>
              /\ Enc!WithNextBit(t) = Pack(Whole(t))[FullBytes(t)]
              /\ encPos[t] \in Enc!Slot(t)
         /\ ~ Enc!HasSymbol(t) /\ bit[t] > 0 =>
              /\ encByte[t] = Pack(Whole(t))[FullBytes(t)]
              /\ encPos[t] \in Enc!Slot(t)
<1>1. Enc!TypeOK /\ Encoding(t) /\ encMain # "size"
  BY DEF EncInv, EncodingInv
<1>. DEFINE d == FullBytes(t)
            e == d * ByteBits
            w == Whole(t)
<1>2. /\ d \in Nat /\ e \in Nat /\ bit[t] \in Nat /\ bit[t] < ByteBits
      /\ Put(t) = e + bit[t] /\ ByteBits \in Nat \ {0}
  BY <1>1, PutParts
<1>3. /\ Put(t) <= Len(w) /\ Len(w) \in Nat
      /\ Enc!HasBit(t) => Put(t) < Len(w)
      /\ ~ Enc!HasSymbol(t) => Put(t) = Len(w)
  BY <1>1, PutBits, ChunkBits
<1>4. bytes[t] = Enc!BytesFor(Len(w))
  BY <1>1, SlotFitsChunk
<1>5. Put(t) < Len(w) \/ (bit[t] > 0 /\ ~ Enc!HasSymbol(t)) =>
        d < bytes[t] /\ encPos[t] \in Enc!Slot(t)
  BY StoredInSlot
<1>6. d < bytes[t] => Pack(w)[d] = {x \in 0 .. ByteBits - 1 : e + x < Len(w) /\ w[e + x + 1] = 1}
  <2>. SUFFICES ASSUME d < bytes[t]
                PROVE  Pack(w)[d] = {x \in 0 .. ByteBits - 1 : e + x < Len(w) /\ w[e + x + 1] = 1}
    OBVIOUS
  <2>. HIDE DEF w
  <2>. DEFINE n == bytes[t]
  <2>1. n \in Nat
    BY <1>3, <1>4, PackValues
  <2>2. d \in 0 .. n - 1
    <3>. HIDE DEF d, n
    <3>. QED
      BY <1>2, <2>1 DEF n
  <2>. HIDE DEF d
  <2>. QED
    BY <1>3, <1>4, <2>2, PackValues
<1>7. ASSUME Enc!HasBit(t), bit[t] + 1 = ByteBits
      PROVE  Enc!WithNextBit(t) = Pack(w)[d] /\ encPos[t] \in Enc!Slot(t)
  <2>1. Enc!WithNextBit(t) = {x \in 0 .. bit[t] : w[e + x + 1] = 1}
    BY <1>7, NextBit
  <2>2. d < bytes[t] /\ encPos[t] \in Enc!Slot(t)
    BY <1>3, <1>5, <1>7
  <2>. HIDE DEF d, e, w
  <2>3. bit[t] = ByteBits - 1 /\ \A x \in 0 .. bit[t] : e + x < Len(w)
    BY <1>2, <1>3, <1>7
  <2>4. Pack(w)[d] = {x \in 0 .. bit[t] : w[e + x + 1] = 1}
    BY <1>6, <2>2, <2>3
  <2>. QED
    BY <2>1, <2>2, <2>4
<1>8. ASSUME ~ Enc!HasSymbol(t), bit[t] > 0
      PROVE  encByte[t] = Pack(w)[d] /\ encPos[t] \in Enc!Slot(t)
  <2>1. encByte[t] = {x \in 0 .. bit[t] - 1 : w[e + x + 1] = 1}
    BY DEF PackingInv, Packing, Filling, FullBytes
  <2>2. d < bytes[t] /\ encPos[t] \in Enc!Slot(t)
    BY <1>5, <1>8
  <2>. HIDE DEF d, e, w
  <2>3. \A x \in 0 .. ByteBits - 1 : e + x < Len(w) <=> x \in 0 .. bit[t] - 1
    BY <1>2, <1>3, <1>8
  <2>4. 0 .. bit[t] - 1 \subseteq 0 .. ByteBits - 1
    BY <1>2
  <2>5. Pack(w)[d] = {x \in 0 .. bit[t] - 1 : w[e + x + 1] = 1}
    BY <1>6, <2>2, <2>3, <2>4
  <2>. QED
    BY <2>1, <2>2, <2>5
<1>. QED
  BY <1>7, <1>8 DEF d, w

(* What do_encode writes is the reference encoding, byte by byte.            *)
LEMMA StoreOffsetPacking ==
  ASSUME EncInv, PackingInv, NEW t \in Threads, Enc!StoreOffset(t)
  PROVE  PackingInv'
<1>1. /\ encMain = "encode" /\ encPc[t] = "begin"
      /\ table'[t] = encOffset[t] /\ encPos'[t] = encOffset[t] /\ encPc'[t] = "run"
      /\ UNCHANGED <<size, data, code, encMain, encOffset, bytes, m, payload, encByte, bit>>
      /\ \A u \in Threads \ {t} :
           /\ encPc'[u] = encPc[u] /\ encPos'[u] = encPos[u] /\ table'[u] = table[u]
  BY DEF Enc!StoreOffset, Enc!input, Enc!sizing, EncInv, Enc!TypeOK, Enc!Threads, Threads
<1>2. encOffset[t] \in Nat
  BY DEF EncInv, Enc!TypeOK, Enc!Threads, Threads
<1>3. encByte[t] = {} /\ bit[t] = 0 /\ Stored(t) = {}
  BY <1>1 DEF PackingInv, Packing, EncInv, EncodingInv, Stored
<1>4. Stored(t)' = {}
  BY <1>1, <1>2 DEF Stored
<1>5. Filling(t)' = {}
  BY <1>1, <1>3 DEF Filling
<1>6. Packing(t)'
  BY <1>1, <1>3, <1>5 DEF Packing
<1>. QED
  BY <1>1, <1>3, <1>4, <1>6, PackingOfOne

(* A bit that does not fill the byte ...                                     *)
LEMMA AddBitPacking ==
  ASSUME EncInv, PackingInv, NEW t \in Threads, Enc!AddBit(t)
  PROVE  PackingInv'
<1>1. /\ encMain = "encode" /\ encPc[t] = "run" /\ Enc!HasBit(t)
      /\ encByte'[t] = Enc!WithNextBit(t) /\ bit'[t] = bit[t] + 1
      /\ UNCHANGED <<size, data, code, encMain, encPc, encOffset, bytes, m, table, payload,
                     encPos>>
      /\ \A u \in Threads \ {t} : encByte'[u] = encByte[u] /\ bit'[u] = bit[u]
  BY DEF Enc!AddBit, Enc!Running, Enc!input, Enc!sizing, EncInv, Enc!TypeOK, Enc!Threads, Threads
<1>2. Stored(t)' = Stored(t) /\ Whole(t)' = Whole(t)
  BY <1>1 DEF Stored, Whole, Lo, Hi, Enc!Slot
<1>3. bit[t] \in Nat
  <2>1. bit[t] \in 0 .. ByteBits - 1 /\ ByteBits \in Nat
    BY InputBounds DEF EncInv, Enc!TypeOK, Enc!Threads, Threads
  <2>. QED
    BY <2>1
<1>4. bit'[t] - 1 = bit[t]
  BY <1>1, <1>3
<1>5. Filling(t)' = Enc!WithNextBit(t)
  <2>1. Enc!WithNextBit(t) =
           {x \in 0 .. bit[t] : Whole(t)[FullBytes(t) * ByteBits + x + 1] = 1}
    BY <1>1, NextBit
  <2>. QED
    BY <1>1, <1>2, <1>4, <2>1 DEF Filling, FullBytes
<1>6. table[t] = encOffset[t]
  BY <1>1 DEF PackingInv, Packing
<1>7. Packing(t)'
  BY <1>1, <1>5, <1>6 DEF Packing
<1>. QED
  BY <1>1, <1>2, <1>7, PackingOfOne

(* ... one that does ...                                                     *)
LEMMA FillBytePacking ==
  ASSUME EncInv, PackingInv, SameCut(size, NumThreads), NEW t \in Threads, Enc!FillByte(t)
  PROVE  PackingInv'
<1>1. /\ encMain = "encode" /\ encPc[t] = "run" /\ Enc!HasBit(t) /\ bit[t] + 1 = ByteBits
      /\ Enc!Store(encPos[t], Enc!WithNextBit(t))
      /\ encPos'[t] = encPos[t] + 1 /\ encByte'[t] = {} /\ bit'[t] = 0
      /\ UNCHANGED <<size, data, code, encMain, encPc, encOffset, bytes, m, table>>
      /\ \A u \in Threads \ {t} : /\ encByte'[u] = encByte[u] /\ bit'[u] = bit[u]
                                  /\ encPos'[u] = encPos[u]
  BY DEF Enc!FillByte, Enc!Running, Enc!input, Enc!sizing, EncInv, Enc!TypeOK, Enc!Threads, Threads
<1>2. Enc!WithNextBit(t) = Pack(Whole(t))[FullBytes(t)] /\ encPos[t] \in Enc!Slot(t)
  BY <1>1, ByteWritten
<1>3. encPos[t] \in Nat /\ encOffset[t] \in Nat /\ encOffset[t] <= encPos[t]
  BY <1>1 DEF EncInv, EncodingInv, Encoding, Enc!TypeOK, Enc!Threads, Threads
<1>4. Stored(t)' = Stored(t) \cup {encPos[t]}
  BY <1>1, <1>3 DEF Stored
<1>5. Filling(t)' = {}
  BY <1>1 DEF Filling
<1>6. table[t] = encOffset[t]
  BY <1>1 DEF PackingInv, Packing
<1>7. Packing(t)'
  BY <1>1, <1>5, <1>6 DEF Packing
<1>8. \A u \in Threads \ {t} :
           /\ encPc'[u] = encPc[u] /\ encPos'[u] = encPos[u] /\ bit'[u] = bit[u]
           /\ encByte'[u] = encByte[u] /\ table'[u] = table[u]
  BY <1>1
<1>. QED
  BY <1>1, <1>2, <1>4, <1>7, <1>8, PackingOfStore

(* ... the end of a code ...                                                *)
LEMMA NextSymbolPacking ==
  ASSUME PackingInv, NEW t \in Threads, Enc!NextSymbol(t)
  PROVE  PackingInv'
<1>1. /\ encMain = "encode"
      /\ UNCHANGED <<size, data, code, encMain, encPc, encOffset, bytes, m, table, payload,
                     encPos, encByte, bit>>
  BY DEF Enc!NextSymbol, Enc!Running, Enc!input, Enc!sizing
<1>2. Packing(t)' /\ Stored(t)' = Stored(t)
  BY <1>1, PackingStays DEF PackingInv
<1>. QED
  BY <1>1, <1>2, PackingOfOne

(* ... and the end of the chunk.                                             *)
LEMMA FlushPacking ==
  ASSUME EncInv, PackingInv, SameCut(size, NumThreads), NEW t \in Threads, Enc!Flush(t)
  PROVE  PackingInv'
<1>1. /\ encMain = "encode" /\ encPc[t] = "run" /\ ~ Enc!HasSymbol(t)
      /\ IF bit[t] > 0 THEN Enc!Store(encPos[t], encByte[t]) ELSE UNCHANGED payload
      /\ encPc'[t] = "end"
      /\ UNCHANGED <<size, data, code, encMain, encOffset, bytes, m, table, encPos, encByte, bit>>
      /\ \A u \in Threads \ {t} : encPc'[u] = encPc[u]
  BY DEF Enc!Flush, Enc!Running, Enc!HasPartialByte, Enc!input, Enc!sizing, EncInv, Enc!TypeOK,
         Enc!Threads, Threads
<1>2. Enc!TypeOK /\ Encoding(t) /\ encMain # "size"
  BY <1>1 DEF EncInv, EncodingInv
<1>3. /\ FullBytes(t) \in Nat /\ bit[t] \in Nat /\ bit[t] < ByteBits
      /\ Put(t) = FullBytes(t) * ByteBits + bit[t] /\ encPos[t] = encOffset[t] + FullBytes(t)
      /\ encOffset[t] \in Nat
  BY <1>2, PutParts
<1>4. bytes[t] = IF bit[t] = 0 THEN FullBytes(t) ELSE FullBytes(t) + 1
  <2>1. Put(t) = Len(Whole(t))
    BY <1>1, <1>2, PutBits
  <2>2. bytes[t] = Enc!BytesFor(Len(Whole(t)))
    BY <1>2, SlotFitsChunk
  <2>. DEFINE d == FullBytes(t)
              r == bit[t]
  <2>3. d \in Nat /\ r \in Nat /\ r < ByteBits
    BY <1>3
  <2>4. bytes[t] = Enc!BytesFor(d * ByteBits + r)
    BY <1>3, <2>1, <2>2
  <2>. HIDE DEF d, r
  <2>5. Enc!BytesFor(d * ByteBits + r) = IF r = 0 THEN d ELSE d + 1
    BY <2>3, ExactBytes
  <2>6. bytes[t] = IF r = 0 THEN d ELSE d + 1
    BY <2>4, <2>5
  <2>. QED
    BY <2>6 DEF d, r
<1>5. Stored(t) = encOffset[t] .. encPos[t] - 1 /\ Stored(t)' = Enc!Slot(t)
  BY <1>1 DEF Stored, Enc!Slot
<1>6. table[t] = encOffset[t]
  BY <1>1 DEF PackingInv, Packing
<1>7. Packing(t)'
  BY <1>1, <1>6 DEF Packing
<1>8. \A u \in Threads \ {t} :
           /\ encPc'[u] = encPc[u] /\ encPos'[u] = encPos[u] /\ bit'[u] = bit[u]
           /\ encByte'[u] = encByte[u] /\ table'[u] = table[u]
  BY <1>1
<1>9. CASE bit[t] = 0
  <2>1. Stored(t)' = Stored(t)
    BY <1>3, <1>4, <1>5, <1>9 DEF Enc!Slot
  <2>2. payload' = payload
    BY <1>1, <1>9
  <2>. QED
    BY <1>1, <1>7, <1>8, <2>1, <2>2, PackingOfOne
<1>10. CASE bit[t] # 0
  <2>1. bit[t] > 0
    BY <1>3, <1>10
  <2>2. encByte[t] = Pack(Whole(t))[FullBytes(t)] /\ encPos[t] \in Enc!Slot(t)
    BY <1>1, <2>1, ByteWritten
  <2>3. Stored(t)' = Stored(t) \cup {encPos[t]}
    BY <1>3, <1>4, <1>5, <1>10 DEF Enc!Slot
  <2>4. Enc!Store(encPos[t], Pack(Whole(t))[FullBytes(t)])
    BY <1>1, <2>1, <2>2
  <2>. QED
    BY <1>1, <1>7, <1>8, <2>2, <2>3, <2>4, PackingOfStore
<1>. QED
  BY <1>9, <1>10

(* The encoder keeps to the reference from its first step on ...             *)
LEMMA PackingInit ==
  ASSUME Enc!Init
  PROVE  PackingInv
<1>1. /\ encMain = "size" /\ payload = << >> /\ m = 0
      /\ \A t \in Threads : encByte[t] = {}
  BY DEF Enc!Init, Enc!Threads, Threads
<1>2. \A t \in Threads : Stored(t) = {} /\ Packing(t)
  BY <1>1 DEF Stored, Packing
<1>3. DOMAIN payload = {}
  BY <1>1
<1>4. DOMAIN payload = UNION {Stored(t) : t \in Threads}
  BY <1>2, <1>3
<1>5. 1 .. m = {}
  BY <1>1
<1>. QED
  BY <1>1, <1>2, <1>4, <1>5 DEF PackingInv

(* ... to its last.                                                          *)
LEMMA PackingStep ==
  ASSUME EncInv, PackingInv, SameCut(size, NumThreads),
         (\E t \in Threads : Enc!Step(t)) \/ Enc!MainStep
  PROVE  PackingInv'
<1>1. ASSUME NEW t \in Threads, Enc!CountCode(t) \/ Enc!StoreBytes(t)
      PROVE  PackingInv'
  <2>1. /\ encMain = "size" /\ encMain' = "size" /\ m' = m
        /\ UNCHANGED <<payload, encByte, encOffset>>
    BY <1>1 DEF Enc!CountCode, Enc!StoreBytes, Enc!encoding
  <2>2. 1 .. m' = {}
    BY <2>1 DEF EncInv, PrefixInv
  <2>. QED
    BY <2>1, <2>2, PackingBefore
<1>2. CASE Enc!EndOfSizing
  BY <1>2, PackingBefore DEF Enc!EndOfSizing, Enc!encoding, Enc!sizing, PackingInv
<1>3. CASE Enc!NextOffset
  <2>1. /\ encMain = "prefix" /\ encMain' = "prefix" /\ m < NumThreads - 1
        /\ sum' = sum + bytes[m]
        /\ encOffset' = [encOffset EXCEPT ![m + 1] = sum']
        /\ m' = m + 1
        /\ UNCHANGED <<bytes, payload, encByte>>
    BY <1>3 DEF Enc!NextOffset, Enc!sizing, Enc!encoding
  <2>2. /\ m \in 0 .. NumThreads - 1 /\ NumThreads \in Nat \ {0}
        /\ encOffset \in [0 .. NumThreads - 1 -> Nat]
    BY InputBounds DEF EncInv, Enc!TypeOK, Enc!Threads
  <2>3. sum = encOffset[m]
    BY DEF EncInv, PrefixInv
  <2>4. m + 1 \in 0 .. NumThreads - 1 /\ m + 1 # m
    BY <2>1, <2>2
  <2>5. encOffset'[m + 1] = encOffset[m] + bytes[m] /\ encOffset'[m] = encOffset[m]
    BY <2>1, <2>2, <2>3, <2>4
  <2>6. ASSUME NEW u \in 1 .. m + 1
        PROVE  encOffset'[u] = encOffset'[u - 1] + bytes'[u - 1]
    <3>1. CASE u = m + 1
      <4>1. u - 1 = m
        BY <2>2, <3>1
      <4>. QED
        BY <2>1, <2>5, <3>1, <4>1
    <3>2. CASE u # m + 1
      <4>1. u \in 1 .. m /\ u # m + 1 /\ u - 1 # m + 1
        BY <2>2, <2>6, <3>2
      <4>2. encOffset[u] = encOffset[u - 1] + bytes[u - 1]
        BY <4>1 DEF PackingInv
      <4>3. u \in 0 .. NumThreads - 1 /\ u - 1 \in 0 .. NumThreads - 1
        BY <2>2, <4>1
      <4>4. encOffset'[u] = encOffset[u] /\ encOffset'[u - 1] = encOffset[u - 1]
        BY <2>1, <2>2, <4>1, <4>3
      <4>. QED
        BY <2>1, <4>2, <4>4
    <3>. QED
      BY <3>1, <3>2
  <2>. QED
    BY <2>1, <2>6, PackingBefore
<1>4. CASE Enc!StartEncoding
  BY <1>4, PackingBefore
  DEF Enc!StartEncoding, Enc!encoding, Enc!sizing, Enc!Threads, Threads, PackingInv
<1>5. CASE Enc!EndOfEncoding
  <2>1. /\ encMain = "encode" /\ encMain' = "done" /\ \A t \in Threads : encPc[t] = "end"
        /\ UNCHANGED <<size, data, code, encPc, bytes, m, encOffset, table, payload>>
    BY <1>5 DEF Enc!EndOfEncoding, Enc!TeamFinished, Enc!Threads, Threads, Enc!input,
                Enc!sizing, Enc!encoding
  <2>2. \A t \in Threads : /\ Stored(t)' = Stored(t) /\ Whole(t)' = Whole(t)
                           /\ table'[t] = encOffset'[t]
    BY <2>1 DEF Stored, Enc!Slot, Whole, Lo, Hi, PackingInv, Packing
  <2>3. \A t \in Threads : Packing(t)'
    BY <2>1, <2>2 DEF Packing
  <2>4. DOMAIN payload' = UNION {Stored(t)' : t \in Threads}
    BY <2>1, <2>2 DEF PackingInv
  <2>5. \A t \in Threads : \A a \in Stored(t)' :
          payload'[a] = Pack(Whole(t)')[a - encOffset'[t]]
    BY <2>1, <2>2 DEF PackingInv
  <2>6. \A u \in 1 .. m' : encOffset'[u] = encOffset'[u - 1] + bytes'[u - 1]
    BY <2>1 DEF PackingInv
  <2>. QED
    BY <2>1, <2>3, <2>4, <2>5, <2>6 DEF PackingInv
<1>. QED
  BY <1>1, <1>2, <1>3, <1>4, <1>5, StoreOffsetPacking, AddBitPacking, FillBytePacking,
     NextSymbolPacking, FlushPacking
  DEF Enc!Step, Enc!MainStep

(* Only the encoder's own steps concern it.                                  *)
LEMMA PackingFrame ==
  ASSUME PackingInv, UNCHANGED <<file, table, payload, encVars>>
  PROVE  PackingInv'
<1>1. /\ UNCHANGED <<size, data, code, table, payload>>
      /\ UNCHANGED <<encMain, encPc, bytes, m, encOffset, encPos, encByte, bit>>
  BY DEF file, encVars
<1>2. \A t \in Threads : Whole(t)' = Whole(t) /\ Stored(t)' = Stored(t) /\ Packing(t)'
  BY <1>1, PackingStays DEF PackingInv
<1>3. DOMAIN payload' = UNION {Stored(t)' : t \in Threads}
  BY <1>1, <1>2 DEF PackingInv
<1>4. \A t \in Threads : \A a \in Stored(t)' :
        payload'[a] = Pack(Whole(t)')[a - encOffset'[t]]
  BY <1>1, <1>2 DEF PackingInv
<1>5. /\ \A u \in 1 .. m' : encOffset'[u] = encOffset'[u - 1] + bytes'[u - 1]
      /\ encMain' = "done" => \A t \in Threads : encPc'[t] = "end"
  BY <1>1 DEF PackingInv
<1>. QED
  BY <1>2, <1>3, <1>4, <1>5 DEF PackingInv

(* The packing invariant is inductive where the cuts agree.                  *)
LEMMA PackingAlways ==
  ASSUME \A n \in Sizes : SameCut(n, NumThreads)
  PROVE  Spec => [](Inv /\ PackingInv)
<1>1. Init => PackingInv
  BY PackingInit DEF Init
<1>2. Inv /\ PackingInv /\ [Next]_vars => PackingInv'
  <2>. SUFFICES ASSUME Inv, PackingInv, [Next]_vars PROVE PackingInv'
    OBVIOUS
  <2>1. EncInv /\ SameCut(size, NumThreads)
    BY DEF Inv, EncInv, Enc!TypeOK
  <2>2. CASE EncodeParallel
    BY <2>1, <2>2, PackingStep DEF EncodeParallel
  <2>3. CASE UNCHANGED <<table, payload, encVars>>
    BY <2>3, Frame, PackingFrame
  <2>. QED
    BY <2>2, <2>3, Frame
<1>. QED
  BY <1>1, <1>2, InvAlways, PTL DEF Spec

(* The function that the decoder's reference finds the offsets with.         *)
IsStart(f) ==
  f = [t \in Threads |-> IF t = 0 THEN 0 ELSE f[t - 1] + Dec!PackedSize(t - 1)]

(* The offsets are one that CHOOSE takes, ...                                *)
LEMMA StartIs == Dec!PackedStart = CHOOSE f : IsStart(f)
BY DEF Dec!PackedStart, IsStart, Dec!Threads, Threads

(* ... and there is only one.                                                *)
LEMMA StartsAgree ==
  ASSUME NEW f, NEW g, IsStart(f), IsStart(g)
  PROVE  f = g
<1>. DEFINE K == {n \in Nat : n \in Threads => f[n] = g[n]}
            F == [t \in Threads |-> IF t = 0 THEN 0 ELSE f[t - 1] + Dec!PackedSize(t - 1)]
            G == [t \in Threads |-> IF t = 0 THEN 0 ELSE g[t - 1] + Dec!PackedSize(t - 1)]
<1>1. f = F /\ g = G
  BY DEF IsStart
<1>2. \A t \in Threads : /\ F[t] = IF t = 0 THEN 0 ELSE f[t - 1] + Dec!PackedSize(t - 1)
                         /\ G[t] = IF t = 0 THEN 0 ELSE g[t - 1] + Dec!PackedSize(t - 1)
  OBVIOUS
<1>3. DOMAIN F = Threads /\ DOMAIN G = Threads /\ F = [t \in Threads |-> F[t]]
      /\ G = [t \in Threads |-> G[t]]
  OBVIOUS
<1>. HIDE DEF F, G
<1>4. 0 \in K
  BY <1>1, <1>2
<1>5. ASSUME NEW n \in Nat, n \in K PROVE n + 1 \in K
  <2>. SUFFICES ASSUME n + 1 \in Threads PROVE f[n + 1] = g[n + 1]
    OBVIOUS
  <2>1. n \in Threads /\ n + 1 # 0 /\ (n + 1) - 1 = n
    BY NumThreadsAssumption DEF Threads
  <2>2. f[n] = g[n]
    BY <1>5, <2>1
  <2>3. f[n + 1] = f[n] + Dec!PackedSize(n) /\ g[n + 1] = g[n] + Dec!PackedSize(n)
    BY <1>1, <1>2, <2>1
  <2>. QED
    BY <2>2, <2>3
<1>. HIDE DEF K
<1>6. \A n \in Nat : n \in K
  BY <1>4, <1>5, AllNumbers
<1>7. \A t \in Threads : f[t] = g[t]
  <2>1. \A t \in Threads : t \in Nat
    BY NumThreadsAssumption DEF Threads
  <2>. QED
    BY <1>6, <2>1 DEF K
<1>8. \A t \in Threads : F[t] = G[t]
  BY <1>1, <1>7
<1>9. F = G
  BY <1>3, <1>8
<1>. QED
  BY <1>1, <1>9

(* What the decoder expects of a chunk is what was measured and packed.      *)
LEMMA PackedIs ==
  ASSUME NEW t
  PROVE  Dec!Packed(t) = Pack(Whole(t))
<1>1. Dec!ChunkStart(size, NumThreads, t) = Lo(t) /\ Dec!ChunkEnd(size, NumThreads, t) = Hi(t)
  BY DEF Lo, Hi, Dec!ChunkStart, ChunkStart, Dec!ChunkEnd, ChunkEnd, Dec!UPDIV, UPDIV,
         Dec!Least, Least
<1>. QED
  BY <1>1
  DEF Dec!Packed, Dec!PackedChunk, Dec!CodeBits, CodeBits, Dec!PackBits, PackBits,
      Dec!FlattenSeq, FlattenSeq, Dec!UPDIV, UPDIV, Pack, Whole, Bits

(* The offsets that the prefix loop leaves are those of the reference.       *)
LEMMA OffsetsArePacked ==
  ASSUME Inv, PackingInv, SameCut(size, NumThreads), encMain \in {"encode", "done"}
  PROVE  /\ Dec!PackedStart = encOffset
         /\ \A t \in Threads : /\ Dec!PackedSize(t) = bytes[t]
                               /\ Dec!PackedSlot(t) = Enc!Slot(t)
<1>0. EncInv /\ Enc!TypeOK
  BY DEF Inv, EncInv
<1>1. ASSUME NEW t \in Threads
      PROVE  Dec!PackedSize(t) = bytes[t]
  <2>1. Len(Whole(t)) \in Nat
    BY <1>0, ChunkBits
  <2>2. Dec!PackedSize(t) = Enc!BytesFor(Len(Whole(t)))
    <3>1. Cardinality(DOMAIN Pack(Whole(t))) = Enc!BytesFor(Len(Whole(t)))
      BY <2>1, PackValues
    <3>2. Dec!PackedSize(t) = Cardinality(DOMAIN Dec!Packed(t))
      BY DEF Dec!PackedSize, Dec!Cardinality, Cardinality
    <3>. QED
      BY <3>1, <3>2, PackedIs
  <2>. QED
    BY <1>0, <2>2, SlotFitsChunk
<1>2. /\ m = NumThreads - 1 /\ encOffset[0] = 0 /\ encOffset \in [Threads -> Nat]
      /\ NumThreads \in Nat \ {0}
      /\ \A u \in 1 .. m : encOffset[u] = encOffset[u - 1] + bytes[u - 1]
  BY <1>0, InputBounds DEF EncInv, PrefixInv, PackingInv, Enc!TypeOK, Enc!Threads, Threads
<1>3. \A t \in Threads :
        encOffset[t] = IF t = 0 THEN 0 ELSE encOffset[t - 1] + Dec!PackedSize(t - 1)
  <2>. SUFFICES ASSUME NEW t \in Threads, t # 0
                PROVE  encOffset[t] = encOffset[t - 1] + Dec!PackedSize(t - 1)
    BY <1>2
  <2>1. t \in 1 .. m /\ t - 1 \in Threads
    BY <1>2 DEF Threads
  <2>. QED
    BY <1>1, <1>2, <2>1
<1>4. IsStart(encOffset)
  <2>1. encOffset = [t \in Threads |-> encOffset[t]]
    BY <1>2
  <2>. QED
    BY <1>3, <2>1, Zenon DEF IsStart
<1>5. Dec!PackedStart = encOffset
  <2>1. IsStart(CHOOSE f : IsStart(f))
    BY <1>4
  <2>. QED
    BY <1>4, <2>1, StartIs, StartsAgree
<1>6. \A t \in Threads : Dec!PackedSlot(t) = Enc!Slot(t)
  BY <1>1, <1>5 DEF Dec!PackedSlot, Enc!Slot
<1>. QED
  BY <1>1, <1>5, <1>6

(* What the parallel encoder hands to the decoder.                           *)
LEMMA PackedAtEnd ==
  ASSUME Inv, PackingInv, encMain = "done"
  PROVE  /\ table = encOffset
         /\ DOMAIN payload = UNION {Enc!Slot(t) : t \in Threads}
         /\ \A t \in Threads : \A a \in Enc!Slot(t) :
              payload[a] = Pack(Whole(t))[a - encOffset[t]]
<1>1. \A t \in Threads : Stored(t) = Enc!Slot(t) /\ table[t] = encOffset[t]
  BY DEF PackingInv, Packing, Stored
<1>2. table \in [Threads -> Nat] /\ encOffset \in [Threads -> Nat]
  BY DEF Inv, EncInv, Enc!TypeOK, Enc!Threads, Threads
<1>3. table = encOffset
  BY <1>1, <1>2
<1>. QED
  BY <1>1, <1>3 DEF PackingInv

(* huffman_encode_parallel: whatever the threads' interleaving, the output   *)
(* is the reference encoding, each chunk at its offset and the offsets in    *)
(* the table, if get_out_size and do_encode cut every file alike.            *)
THEOREM ReferenceIsPacked ==
  ASSUME \A n \in Sizes : SameCut(n, NumThreads)
  PROVE  Spec => []FileIsPacked
<1>1. Inv /\ PackingInv => FileIsPacked
  <2>. SUFFICES ASSUME Inv, PackingInv, stage \in {"decode", "done"}, ~ isSeq
                PROVE  table = Dec!PackedStart /\ payload = Dec!PackedFile
    BY DEF FileIsPacked
  <2>1. encMain = "done" /\ SameCut(size, NumThreads) /\ EncInv
    BY DEF Inv, ReadInv, EncInv, Enc!TypeOK
  <2>2. /\ Dec!PackedStart = encOffset
        /\ \A t \in Threads : Dec!PackedSlot(t) = Enc!Slot(t)
    BY <2>1, OffsetsArePacked
  <2>3. /\ table = encOffset
        /\ DOMAIN payload = UNION {Enc!Slot(t) : t \in Threads}
        /\ \A t \in Threads : \A a \in Enc!Slot(t) :
              payload[a] = Pack(Whole(t))[a - encOffset[t]]
    BY <2>1, PackedAtEnd
  <2>. DEFINE Owner(a) == CHOOSE u \in Threads : a \in Dec!PackedSlot(u)
  <2>4. Dec!PackedFile = [a \in UNION {Dec!PackedSlot(t) : t \in Threads} |->
                            Dec!Packed(Owner(a))[a - Dec!PackedStart[Owner(a)]]]
    BY DEF Dec!PackedFile, Dec!Threads, Threads
  <2>5. UNION {Dec!PackedSlot(t) : t \in Threads} = DOMAIN payload
    BY <2>2, <2>3
  <2>6. ASSUME NEW a \in DOMAIN payload
        PROVE  payload[a] = Dec!Packed(Owner(a))[a - Dec!PackedStart[Owner(a)]]
    <3>1. PICK t \in Threads : a \in Enc!Slot(t)
      BY <2>3
    <3>2. Owner(a) = t
      <4>1. Owner(a) \in Threads /\ a \in Enc!Slot(Owner(a))
        BY <2>2, <3>1
      <4>. HIDE DEF Owner
      <4>2. Owner(a) # t => Enc!Slot(Owner(a)) \cap Enc!Slot(t) = {}
        BY <2>1, <4>1, SlotsApart
      <4>. QED
        BY <3>1, <4>1, <4>2
    <3>. HIDE DEF Owner
    <3>. QED
      BY <2>2, <2>3, <3>1, <3>2, PackedIs
  <2>7. payload = [a \in DOMAIN payload |-> payload[a]]
    BY <2>1 DEF EncInv, Enc!TypeOK
  <2>. HIDE DEF Owner
  <2>8. payload = [a \in DOMAIN payload |->
                     Dec!Packed(Owner(a))[a - Dec!PackedStart[Owner(a)]]]
    BY <2>6, <2>7, Zenon
  <2>. QED
    BY <2>2, <2>3, <2>4, <2>5, <2>8
<1>. QED
  BY <1>1, PackingAlways, PTL

-------------------------------------------------------------------------------
(* The tree that the parallel decoder is given. *)

(* A node on the way of a code is there, and it is a leaf if and only if all *)
(* bits of the code are used.                                                *)
LEMMA WayToLeaf ==
  ASSUME code \in Codes, IsPrefixCode(code), NEW s \in DOMAIN code, NEW node,
         OnWay(node, code[s]), node # << >>
  PROVE  /\ node \in Dec!TreeNodes
         /\ Dec!IsLeaf(node) <=> Len(node) = Len(code[s])
         /\ Dec!IsLeaf(node) => Dec!SymbolOf(node) = s
<1>0. \A q \in DOMAIN code : code[q] \in Seq({0, 1})
  BY CodesAssumption
<1>. DEFINE e == code[s]
            n == Len(node)
<1>1. /\ e \in Seq({0, 1}) /\ node \in Seq({0, 1}) /\ n <= Len(e)
      /\ \A x \in 1 .. n : node[x] = e[x]
  BY <1>0 DEF OnWay
<1>2. IsPrefix(node, e) /\ node = SubSeq(e, 1, n) /\ (n = Len(e) => node = e)
  <2>. HIDE DEF e
  <2>. QED
    BY <1>1, AgreesPrefix
<1>3. node \in Dec!TreeNodes
  <2>1. n \in 0 .. Len(e)
    BY <1>1, LenProperties
  <2>2. node \in Dec!Prefixes(e)
    BY <1>2, <2>1 DEF Dec!Prefixes
  <2>. QED
    BY <2>2 DEF Dec!TreeNodes
<1>4. n = Len(e) => Dec!IsLeaf(node)
  BY <1>2 DEF Dec!IsLeaf
<1>5. ASSUME NEW q \in DOMAIN code, code[q] = node
      PROVE  q = s
  BY <1>2, <1>5 DEF IsPrefixCode
<1>6. ASSUME Dec!IsLeaf(node)
      PROVE  Dec!SymbolOf(node) = s /\ n = Len(e)
  <2>1. \E q \in DOMAIN code : code[q] = node
    BY <1>6 DEF Dec!IsLeaf
  <2>2. code[s] = node
    BY <1>5, <2>1
  <2>3. (CHOOSE q \in DOMAIN code : code[q] = node) = s
    BY <1>5, <2>2
  <2>. QED
    BY <2>2, <2>3 DEF Dec!SymbolOf
<1>. QED
  BY <1>3, <1>4, <1>6

(* Without a bit in any code there is no tree below the root, and nothing    *)
(* is a leaf.                                                                *)
LEMMA EmptyCode ==
  ASSUME code \in Codes, IsPrefixCode(code), NEW s \in DOMAIN code, code[s] = << >>
  PROVE  /\ DOMAIN code = {s}
         /\ \A node : ~ Dec!IsLeaf(node)
         /\ Dec!TreeNodes = {<< >>}
<1>1. ASSUME NEW q \in DOMAIN code PROVE q = s
  <2>1. code[q] \in Seq({0, 1}) /\ << >> \in Seq({0, 1})
    BY CodesAssumption
  <2>2. Len(<< >>) = 0 /\ 0 <= Len(code[q]) /\ 1 .. 0 = {}
    BY <2>1, LenProperties
  <2>3. IsPrefix(<< >>, code[q])
    <3>. DEFINE t == code[q]
    <3>1. t \in Seq({0, 1}) /\ Len(<< >>) <= Len(t)
      BY <2>1, <2>2
    <3>2. \A x \in 1 .. Len(<< >>) : (<< >>)[x] = t[x]
      BY <2>2
    <3>. HIDE DEF t
    <3>3. IsPrefix(<< >>, t)
      BY <2>1, <3>1, <3>2, AgreesPrefix
    <3>. QED
      BY <3>3 DEF t
  <2>. QED
    BY <2>3 DEF IsPrefixCode
<1>2. DOMAIN code = {s}
  BY <1>1
<1>3. \A node : ~ Dec!IsLeaf(node)
  BY <1>2 DEF Dec!IsLeaf
<1>4. Dec!Prefixes(<< >>) = {<< >>}
  <2>1. Len(<< >>) = 0 /\ 0 .. 0 = {0} /\ SubSeq(<< >>, 1, 0) = << >>
    OBVIOUS
  <2>. QED
    BY <2>1 DEF Dec!Prefixes
<1>. QED
  BY <1>2, <1>3, <1>4 DEF Dec!TreeNodes

(* Two symbols have codes of at least a bit each.                            *)
LEMMA TwoCodes ==
  ASSUME code \in Codes, IsPrefixCode(code), Dec!TwoSymbols
  PROVE  \A s \in DOMAIN code : code[s] # << >>
<1>. SUFFICES ASSUME NEW s \in DOMAIN code, code[s] = << >> PROVE FALSE
  OBVIOUS
<1>1. Cardinality(DOMAIN code) = 1
  BY EmptyCode, FS_Singleton
<1>. QED
  BY <1>1 DEF Dec!TwoSymbols, Dec!Cardinality, Cardinality

-------------------------------------------------------------------------------
(* The parallel decoder. *)

(* The bits of its chunk that a thread has walked down the tree with.        *)
Walked(t) == Len(Bits(code, data, Lo(t), o[t])) + Len(p[t])

(* The thread has them from the bytes of its own slot: all bits of those     *)
(* that it has finished, and mask bits of the one that it has.               *)
Fetched(t) ==
  IF decPc[t] = "byte"
  THEN /\ encOffset[t] <= decPos[t]
       /\ (decPos[t] - encOffset[t]) * ByteBits = Walked(t)
  ELSE /\ encOffset[t] < decPos[t]
       /\ mask[t] <= ByteBits
       /\ (decPos[t] - encOffset[t] - 1) * ByteBits + mask[t] = Walked(t)
       /\ decByte[t] = Pack(Whole(t))[decPos[t] - encOffset[t] - 1]

(* A thread whose chunk is not full stands on the way to the leaf of the     *)
(* next symbol.                                                              *)
Walking(t) ==
  /\ Lo(t) <= o[t]
  /\ o[t] <= Hi(t) \/ o[t] = Lo(t)
  /\ o[t] < Hi(t) => /\ OnWay(p[t], code[data[o[t]]])
                     /\ Len(p[t]) < Len(code[data[o[t]]])
                     /\ Fetched(t)

(* The part of the output that a thread has written.                         *)
Emitted(t) == Lo(t) .. o[t] - 1

DecTypes ==
  /\ decMain \in {"load", "decode", "done", "crashed"}
  /\ decPc \in [Threads -> {"byte", "bits"}]
  /\ decPos \in [Threads -> Nat]
  /\ o \in [Threads -> Nat]
  /\ mask \in [Threads -> Nat]
  /\ p \in [Threads -> Seq({0, 1})]
  /\ decByte \in [Threads -> Enc!Bytes]

(* The codes of a table with one symbol need no bit, and its tree is a root  *)
(* that is no leaf.                                                          *)
NoEmptyCode == \A s \in DOMAIN code : code[s] # << >>

DecodingInv ==
  IF NoEmptyCode
  THEN /\ decMain # "crashed"
       /\ \A t \in Threads : Walking(t)
       /\ decMain = "done" => \A t \in Threads : Hi(t) <= o[t]
       /\ out = [x \in UNION {Emitted(t) : t \in Threads} |-> data[x]]
  ELSE /\ decMain # "done"
       /\ \A t \in Threads : p[t] = << >> /\ o[t] = Lo(t)
       /\ out = << >>

(* Nothing is decoded before there is an encoding.                           *)
LoadInv ==
  IF decMain = "load"
  THEN out = << >> /\ \A t \in Threads : /\ decPc[t] = "byte"
                                         /\ p[t] = << >>
  ELSE stage \in {"decode", "done"} /\ DecodingInv

DecInv ==
  /\ DecTypes
  /\ isSeq => decMain = "load"
  /\ ~ isSeq => LoadInv /\ (stage = "done" => decMain = "done")

(* What the decoder finds in the compressed buffer.                          *)
LEMMA WhatIsThere ==
  ASSUME Inv, PackingInv, SameCut(size, NumThreads), encMain = "done", NEW t \in Threads
  PROVE  /\ table = encOffset
         /\ Dec!PackedSlot(t) = encOffset[t] .. encOffset[t] + Enc!BytesFor(Len(Whole(t))) - 1
         /\ \A a \in Dec!PackedSlot(t) :
              a \in DOMAIN payload /\ payload[a] = Pack(Whole(t))[a - encOffset[t]]
<1>1. /\ table = encOffset
      /\ DOMAIN payload = UNION {Enc!Slot(u) : u \in Threads}
      /\ \A u \in Threads : \A a \in Enc!Slot(u) :
           payload[a] = Pack(Whole(u))[a - encOffset[u]]
  BY PackedAtEnd
<1>2. Dec!PackedSlot(t) = Enc!Slot(t)
  BY OffsetsArePacked
<1>3. bytes[t] = Enc!BytesFor(Len(Whole(t)))
  BY SlotFitsChunk DEF Inv
<1>. QED
  BY <1>1, <1>2, <1>3 DEF Enc!Slot

(* The bit behind those that were walked is the next one on the way.         *)
LEMMA NextOnWay ==
  ASSUME Enc!TypeOK, NEW t \in Threads, o[t] \in Nat, Walking(t), o[t] < Hi(t)
  PROVE  /\ data[o[t]] \in DOMAIN code /\ code[data[o[t]]] \in Seq({0, 1})
         /\ Len(code[data[o[t]]]) \in Nat /\ Len(p[t]) \in Nat
         /\ Len(Bits(code, data, Lo(t), o[t])) \in Nat
         /\ Walked(t) \in Nat /\ Walked(t) < Len(Whole(t))
         /\ Whole(t)[Walked(t) + 1] = code[data[o[t]]][Len(p[t]) + 1]
         /\ Whole(t)[Walked(t) + 1] \in {0, 1}
         /\ Len(Bits(code, data, Lo(t), o[t] + 1))
              = Len(Bits(code, data, Lo(t), o[t])) + Len(code[data[o[t]]])
<1>. DEFINE e == code[data[o[t]]]
            n == Len(Bits(code, data, Lo(t), o[t]))
            l == Len(p[t])
<1>1. /\ size \in Nat /\ Lo(t) \in Nat /\ Hi(t) \in Nat /\ Hi(t) <= size
      /\ Coded(code, data, Lo(t), Hi(t)) /\ Len(Whole(t)) \in Nat
      /\ \A z \in 1 .. Len(Whole(t)) : Whole(t)[z] \in {0, 1}
  BY ChunkBits
<1>2. Lo(t) <= o[t] /\ OnWay(p[t], e) /\ l < Len(e)
  BY DEF Walking
<1>3. data[o[t]] \in DOMAIN code
  <2>1. o[t] \in 0 .. size - 1
    BY <1>1
  <2>. QED
    BY <2>1 DEF Enc!TypeOK
<1>4. /\ e \in Seq({0, 1})
      /\ Len(Bits(code, data, Lo(t), o[t] + 1)) = n + Len(e)
      /\ n + Len(e) <= Len(Whole(t))
      /\ \A z \in 1 .. Len(e) : Whole(t)[n + z] = e[z]
  <2>. DEFINE lo == Lo(t)
              x == o[t]
              y == Hi(t)
  <2>1. lo \in Int /\ x \in Int /\ y \in Int /\ lo <= x /\ x < y /\ Coded(code, data, lo, y)
    BY <1>1, <1>2
  <2>. HIDE DEF lo, x, y
  <2>2. LiesIn(code, data, lo, x, y)
    BY <2>1, CodeInside
  <2>. QED
    BY <2>2 DEF lo, x, y, Whole, LiesIn
<1>5. n \in Nat
  BY <1>1, <1>2, BitsGrow
<1>6. Len(e) \in Nat /\ l \in Nat
  BY <1>2, <1>4, LenProperties DEF OnWay
<1>7. Walked(t) = n + l
  BY DEF Walked
<1>. HIDE DEF n, l, e
<1>8. l + 1 \in 1 .. Len(e) /\ n + (l + 1) = n + l + 1 /\ n + l + 1 \in 1 .. Len(Whole(t))
  BY <1>1, <1>2, <1>4, <1>5, <1>6
<1>9. Whole(t)[n + l + 1] = e[l + 1] /\ Whole(t)[n + l + 1] \in {0, 1}
  BY <1>1, <1>4, <1>8
<1>10. n + l \in Nat /\ n + l < Len(Whole(t))
  BY <1>1, <1>5, <1>6, <1>8
<1>. QED
  BY <1>3, <1>4, <1>5, <1>6, <1>7, <1>9, <1>10 DEF n, l, e

(* A thread that needs a byte finds it in its own slot.                      *)
LEMMA FetchInSlot ==
  ASSUME Inv, PackingInv, SameCut(size, NumThreads), encMain = "done", NEW t \in Threads,
         o[t] \in Nat, decPos[t] \in Nat, Walking(t), o[t] < Hi(t), decPc[t] = "byte"
  PROVE  /\ decPos[t] \in Dec!PackedSlot(t)
         /\ Dec!Load(decPos[t]) = {Pack(Whole(t))[decPos[t] - encOffset[t]]}
<1>0. Enc!TypeOK
  BY DEF Inv, EncInv
<1>. DEFINE q == decPos[t] - encOffset[t]
            n == Len(Whole(t))
            w == Enc!BytesFor(n)
<1>1. encOffset[t] <= decPos[t] /\ q * ByteBits = Walked(t)
  BY DEF Walking, Fetched
<1>2. encOffset[t] \in Nat
  BY <1>0 DEF Enc!TypeOK, Enc!Threads, Threads
<1>3. q \in Nat /\ encOffset[t] + q = decPos[t]
  BY <1>1, <1>2
<1>4. Walked(t) < n /\ n \in Nat /\ Walked(t) \in Nat
  BY <1>0, NextOnWay, ChunkBits
<1>. HIDE DEF q, n
<1>5. q < w /\ w \in Nat
  <2>1. q * ByteBits + 0 < n
    BY <1>1, <1>4
  <2>. QED
    BY <1>3, <1>4, <2>1, EnoughBytes
<1>. HIDE DEF w
<1>6. decPos[t] \in encOffset[t] .. encOffset[t] + w - 1
  BY <1>2, <1>3, <1>5
<1>7. decPos[t] \in Dec!PackedSlot(t)
  BY <1>6, WhatIsThere DEF w, n
<1>8. decPos[t] \in DOMAIN payload /\ payload[decPos[t]] = Pack(Whole(t))[q]
  BY <1>7, WhatIsThere DEF q
<1>. QED
  BY <1>7, <1>8 DEF Dec!Load, q

(* The child that the bit under the mask selects is the next node on the way.*)
LEMMA ChildOnWay ==
  ASSUME Enc!TypeOK, NEW t \in Threads, o[t] \in Nat, decPos[t] \in Nat, mask[t] \in Nat,
         Walking(t), o[t] < Hi(t), decPc[t] = "bits", mask[t] < ByteBits
  PROVE  /\ OnWay(Dec!Child(t), code[data[o[t]]])
         /\ Dec!Child(t) # << >> /\ Len(Dec!Child(t)) = Len(p[t]) + 1
<1>. DEFINE e == code[data[o[t]]]
            q == decPos[t] - encOffset[t] - 1
            w == Whole(t)
            n == Len(w)
            z == q * ByteBits + mask[t]
            c == IF mask[t] \in decByte[t] THEN 1 ELSE 0
            l == Len(p[t])
<1>1. /\ encOffset[t] < decPos[t] /\ decByte[t] = Pack(w)[q] /\ z = Walked(t)
      /\ OnWay(p[t], e) /\ l < Len(e)
  BY DEF Walking, Fetched
<1>2. encOffset[t] \in Nat /\ ByteBits \in Nat \ {0}
  BY InputBounds DEF Enc!TypeOK, Enc!Threads, Threads
<1>3. q \in Nat
  BY <1>1, <1>2
<1>4. /\ n \in Nat /\ z \in Nat /\ z < n /\ w[z + 1] = e[l + 1] /\ w[z + 1] \in {0, 1}
      /\ e \in Seq({0, 1}) /\ Len(e) \in Nat /\ l \in Nat
  <2>1. n \in Nat
    BY ChunkBits
  <2>2. /\ Walked(t) \in Nat /\ Walked(t) < n /\ w[Walked(t) + 1] = e[l + 1]
        /\ w[Walked(t) + 1] \in {0, 1}
        /\ e \in Seq({0, 1}) /\ Len(e) \in Nat /\ l \in Nat
    BY NextOnWay
  <2>3. z = Walked(t)
    BY <1>1
  <2>. HIDE DEF n, z, w, e, l
  <2>. QED
    BY <2>1, <2>2, <2>3
<1>5. c = e[l + 1]
  <2>1. q \in 0 .. Enc!BytesFor(n) - 1
    <3>. HIDE DEF w, n, q
    <3>1. q < Enc!BytesFor(n) /\ Enc!BytesFor(n) \in Nat
      BY <1>3, <1>4, EnoughBytes
    <3>. QED
      BY <1>3, <3>1
  <2>2. Pack(w)[q] = {x \in 0 .. ByteBits - 1 :
                        q * ByteBits + x < n /\ w[q * ByteBits + x + 1] = 1}
    <3>. HIDE DEF w, q
    <3>. QED
      BY <1>4, <2>1, PackValues
  <2>3. mask[t] \in 0 .. ByteBits - 1
    BY <1>2
  <2>4. mask[t] \in decByte[t] <=> w[z + 1] = 1
    <3>. HIDE DEF w, q, n
    <3>. QED
      BY <1>1, <1>4, <2>2, <2>3
  <2>. HIDE DEF w, q, n, z, e, l
  <2>. QED
    BY <1>4, <2>4
<1>6. Dec!Child(t) = Append(p[t], c)
  BY DEF Dec!Child
<1>. HIDE DEF c, e, l, z, q, w, n
<1>7. p[t] \in Seq({0, 1}) /\ \A x \in 1 .. l : p[t][x] = e[x]
  BY <1>1 DEF OnWay, l
<1>8. c \in {0, 1}
  BY DEF c
<1>9. /\ Append(p[t], c) \in Seq({0, 1}) /\ Len(Append(p[t], c)) = l + 1
      /\ \A x \in 1 .. l : Append(p[t], c)[x] = p[t][x]
      /\ Append(p[t], c)[l + 1] = c
  BY <1>7, <1>8, AppendProperties DEF l
<1>10. \A x \in 1 .. l + 1 : Append(p[t], c)[x] = e[x]
  BY <1>4, <1>5, <1>7, <1>9
<1>11. l + 1 <= Len(e) /\ l + 1 # 0
  BY <1>1, <1>4
<1>12. Append(p[t], c) # << >>
  BY <1>9, <1>11
<1>13. OnWay(Dec!Child(t), e)
  BY <1>6, <1>9, <1>10, <1>11 DEF OnWay
<1>. QED
  BY <1>6, <1>9, <1>12, <1>13 DEF e, l

(* A thread stays where it is if nobody touches its variables.               *)
LEMMA WalkStays ==
  ASSUME NEW t, UNCHANGED <<file, encOffset>>,
         decPc'[t] = decPc[t], decPos'[t] = decPos[t], o'[t] = o[t], mask'[t] = mask[t],
         decByte'[t] = decByte[t], p'[t] = p[t]
  PROVE  Walking(t)' = Walking(t) /\ Emitted(t)' = Emitted(t)
<1>1. /\ UNCHANGED <<size, data, code>>
      /\ Lo(t)' = Lo(t) /\ Hi(t)' = Hi(t)
  BY DEF file, Lo, Hi
<1>2. Whole(t)' = Whole(t)
  BY <1>1 DEF Whole
<1>3. Walked(t)' = Walked(t)
  BY <1>1 DEF Walked
<1>4. Fetched(t)' = Fetched(t)
  BY <1>2, <1>3 DEF Fetched
<1>. QED
  BY <1>1, <1>4 DEF Walking, Emitted

(* What the fields of a thread are for the walk.                             *)
LEMMA WalkGoesOn ==
  ASSUME NEW t, UNCHANGED <<file, encOffset>>, o'[t] = o[t], Walking(t), o[t] < Hi(t),
         OnWay(p'[t], code[data[o[t]]]), Len(p'[t]) < Len(code[data[o[t]]]),
         LET w == Len(Bits(code, data, Lo(t), o[t])) + Len(p'[t])
         IN  IF decPc'[t] = "byte"
             THEN /\ encOffset[t] <= decPos'[t]
                  /\ (decPos'[t] - encOffset[t]) * ByteBits = w
             ELSE /\ encOffset[t] < decPos'[t]
                  /\ mask'[t] <= ByteBits
                  /\ (decPos'[t] - encOffset[t] - 1) * ByteBits + mask'[t] = w
                  /\ decByte'[t] = Pack(Whole(t))[decPos'[t] - encOffset[t] - 1]
  PROVE  Walking(t)' /\ Emitted(t)' = Emitted(t)
<1>1. /\ UNCHANGED <<size, data, code>>
      /\ Lo(t)' = Lo(t) /\ Hi(t)' = Hi(t)
  BY DEF file, Lo, Hi
<1>2. Whole(t)' = Whole(t)
  BY <1>1 DEF Whole
<1>3. Walked(t)' = Len(Bits(code, data, Lo(t), o[t])) + Len(p'[t])
  BY <1>1 DEF Walked
<1>4. Fetched(t)'
  BY <1>2, <1>3 DEF Fetched
<1>. QED
  BY <1>1, <1>4 DEF Walking, Emitted

(* The outer loop, ...                                                       *)
LEMMA FetchByteWalks ==
  ASSUME Inv, PackingInv, SameCut(size, NumThreads), encMain = "done", DecTypes,
         UNCHANGED encOffset, NEW t \in Threads, Walking(t), Dec!FetchByte(t)
  PROVE  Walking(t)' /\ Emitted(t)' = Emitted(t)
<1>1. /\ decPc[t] = "byte" /\ o[t] < Hi(t)
      /\ \E v \in Dec!Load(decPos[t]) : decByte' = [decByte EXCEPT ![t] = v]
      /\ decPos' = [decPos EXCEPT ![t] = @ + 1]
      /\ mask' = [mask EXCEPT ![t] = 0]
      /\ decPc' = [decPc EXCEPT ![t] = "bits"]
      /\ UNCHANGED <<size, data, code, o, p>>
  BY DEF Dec!FetchByte, Dec!OutTo, Hi, Dec!ChunkEnd, ChunkEnd, Dec!ChunkStart, ChunkStart,
         Dec!UPDIV, UPDIV, Dec!Least, Least, Dec!file
<1>2. /\ decPos[t] \in Nat /\ o[t] \in Nat
      /\ decPos'[t] = decPos[t] + 1 /\ mask'[t] = 0 /\ decPc'[t] = "bits"
  BY <1>1 DEF DecTypes
<1>3. decByte'[t] = Pack(Whole(t))[decPos[t] - encOffset[t]]
  <2>1. Dec!Load(decPos[t]) = {Pack(Whole(t))[decPos[t] - encOffset[t]]}
    BY <1>1, <1>2, FetchInSlot
  <2>. QED
    BY <1>1, <2>1 DEF DecTypes
<1>4. /\ OnWay(p[t], code[data[o[t]]]) /\ Len(p[t]) < Len(code[data[o[t]]])
      /\ encOffset[t] <= decPos[t] /\ (decPos[t] - encOffset[t]) * ByteBits = Walked(t)
  BY <1>1 DEF Walking, Fetched
<1>5. encOffset[t] \in Nat
  BY DEF Inv, EncInv, Enc!TypeOK, Enc!Threads, Threads
<1>6. /\ encOffset[t] < decPos'[t] /\ decPos'[t] - encOffset[t] - 1 = decPos[t] - encOffset[t]
  BY <1>2, <1>4, <1>5
<1>7. /\ mask'[t] <= ByteBits
      /\ (decPos'[t] - encOffset[t] - 1) * ByteBits + mask'[t] = Walked(t)
  <2>1. Walked(t) \in Nat /\ ByteBits \in Nat
    BY <1>1, <1>2, NextOnWay, WidthAssumption DEF Inv, EncInv
  <2>2. (decPos'[t] - encOffset[t] - 1) * ByteBits = Walked(t)
    BY <1>4, <1>6
  <2>. QED
    BY <1>2, <2>1, <2>2
<1>8. UNCHANGED <<file, encOffset>> /\ o'[t] = o[t] /\ p'[t] = p[t]
  BY <1>1 DEF file
<1>9. decByte'[t] = Pack(Whole(t))[decPos'[t] - encOffset[t] - 1]
  BY <1>3, <1>6
<1>. QED
  BY <1>1, <1>2, <1>4, <1>6, <1>7, <1>8, <1>9, WalkGoesOn DEF Walked

(* ... the end of the inner loop, ...                                        *)
LEMMA EndOfByteWalks ==
  ASSUME Enc!TypeOK, DecTypes, UNCHANGED encOffset, NEW t \in Threads, Walking(t),
         Dec!EndOfByte(t)
  PROVE  Walking(t)' /\ Emitted(t)' = Emitted(t)
<1>1. /\ decPc[t] = "bits" /\ ~ (o[t] < Hi(t) /\ mask[t] < ByteBits)
      /\ decPc' = [decPc EXCEPT ![t] = "byte"]
      /\ UNCHANGED <<size, data, code, decPos, o, decByte, mask, p>>
  BY DEF Dec!EndOfByte, Dec!HasBit, Dec!OutTo, Hi, Dec!ChunkEnd, ChunkEnd, Dec!ChunkStart,
         ChunkStart, Dec!UPDIV, UPDIV, Dec!Least, Least, Dec!file, Dec!walk
<1>2. UNCHANGED <<file, encOffset>> /\ decPc'[t] = "byte"
  BY <1>1 DEF file, DecTypes
<1>3. CASE o[t] < Hi(t)
  <2>1. /\ OnWay(p[t], code[data[o[t]]]) /\ Len(p[t]) < Len(code[data[o[t]]])
        /\ encOffset[t] < decPos[t] /\ mask[t] <= ByteBits
        /\ (decPos[t] - encOffset[t] - 1) * ByteBits + mask[t] = Walked(t)
    BY <1>1, <1>3 DEF Walking, Fetched
  <2>2. encOffset[t] \in Nat /\ decPos[t] \in Nat /\ mask[t] \in Nat /\ ByteBits \in Nat
    BY WidthAssumption DEF Enc!TypeOK, Enc!Threads, Threads, DecTypes
  <2>3. mask[t] = ByteBits
    BY <1>1, <1>3, <2>1, <2>2
  <2>4. (decPos[t] - encOffset[t]) * ByteBits = Walked(t)
    <3>. DEFINE q == decPos[t] - encOffset[t] - 1
    <3>1. q \in Nat /\ decPos[t] - encOffset[t] = q + 1
      BY <2>1, <2>2
    <3>. HIDE DEF q
    <3>2. (q + 1) * ByteBits = q * ByteBits + ByteBits
      BY <2>2, <3>1, SMT
    <3>. QED
      BY <2>1, <2>3, <3>1, <3>2 DEF q
  <2>5. encOffset[t] <= decPos[t]
    BY <2>1, <2>2
  <2>. QED
    BY <1>1, <1>2, <1>3, <2>1, <2>4, <2>5, WalkGoesOn DEF Walked
<1>4. CASE ~ (o[t] < Hi(t))
  <2>1. Lo(t)' = Lo(t) /\ Hi(t)' = Hi(t) /\ o'[t] = o[t]
    BY <1>1 DEF Lo, Hi
  <2>. QED
    BY <1>4, <2>1 DEF Walking, Emitted
<1>. QED
  BY <1>3, <1>4

(* ... and the inner loop, which reads bits only as long as the chunk is not *)
(* full, and finds the child that the next code goes through.                *)
LEMMA BitIsNext ==
  ASSUME Enc!TypeOK, DecTypes, NEW t \in Threads, Walking(t), decPc[t] = "bits",
         Dec!HasBit(t), IsPrefixCode(code)
  PROVE  /\ o[t] < Hi(t) /\ mask[t] < ByteBits
         /\ OnWay(Dec!Child(t), code[data[o[t]]]) /\ Len(Dec!Child(t)) = Len(p[t]) + 1
         /\ Dec!Child(t) \in Dec!TreeNodes
         /\ Dec!IsLeaf(Dec!Child(t)) <=> Len(Dec!Child(t)) = Len(code[data[o[t]]])
         /\ Dec!IsLeaf(Dec!Child(t)) => Dec!SymbolOf(Dec!Child(t)) = data[o[t]]
<1>1. o[t] < Hi(t) /\ mask[t] < ByteBits
  BY DEF Dec!HasBit, Dec!OutTo, Hi, Dec!ChunkEnd, ChunkEnd, Dec!ChunkStart, ChunkStart,
         Dec!UPDIV, UPDIV, Dec!Least, Least
<1>2. o[t] \in Nat /\ decPos[t] \in Nat /\ mask[t] \in Nat /\ code \in Codes
  BY DEF DecTypes, Enc!TypeOK
<1>3. /\ OnWay(Dec!Child(t), code[data[o[t]]]) /\ Dec!Child(t) # << >>
      /\ Len(Dec!Child(t)) = Len(p[t]) + 1
  BY <1>1, <1>2, ChildOnWay
<1>4. data[o[t]] \in DOMAIN code
  BY <1>1, <1>2, NextOnWay
<1>5. /\ Dec!Child(t) \in Dec!TreeNodes
      /\ Dec!IsLeaf(Dec!Child(t)) <=> Len(Dec!Child(t)) = Len(code[data[o[t]]])
      /\ Dec!IsLeaf(Dec!Child(t)) => Dec!SymbolOf(Dec!Child(t)) = data[o[t]]
  <2>. DEFINE c == Dec!Child(t)
              s == data[o[t]]
  <2>. HIDE DEF c, s
  <2>1. OnWay(c, code[s]) /\ c # << >> /\ s \in DOMAIN code
    BY <1>3, <1>4 DEF c, s
  <2>2. c \in Dec!TreeNodes /\ (Dec!IsLeaf(c) <=> Len(c) = Len(code[s]))
        /\ (Dec!IsLeaf(c) => Dec!SymbolOf(c) = s)
    BY <1>2, <2>1, WayToLeaf
  <2>. QED
    BY <2>2 DEF c, s
<1>. QED
  BY <1>1, <1>3, <1>5

(* A node inside of the tree is closer to the leaf.                          *)
LEMMA DescendWalks ==
  ASSUME Enc!TypeOK, DecTypes, UNCHANGED encOffset, NEW t \in Threads, Walking(t),
         IsPrefixCode(code), Dec!Descend(t)
  PROVE  Walking(t)' /\ Emitted(t)' = Emitted(t)
<1>. DEFINE c == Dec!Child(t)
            s == data[o[t]]
<1>1. /\ Dec!HasBit(t) /\ decPc[t] = "bits" /\ ~ Dec!IsLeaf(c)
      /\ p' = [p EXCEPT ![t] = c] /\ mask' = [mask EXCEPT ![t] = @ + 1]
      /\ UNCHANGED <<size, data, code, decPc, decPos, o, decByte>>
  BY DEF Dec!Descend, Dec!HasBit, Dec!file
<1>2. /\ o[t] < Hi(t) /\ mask[t] < ByteBits
      /\ OnWay(c, code[s]) /\ Len(c) = Len(p[t]) + 1
      /\ Len(c) # Len(code[s])
  BY <1>1, BitIsNext
<1>3. /\ Len(p[t]) < Len(code[s]) /\ encOffset[t] < decPos[t]
      /\ (decPos[t] - encOffset[t] - 1) * ByteBits + mask[t] = Walked(t)
      /\ decByte[t] = Pack(Whole(t))[decPos[t] - encOffset[t] - 1]
  BY <1>1, <1>2 DEF Walking, Fetched
<1>4. /\ Len(p[t]) \in Nat /\ Len(code[s]) \in Nat
      /\ Len(Bits(code, data, Lo(t), o[t])) \in Nat
  BY <1>2, NextOnWay DEF DecTypes
<1>5. encOffset[t] \in Nat /\ decPos[t] \in Nat /\ mask[t] \in Nat /\ ByteBits \in Nat
  BY WidthAssumption DEF Enc!TypeOK, Enc!Threads, Threads, DecTypes
<1>6. UNCHANGED <<file, encOffset>> /\ p'[t] = c /\ mask'[t] = mask[t] + 1
  BY <1>1 DEF file, DecTypes
<1>. HIDE DEF c, s
<1>7. Len(c) < Len(code[s]) /\ mask'[t] <= ByteBits
  BY <1>2, <1>3, <1>4, <1>5, <1>6
<1>8. (decPos[t] - encOffset[t] - 1) * ByteBits + mask'[t]
        = Len(Bits(code, data, Lo(t), o[t])) + Len(c)
  <2>. DEFINE d == (decPos[t] - encOffset[t] - 1) * ByteBits
              n == Len(Bits(code, data, Lo(t), o[t]))
  <2>1. d \in Int
    <3>. DEFINE q == decPos[t] - encOffset[t] - 1
    <3>1. q \in Int
      BY <1>5
    <3>. HIDE DEF q
    <3>2. q * ByteBits \in Int
      BY <1>5, <3>1, SMT
    <3>. QED
      BY <3>2 DEF q
  <2>2. d + mask[t] = n + Len(p[t])
    BY <1>3 DEF Walked
  <2>3. n \in Nat
    BY <1>4
  <2>. HIDE DEF d, n
  <2>4. d + mask'[t] = n + Len(c)
    <3>1. Len(p[t]) \in Nat /\ mask[t] \in Nat /\ Len(c) = Len(p[t]) + 1
      BY <1>2, <1>4, <1>5
    <3>2. d + (mask[t] + 1) = n + (Len(p[t]) + 1)
      BY <2>1, <2>2, <2>3, <3>1
    <3>. QED
      BY <1>6, <3>1, <3>2
  <2>. QED
    BY <2>4 DEF d, n
<1>. QED
  BY <1>1, <1>2, <1>3, <1>6, <1>7, <1>8, WalkGoesOn DEF s

(* At the leaf the thread emits the symbol that belongs there and starts     *)
(* again at the root.                                                        *)
LEMMA EmitSymbolWalks ==
  ASSUME Enc!TypeOK, DecTypes, UNCHANGED encOffset, NEW t \in Threads, Walking(t),
         IsPrefixCode(code), NoEmptyCode, Dec!EmitSymbol(t)
  PROVE  /\ Walking(t)'
         /\ Emitted(t)' = Emitted(t) \cup {o[t]}
         /\ Lo(t) <= o[t] /\ o[t] < Hi(t)
         /\ out' = [x \in DOMAIN out \cup {o[t]} |-> IF x = o[t] THEN data[x] ELSE out[x]]
<1>. DEFINE c == Dec!Child(t)
            s == data[o[t]]
            n == Len(Bits(code, data, Lo(t), o[t]))
            l == Len(Bits(code, data, Lo(t), o[t] + 1))
            q == decPos[t] - encOffset[t] - 1
<1>1. /\ Dec!HasBit(t) /\ decPc[t] = "bits" /\ Dec!IsLeaf(c)
      /\ p' = [p EXCEPT ![t] = << >>] /\ mask' = [mask EXCEPT ![t] = @ + 1]
      /\ o' = [o EXCEPT ![t] = @ + 1]
      /\ out' = [x \in DOMAIN out \cup {o[t]} |->
                   IF x = o[t] THEN Dec!SymbolOf(c) ELSE out[x]]
      /\ UNCHANGED <<size, data, code, decPc, decPos, decByte>>
  BY DEF Dec!EmitSymbol, Dec!HasBit, Dec!file
<1>2. /\ o[t] < Hi(t) /\ mask[t] < ByteBits
      /\ Len(c) = Len(p[t]) + 1 /\ Len(c) = Len(code[s])
      /\ Dec!SymbolOf(c) = s
  BY <1>1, BitIsNext
<1>3. /\ encOffset[t] < decPos[t] /\ q * ByteBits + mask[t] = n + Len(p[t])
      /\ decByte[t] = Pack(Whole(t))[q] /\ Lo(t) <= o[t]
  BY <1>1, <1>2 DEF Walking, Fetched, Walked
<1>4. o[t] \in Nat /\ Len(p[t]) \in Nat /\ n \in Nat /\ l = n + Len(code[s])
  BY <1>2, NextOnWay DEF DecTypes
<1>5. encOffset[t] \in Nat /\ decPos[t] \in Nat /\ mask[t] \in Nat /\ ByteBits \in Nat
  BY WidthAssumption DEF Enc!TypeOK, Enc!Threads, Threads, DecTypes
<1>6. /\ p'[t] = << >> /\ mask'[t] = mask[t] + 1 /\ o'[t] = o[t] + 1
      /\ decPc'[t] = "bits" /\ decPos'[t] = decPos[t] /\ decByte'[t] = decByte[t]
  BY <1>1 DEF DecTypes
<1>7. q * ByteBits + mask'[t] = l
  <2>1. q \in Int
    BY <1>5
  <2>. HIDE DEF q
  <2>2. q * ByteBits \in Int
    BY <1>5, <2>1, SMT
  <2>. DEFINE d == q * ByteBits
  <2>. HIDE DEF d, c, s, n, l
  <2>3. d \in Int /\ d + mask[t] = n + Len(p[t])
    BY <1>3, <2>2 DEF d
  <2>4. l = n + (Len(p[t]) + 1)
    BY <1>2, <1>4
  <2>5. d + (mask[t] + 1) = l
    <3>1. mask[t] \in Nat /\ Len(p[t]) \in Nat /\ n \in Nat
      BY <1>4, <1>5
    <3>. QED
      BY <2>3, <2>4, <3>1
  <2>. QED
    BY <1>6, <2>5 DEF d
<1>8. /\ Lo(t)' = Lo(t) /\ Hi(t)' = Hi(t) /\ Whole(t)' = Whole(t)
      /\ UNCHANGED <<code, data, encOffset>>
  <2>1. Lo(t)' = Lo(t) /\ Hi(t)' = Hi(t)
    BY <1>1 DEF Lo, Hi
  <2>. QED
    BY <1>1, <2>1 DEF Whole
<1>9. ASSUME o[t] + 1 < Hi(t)
      PROVE  /\ OnWay(<< >>, code[data[o[t] + 1]])
             /\ Len(<< >>) < Len(code[data[o[t] + 1]])
  <2>1. data[o[t] + 1] \in DOMAIN code
    <3>1. Hi(t) \in Nat /\ Hi(t) <= size /\ size \in Nat
      BY ChunkBits
    <3>2. o[t] + 1 \in 0 .. size - 1
      BY <1>4, <1>9, <3>1
    <3>. QED
      BY <3>2 DEF Enc!TypeOK
  <2>. DEFINE e == code[data[o[t] + 1]]
  <2>2. e \in Seq({0, 1}) /\ e # << >>
    BY <2>1, CodesAssumption DEF NoEmptyCode, Enc!TypeOK
  <2>. HIDE DEF e
  <2>3. Len(e) \in Nat /\ Len(e) # 0 /\ Len(<< >>) = 0 /\ << >> \in Seq({0, 1})
    BY <2>2, EmptySeq, LenProperties
  <2>4. OnWay(<< >>, e) /\ Len(<< >>) < Len(e)
    BY <2>3 DEF OnWay
  <2>. QED
    BY <2>4 DEF e
<1>10. Walked(t)' = l
  <2>1. Walked(t)' = l + Len(<< >>)
    BY <1>6, <1>8 DEF Walked
  <2>2. Len(<< >>) = 0 /\ l \in Nat
    BY <1>2, <1>4
  <2>. HIDE DEF l
  <2>. QED
    BY <2>1, <2>2
<1>11. Fetched(t)'
  <2>1. mask'[t] <= ByteBits
    BY <1>2, <1>5, <1>6
  <2>. HIDE DEF l, n
  <2>. QED
    BY <1>3, <1>6, <1>7, <1>8, <1>10, <2>1 DEF Fetched
<1>12. Walking(t)'
  <2>1. Lo(t) <= o[t] + 1 /\ o[t] + 1 <= Hi(t)
    <3>1. Lo(t) \in Nat /\ Hi(t) \in Nat
      BY ChunkBits
    <3>. QED
      BY <1>2, <1>3, <1>4, <3>1
  <2>2. /\ Lo(t)' <= o'[t] /\ o'[t] <= Hi(t)'
        /\ o'[t] < Hi(t)' => /\ OnWay(p'[t], code'[data'[o'[t]]])
                             /\ Len(p'[t]) < Len(code'[data'[o'[t]]])
    BY <1>6, <1>8, <1>9, <2>1
  <2>. QED
    BY <1>11, <2>2 DEF Walking
<1>13. Emitted(t)' = Emitted(t) \cup {o[t]}
  <2>1. Lo(t) \in Nat
    BY ChunkBits
  <2>2. Lo(t) .. (o[t] + 1) - 1 = (Lo(t) .. o[t] - 1) \cup {o[t]}
    BY <1>3, <1>4, <2>1
  <2>. QED
    <3>1. Emitted(t)' = Lo(t) .. (o[t] + 1) - 1
      BY <1>6, <1>8 DEF Emitted
    <3>. QED
      BY <2>2, <3>1 DEF Emitted
<1>14. out' = [x \in DOMAIN out \cup {o[t]} |-> IF x = o[t] THEN data[x] ELSE out[x]]
  BY <1>1, <1>2
<1>. QED
  BY <1>2, <1>3, <1>12, <1>13, <1>14

(* A position belongs to one thread, which has not written it yet.           *)
LEMMA NotYetWritten ==
  ASSUME Enc!TypeOK, DecTypes, NEW t \in Threads, Lo(t) <= o[t], o[t] < Hi(t),
         \A u \in Threads : Walking(u)
  PROVE  o[t] \notin UNION {Emitted(u) : u \in Threads} /\ o[t] \in DOMAIN data
<1>. SUFFICES ASSUME NEW u \in Threads, o[t] \in Emitted(u) PROVE FALSE
  <2>1. o[t] \in 0 .. size - 1
    BY ChunkBits DEF DecTypes
  <2>2. DOMAIN data = 0 .. size - 1
    BY DEF Enc!TypeOK
  <2>. QED
    BY <2>1, <2>2
<1>1. /\ Lo(u) \in Nat /\ Hi(u) \in Nat /\ o[u] \in Nat /\ o[t] \in Nat /\ size \in Nat
      /\ Lo(t) \in Nat /\ Hi(t) \in Nat
  BY ChunkBits DEF DecTypes
<1>2. Lo(u) <= o[t] /\ o[t] < o[u]
  BY <1>1 DEF Emitted
<1>3. u # t
  BY <1>1, <1>2
<1>4. o[t] < Hi(u)
  <2>1. o[u] <= Hi(u) \/ o[u] = Lo(u)
    BY DEF Walking
  <2>. QED
    BY <1>1, <1>2, <2>1
<1>5. NumThreads \in Nat \ {0} /\ t \in 0 .. NumThreads - 1 /\ u \in 0 .. NumThreads - 1
  BY InputBounds DEF Threads
<1>. QED
  BY <1>1, <1>2, <1>3, <1>4, <1>5, ChunksDisjoint DEF Lo, Hi

(* A step of the driver that is not the decoder's leaves it alone.           *)
LEMMA DecFrame ==
  ASSUME [Next]_vars
  PROVE  \/ /\ DecodeParallel /\ ~ isSeq /\ stage = "decode"
            /\ UNCHANGED <<stage, encVars, table, payload>>
         \/ /\ UNCHANGED decVars
            /\ \/ isSeq
               \/ /\ UNCHANGED out
                  /\ stage' = "done" => stage = "done" \/ decMain = "done"
<1>1. CASE \E t \in Threads : ReadChunk(t)
  BY <1>1 DEF ReadChunk, codecs
<1>2. CASE Compress
  BY <1>2 DEF Compress, codecs
<1>3. CASE EncodeParallel
  BY <1>3 DEF EncodeParallel
<1>4. CASE EncodeSequentially
  BY <1>4 DEF EncodeSequentially
<1>5. CASE Decompress
  BY <1>5 DEF Decompress, codecs
<1>6. CASE DecodeParallel
  BY <1>6, DecodingSteps DEF DecodeParallel
<1>7. CASE DecodeSequentially
  BY <1>7 DEF DecodeSequentially
<1>8. CASE Finish
  <2>1. UNCHANGED decVars /\ UNCHANGED out
    BY <1>8 DEF Finish, codecs
  <2>2. isSeq \/ decMain = "done"
    BY <1>8 DEF Finish, Dec!Done
  <2>. QED
    BY <2>1, <2>2
<1>9. CASE Abort
  BY <1>9 DEF Abort
<1>10. CASE Terminated \/ UNCHANGED vars
  BY <1>10 DEF Terminated, vars, codecs
<1>. QED
  BY <1>1, <1>2, <1>3, <1>4, <1>5, <1>6, <1>7, <1>8, <1>9, <1>10 DEF Next

(* The types of the decoder after a step.                                    *)
LEMMA DecTypesStep ==
  ASSUME Enc!TypeOK, DecTypes,
         (\E t \in Threads : Dec!Step(t)) \/ Dec!ReadOffsets \/ Dec!EndOfDecoding
  PROVE  DecTypes'
<1>0. Enc!Bytes' = Enc!Bytes
  BY DEF Enc!Bytes
<1>1. CASE Dec!ReadOffsets
  <2>1. \A t \in Threads : Dec!OutFrom(t) \in Nat
    BY ChunkBits DEF Dec!OutFrom, Lo, Dec!ChunkStart, ChunkStart, Dec!UPDIV, UPDIV
  <2>2. \A t \in Threads : table[t] \in Nat
    BY DEF Enc!TypeOK, Enc!Threads, Threads
  <2>3. /\ decMain' = "decode" /\ decPos' = [t \in Threads |-> table[t]]
        /\ o' = [t \in Threads |-> Dec!OutFrom(t)]
        /\ UNCHANGED <<decPc, decByte, mask, p>>
    BY <1>1 DEF Dec!ReadOffsets, Dec!Threads, Threads
  <2>4. decPos' \in [Threads -> Nat] /\ o' \in [Threads -> Nat]
    BY <2>1, <2>2, <2>3
  <2>. QED
    BY <1>0, <2>3, <2>4 DEF DecTypes
<1>2. CASE Dec!EndOfDecoding
  BY <1>0, <1>2 DEF Dec!EndOfDecoding, Dec!walk, DecTypes
<1>3. ASSUME NEW t \in Threads, Dec!FetchByte(t)
      PROVE  DecTypes'
  <2>1. /\ \E v \in Dec!Load(decPos[t]) : decByte' = [decByte EXCEPT ![t] = v]
        /\ decPos' = [decPos EXCEPT ![t] = @ + 1]
        /\ mask' = [mask EXCEPT ![t] = 0]
        /\ decPc' = [decPc EXCEPT ![t] = "bits"]
        /\ UNCHANGED <<decMain, o, p>>
    BY <1>3 DEF Dec!FetchByte
  <2>2. Dec!Load(decPos[t]) \subseteq Enc!Bytes
    BY DEF Dec!Load, Enc!TypeOK, Enc!Bytes, Dec!Bytes
  <2>3. decByte' \in [Threads -> Enc!Bytes]
    BY <2>1, <2>2 DEF DecTypes
  <2>4. decPos' \in [Threads -> Nat] /\ mask' \in [Threads -> Nat]
        /\ decPc' \in [Threads -> {"byte", "bits"}]
    BY <2>1 DEF DecTypes
  <2>. QED
    BY <1>0, <2>1, <2>3, <2>4 DEF DecTypes
<1>4. ASSUME NEW t \in Threads, Dec!Descend(t)
      PROVE  DecTypes'
  <2>1. /\ p' = [p EXCEPT ![t] = Dec!Child(t)] /\ mask' = [mask EXCEPT ![t] = @ + 1]
        /\ UNCHANGED <<decMain, decPc, decPos, o, decByte>>
    BY <1>4 DEF Dec!Descend
  <2>2. Dec!Child(t) \in Seq({0, 1})
    BY DEF Dec!Child, DecTypes
  <2>3. p' \in [Threads -> Seq({0, 1})] /\ mask' \in [Threads -> Nat]
    <3>. DEFINE c == Dec!Child(t)
    <3>. HIDE DEF c
    <3>1. c \in Seq({0, 1}) /\ p' = [p EXCEPT ![t] = c]
      BY <2>1, <2>2 DEF c
    <3>2. p' \in [Threads -> Seq({0, 1})]
      BY <3>1 DEF DecTypes
    <3>3. mask' \in [Threads -> Nat]
      BY <2>1 DEF DecTypes
    <3>. QED
      BY <3>2, <3>3
  <2>. QED
    BY <1>0, <2>1, <2>3 DEF DecTypes
<1>5. ASSUME NEW t \in Threads, Dec!EmitSymbol(t)
      PROVE  DecTypes'
  <2>1. /\ p' = [p EXCEPT ![t] = << >>] /\ mask' = [mask EXCEPT ![t] = @ + 1]
        /\ o' = [o EXCEPT ![t] = @ + 1]
        /\ UNCHANGED <<decMain, decPc, decPos, decByte>>
    BY <1>5 DEF Dec!EmitSymbol
  <2>2. << >> \in Seq({0, 1})
    OBVIOUS
  <2>3. p' \in [Threads -> Seq({0, 1})] /\ mask' \in [Threads -> Nat] /\ o' \in [Threads -> Nat]
    BY <2>1, <2>2 DEF DecTypes
  <2>. QED
    BY <1>0, <2>1, <2>3 DEF DecTypes
<1>6. ASSUME NEW t \in Threads, Dec!Crash(t)
      PROVE  DecTypes'
  BY <1>0, <1>6 DEF Dec!Crash, Dec!walk, DecTypes
<1>7. ASSUME NEW t \in Threads, Dec!EndOfByte(t)
      PROVE  DecTypes'
  <2>1. decPc' = [decPc EXCEPT ![t] = "byte"] /\ UNCHANGED <<decMain, decPos, o, decByte, mask, p>>
    BY <1>7 DEF Dec!EndOfByte, Dec!walk
  <2>2. decPc' \in [Threads -> {"byte", "bits"}]
    BY <2>1 DEF DecTypes
  <2>. QED
    BY <1>0, <2>1, <2>2 DEF DecTypes
<1>. QED
  BY <1>1, <1>2, <1>3, <1>4, <1>5, <1>6, <1>7 DEF Dec!Step

(* What a step of the decoder does to the output: nothing, or one position   *)
(* receives the byte that the original has there.                            *)
Copies == UNCHANGED out \/ \E x \in DOMAIN data : Copier!Copy(x)

(* The decoder starts at the offsets in the header, at the root of the tree. *)
LEMMA ReadOffsetsDecodes ==
  ASSUME Enc!TypeOK, table = encOffset, UNCHANGED encOffset,
         out = << >>, \A t \in Threads : decPc[t] = "byte" /\ p[t] = << >>,
         Dec!ReadOffsets
  PROVE  DecodingInv' /\ Copies
<1>1. /\ decMain' = "decode" /\ decPos' = [t \in Threads |-> table[t]]
      /\ o' = [t \in Threads |-> Dec!OutFrom(t)]
      /\ UNCHANGED <<size, data, code, decPc, p, out>>
  BY DEF Dec!ReadOffsets, Dec!Threads, Threads, Dec!file
<1>2. CASE ~ NoEmptyCode
  <2>1. (~ NoEmptyCode)'
    BY <1>1, <1>2 DEF NoEmptyCode
  <2>. QED
    <3>1. ASSUME NEW t \in Threads PROVE o'[t] = Lo(t) /\ Lo(t)' = Lo(t)
      BY <1>1 DEF Lo, Dec!OutFrom, Dec!ChunkStart, ChunkStart, Dec!UPDIV, UPDIV
    <3>. QED
      BY <1>1, <2>1, <3>1 DEF DecodingInv, Copies
<1>3. CASE NoEmptyCode
  <2>1. NoEmptyCode'
    BY <1>1, <1>3 DEF NoEmptyCode
  <2>2. ASSUME NEW t \in Threads
        PROVE  Walking(t)' /\ Emitted(t)' = {}
    <3>1. /\ Lo(t)' = Lo(t) /\ Hi(t)' = Hi(t) /\ UNCHANGED <<code, data>>
          /\ o'[t] = Lo(t) /\ decPos'[t] = encOffset[t] /\ encOffset'[t] = encOffset[t]
          /\ decPc'[t] = "byte" /\ p'[t] = << >>
      BY <1>1 DEF Lo, Hi, Dec!OutFrom, Dec!ChunkStart, ChunkStart, Dec!UPDIV, UPDIV
    <3>2. /\ size \in Nat /\ Lo(t) \in Nat /\ Hi(t) \in Nat /\ Hi(t) <= size
      BY ChunkBits
    <3>3. encOffset[t] \in Nat /\ ByteBits \in Nat
      BY WidthAssumption DEF Enc!TypeOK, Enc!Threads, Threads
    <3>4. Emitted(t)' = {}
      <4>1. Lo(t) .. Lo(t) - 1 = {}
        BY <3>2
      <4>. QED
        BY <3>1, <4>1 DEF Emitted
    <3>5. Bits(code, data, Lo(t), Lo(t)) = << >>
      BY <3>2, BitsSteps
    <3>6. Walked(t)' = 0
      <4>1. Walked(t)' = Len(Bits(code, data, Lo(t), Lo(t))) + Len(<< >>)
        BY <3>1 DEF Walked
      <4>. QED
        BY <3>5, <4>1
    <3>7. Fetched(t)'
      <4>1. (encOffset[t] - encOffset[t]) * ByteBits = 0 /\ encOffset[t] <= encOffset[t]
        BY <3>3
      <4>. QED
        BY <3>1, <3>6, <4>1 DEF Fetched
    <3>8. ASSUME Lo(t) < Hi(t)
          PROVE  /\ OnWay(<< >>, code[data[Lo(t)]])
                 /\ Len(<< >>) < Len(code[data[Lo(t)]])
      <4>1. Lo(t) \in 0 .. size - 1
        BY <3>2, <3>8
      <4>. DEFINE e == code[data[Lo(t)]]
      <4>2. e \in Seq({0, 1}) /\ e # << >>
        BY <1>3, <4>1, CodesAssumption DEF NoEmptyCode, Enc!TypeOK
      <4>. HIDE DEF e
      <4>3. Len(e) \in Nat /\ Len(e) # 0 /\ Len(<< >>) = 0 /\ << >> \in Seq({0, 1})
        BY <4>2, EmptySeq, LenProperties
      <4>4. OnWay(<< >>, e) /\ Len(<< >>) < Len(e)
        BY <4>3 DEF OnWay
      <4>. QED
        BY <4>4 DEF e
    <3>9. Walking(t)'
      <4>1. Lo(t) <= Lo(t)
        BY <3>2
      <4>2. o'[t] < Hi(t)' => /\ OnWay(p'[t], code'[data'[o'[t]]])
                              /\ Len(p'[t]) < Len(code'[data'[o'[t]]])
        BY <3>1, <3>8
      <4>3. Lo(t)' <= o'[t] /\ o'[t] = Lo(t)'
        BY <3>1, <4>1
      <4>. QED
        BY <3>7, <4>2, <4>3 DEF Walking
    <3>. QED
      BY <3>4, <3>9
  <2>3. UNION {Emitted(t)' : t \in Threads} = {}
    BY <2>2
  <2>4. out' = [x \in UNION {Emitted(t)' : t \in Threads} |-> data'[x]]
    BY <1>1, <2>3
  <2>5. decMain' # "crashed" /\ decMain' # "done"
    BY <1>1
  <2>. QED
    BY <1>1, <2>1, <2>2, <2>4, <2>5 DEF DecodingInv, Copies
<1>. QED
  BY <1>2, <1>3

(* A step of one thread leaves the others where they are.                    *)
LEMMA OthersStay ==
  ASSUME Enc!TypeOK, DecTypes, UNCHANGED encOffset, NEW t \in Threads, Dec!Step(t),
         NEW u \in Threads, u # t
  PROVE  /\ UNCHANGED <<file, encOffset>>
         /\ decPc'[u] = decPc[u] /\ decPos'[u] = decPos[u] /\ o'[u] = o[u]
         /\ mask'[u] = mask[u] /\ decByte'[u] = decByte[u] /\ p'[u] = p[u]
<1>1. UNCHANGED file
  BY DecodingSteps
<1>2. CASE Dec!FetchByte(t)
  BY <1>1, <1>2 DEF Dec!FetchByte, DecTypes
<1>3. CASE Dec!Descend(t)
  BY <1>1, <1>3 DEF Dec!Descend, DecTypes
<1>4. CASE Dec!EmitSymbol(t)
  BY <1>1, <1>4 DEF Dec!EmitSymbol, DecTypes
<1>5. CASE Dec!Crash(t) \/ Dec!EndOfByte(t)
  BY <1>1, <1>5 DEF Dec!Crash, Dec!EndOfByte, Dec!walk, DecTypes
<1>. QED
  BY <1>2, <1>3, <1>4, <1>5 DEF Dec!Step

(* Somebody has a symbol to decode.                                          *)
LEMMA SomeChunk ==
  ASSUME Enc!TypeOK
  PROVE  \E t \in Threads : Lo(t) < Hi(t)
<1>1. size \in Nat /\ NumThreads \in Nat \ {0}
  BY InputBounds
<1>2. 0 \in 0 .. size - 1
  BY <1>1, SizesAssumption DEF Enc!TypeOK
<1>3. PICK t \in 0 .. NumThreads - 1 :
        ChunkStart(size, NumThreads, t) <= 0 /\ 0 < ChunkEnd(size, NumThreads, t)
  BY <1>1, <1>2, ChunksCover
<1>4. t \in Threads
  BY DEF Threads
<1>5. Lo(t) <= 0 /\ 0 < Hi(t) /\ Lo(t) \in Nat /\ Hi(t) \in Nat
  BY <1>3, <1>4, ChunkBits DEF Lo, Hi
<1>. QED
  BY <1>4, <1>5

(* If nothing that the decoder has changes, it stays where it is; it may be  *)
(* done when every thread has filled its part.                               *)
LEMMA DecodingStays ==
  ASSUME Enc!TypeOK, DecodingInv,
         UNCHANGED <<file, encOffset, decPc, decPos, o, mask, decByte, p, out>>,
         decMain' = decMain \/ (decMain' = "done" /\ \A t \in Threads : Hi(t) <= o[t])
  PROVE  DecodingInv'
<1>1. NoEmptyCode' = NoEmptyCode /\ UNCHANGED <<data, o>>
  BY DEF NoEmptyCode, file
<1>2. \A t \in Threads : Walking(t)' = Walking(t) /\ Emitted(t)' = Emitted(t)
  BY WalkStays
<1>3. \A t \in Threads : Lo(t)' = Lo(t) /\ Hi(t)' = Hi(t)
  BY DEF Lo, Hi, file
<1>4. CASE NoEmptyCode
  <2>1. out' = [x \in UNION {Emitted(t)' : t \in Threads} |-> data'[x]]
    <3>1. UNION {Emitted(t)' : t \in Threads} = UNION {Emitted(t) : t \in Threads}
      BY <1>2
    <3>. QED
      BY <1>1, <1>4, <3>1 DEF DecodingInv
  <2>2. decMain' # "crashed" /\ (decMain' = "done" => \A t \in Threads : Hi(t)' <= o'[t])
    BY <1>1, <1>3, <1>4 DEF DecodingInv
  <2>. QED
    BY <1>1, <1>2, <1>4, <2>1, <2>2 DEF DecodingInv
<1>5. CASE ~ NoEmptyCode
  <2>1. decMain' # "done"
    <3>. SUFFICES ASSUME decMain' = "done" PROVE FALSE
      OBVIOUS
    <3>1. \A t \in Threads : Hi(t) <= o[t] /\ o[t] = Lo(t)
      BY <1>5 DEF DecodingInv
    <3>2. PICK t \in Threads : Lo(t) < Hi(t)
      BY SomeChunk
    <3>3. Lo(t) \in Nat /\ Hi(t) \in Nat
      BY ChunkBits
    <3>. QED
      BY <3>1, <3>2, <3>3
  <2>. QED
    BY <1>1, <1>3, <1>5, <2>1 DEF DecodingInv
<1>. QED
  BY <1>4, <1>5

(* A step of a thread keeps the invariant, and writes what belongs there.    *)
LEMMA ThreadDecodes ==
  ASSUME Inv, PackingInv, SameCut(size, NumThreads), encMain = "done", DecTypes,
         IsPrefixCode(code), DecodingInv, UNCHANGED encOffset, NEW t \in Threads, Dec!Step(t)
  PROVE  DecodingInv' /\ Copies
<1>0. Enc!TypeOK /\ code \in Codes
  BY DEF Inv, EncInv, Enc!TypeOK
<1>1. UNCHANGED file /\ UNCHANGED <<size, data, code>> /\ NoEmptyCode' = NoEmptyCode
  BY DecodingSteps DEF file, NoEmptyCode
<1>2. CASE ~ NoEmptyCode
  <2>1. out = << >> /\ decMain # "done" /\ \A u \in Threads : p[u] = << >> /\ o[u] = Lo(u)
    BY <1>2 DEF DecodingInv
  <2>2. PICK s \in DOMAIN code : code[s] = << >>
    BY <1>2 DEF NoEmptyCode
  <2>3. ~ Dec!IsLeaf(Dec!Child(t)) /\ Dec!Child(t) \notin Dec!TreeNodes
    <3>1. Dec!TreeNodes = {<< >>} /\ ~ Dec!IsLeaf(Dec!Child(t))
      BY <1>0, <2>2, EmptyCode
    <3>2. Dec!Child(t) # << >>
      <4>. DEFINE c == IF mask[t] \in decByte[t] THEN 1 ELSE 0
      <4>1. Dec!Child(t) = Append(p[t], c) /\ c \in {0, 1} /\ p[t] \in Seq({0, 1})
        BY DEF Dec!Child, DecTypes
      <4>. HIDE DEF c
      <4>. QED
        BY <4>1
    <3>. QED
      BY <3>1, <3>2
  <2>4. UNCHANGED <<p, o, out>> /\ decMain' # "done"
    BY <2>1, <2>3 DEF Dec!Step, Dec!FetchByte, Dec!Descend, Dec!EmitSymbol, Dec!Crash, Dec!EndOfByte,
                Dec!walk
  <2>5. \A u \in Threads : Lo(u)' = Lo(u)
    BY <1>1 DEF Lo
  <2>. QED
    BY <1>1, <1>2, <2>1, <2>4, <2>5 DEF DecodingInv, Copies
<1>3. CASE NoEmptyCode
  <2>1. /\ decMain # "crashed" /\ \A u \in Threads : Walking(u)
        /\ out = [x \in UNION {Emitted(u) : u \in Threads} |-> data[x]]
    BY <1>3 DEF DecodingInv
  <2>0. decMain = "decode"
    BY DEF Dec!Step, Dec!FetchByte, Dec!Descend, Dec!EmitSymbol, Dec!Crash, Dec!EndOfByte,
           Dec!HasBit
  <2>2. ASSUME NEW u \in Threads, u # t
        PROVE  Walking(u)' /\ Emitted(u)' = Emitted(u)
    BY <1>0, <2>1, <2>2, OthersStay, WalkStays
  <2>3. CASE Dec!FetchByte(t) \/ Dec!EndOfByte(t) \/ Dec!Descend(t)
    <3>1. Walking(t)' /\ Emitted(t)' = Emitted(t)
      BY <1>0, <2>1, <2>3, FetchByteWalks, EndOfByteWalks, DescendWalks
    <3>2. UNCHANGED <<decMain, out>>
      BY <2>3 DEF Dec!FetchByte, Dec!EndOfByte, Dec!Descend, Dec!walk
    <3>3. \A u \in Threads : Walking(u)' /\ Emitted(u)' = Emitted(u)
      BY <2>2, <3>1
    <3>4. UNION {Emitted(u)' : u \in Threads} = UNION {Emitted(u) : u \in Threads}
      BY <3>3
    <3>5. out' = [x \in UNION {Emitted(u)' : u \in Threads} |-> data'[x]]
      BY <1>1, <2>1, <3>2, <3>4
    <3>. QED
      BY <1>1, <1>3, <2>0, <2>1, <3>2, <3>3, <3>5 DEF DecodingInv, Copies
  <2>4. CASE Dec!EmitSymbol(t)
    <3>. DEFINE S == UNION {Emitted(u) : u \in Threads}
                T == UNION {Emitted(u)' : u \in Threads}
    <3>1. /\ Walking(t)' /\ Emitted(t)' = Emitted(t) \cup {o[t]}
          /\ Lo(t) <= o[t] /\ o[t] < Hi(t)
          /\ out' = [x \in DOMAIN out \cup {o[t]} |-> IF x = o[t] THEN data[x] ELSE out[x]]
      BY <1>0, <1>3, <2>1, <2>4, EmitSymbolWalks
    <3>2. o[t] \notin S /\ o[t] \in DOMAIN data
      BY <1>0, <2>1, <3>1, NotYetWritten
    <3>3. T = S \cup {o[t]}
      BY <2>2, <3>1
    <3>4. decMain' = decMain
      BY <2>4 DEF Dec!EmitSymbol
    <3>. HIDE DEF S, T
    <3>5. out = [x \in S |-> data[x]] /\ DOMAIN out = S
      BY <2>1 DEF S
    <3>6. out' = [x \in S \cup {o[t]} |-> data[x]]
      BY <3>1, <3>5
    <3>7. out' = [x \in T |-> data'[x]]
      BY <1>1, <3>3, <3>6
    <3>8. DecodingInv'
      <4>1. \A u \in Threads : Walking(u)'
        BY <2>2, <3>1
      <4>. QED
        BY <1>1, <1>3, <2>0, <2>1, <3>4, <3>7, <4>1 DEF DecodingInv, T
    <3>9. Copier!Copy(o[t])
      BY <1>1, <3>2, <3>5, <3>6 DEF Copier!Copy
    <3>. QED
      BY <3>2, <3>8, <3>9 DEF Copies
  <2>5. ~ Dec!Crash(t)
    <3>. SUFFICES ASSUME Dec!Crash(t) PROVE FALSE
      OBVIOUS
    <3>1. Dec!HasBit(t) /\ decPc[t] = "bits" /\ Dec!Child(t) \notin Dec!TreeNodes
      BY DEF Dec!Crash, Dec!HasBit
    <3>. QED
      BY <1>0, <2>1, <3>1, BitIsNext
  <2>. QED
    BY <2>3, <2>4, <2>5 DEF Dec!Step
<1>. QED
  BY <1>2, <1>3

(* The decoder's invariant holds at first ...                                *)
LEMMA DecInit == Init => DecInv
<1>. SUFFICES ASSUME Init PROVE DecInv
  OBVIOUS
<1>1. /\ decMain = "load" /\ out = << >> /\ stage = "read"
      /\ decPc = [t \in Threads |-> "byte"] /\ decPos = [t \in Threads |-> 0]
      /\ o = [t \in Threads |-> 0] /\ mask = [t \in Threads |-> 0]
      /\ p = [t \in Threads |-> << >>] /\ decByte = [t \in Threads |-> {}]
  BY DEF Init, Dec!WalkInit, Dec!Threads, Threads
<1>2. << >> \in Seq({0, 1}) /\ {} \in Enc!Bytes
  BY DEF Enc!Bytes
<1>3. DecTypes
  BY <1>1, <1>2 DEF DecTypes
<1>. QED
  BY <1>1, <1>3 DEF DecInv, LoadInv

(* ... and after each step of the driver, and only a decoding thread of the  *)
(* parallel version touches the output.                                      *)
LEMMA DecStep ==
  ASSUME Inv, PackingInv, SameCut(size, NumThreads), IsPrefixCode(code), DecInv, [Next]_vars
  PROVE  DecInv' /\ (~ isSeq => Copies)
<1>0. Enc!TypeOK /\ isSeq' = isSeq /\ isSeq \in BOOLEAN /\ UNCHANGED file
  BY Frame DEF Inv, EncInv, DriverTypes
<1>1. CASE /\ DecodeParallel /\ ~ isSeq /\ stage = "decode"
           /\ UNCHANGED <<stage, encVars, table, payload>>
  <2>0. /\ encMain = "done" /\ UNCHANGED encOffset /\ DecTypes /\ LoadInv
        /\ (\E t \in Threads : Dec!Step(t)) \/ Dec!ReadOffsets \/ Dec!EndOfDecoding
    BY <1>1 DEF Inv, ReadInv, encVars, DecInv, DecodeParallel
  <2>1. DecTypes'
    BY <1>0, <2>0, DecTypesStep
  <2>2. CASE \E t \in Threads : Dec!Step(t)
    <3>1. PICK t \in Threads : Dec!Step(t)
      BY <2>2
    <3>2. decMain = "decode" /\ decMain' # "load"
      BY <3>1 DEF Dec!Step, Dec!FetchByte, Dec!Descend, Dec!EmitSymbol, Dec!Crash, Dec!EndOfByte,
                  Dec!HasBit
    <3>3. DecodingInv
      BY <2>0, <3>2 DEF LoadInv
    <3>4. DecodingInv' /\ Copies
      BY <2>0, <3>1, <3>3, ThreadDecodes
    <3>. QED
      BY <1>0, <1>1, <2>1, <3>2, <3>4 DEF DecInv, LoadInv
  <2>3. CASE Dec!ReadOffsets
    <3>1. decMain = "load" /\ decMain' = "decode"
      BY <2>3 DEF Dec!ReadOffsets
    <3>2. out = << >> /\ \A t \in Threads : decPc[t] = "byte" /\ p[t] = << >>
      BY <2>0, <3>1 DEF LoadInv
    <3>3. table = encOffset
      BY <2>0, PackedAtEnd
    <3>4. DecodingInv' /\ Copies
      BY <1>0, <2>0, <2>3, <3>2, <3>3, ReadOffsetsDecodes
    <3>. QED
      BY <1>0, <1>1, <2>1, <3>1, <3>4 DEF DecInv, LoadInv
  <2>4. CASE Dec!EndOfDecoding
    <3>1. /\ decMain = "decode" /\ decMain' = "done"
          /\ UNCHANGED <<decPc, decPos, o, mask, decByte, p, out>>
          /\ \A t \in Threads : o[t] >= Dec!OutTo(t)
      BY <2>4 DEF Dec!EndOfDecoding, Dec!walk, Dec!Full, Dec!Threads, Threads
    <3>4. \A t \in Threads : Hi(t) <= o[t]
      <4>1. \A t \in Threads : Dec!OutTo(t) = Hi(t)
        BY DEF Dec!OutTo, Hi, Dec!ChunkEnd, ChunkEnd, Dec!ChunkStart, ChunkStart, Dec!UPDIV, UPDIV,
               Dec!Least, Least
      <4>2. \A t \in Threads : Hi(t) \in Nat /\ o[t] \in Nat
        BY <1>0, <2>0, ChunkBits DEF DecTypes
      <4>. QED
        BY <3>1, <4>1, <4>2
    <3>2. DecodingInv
      BY <2>0, <3>1 DEF LoadInv
    <3>3. DecodingInv'
      BY <1>0, <2>0, <3>1, <3>2, <3>4, DecodingStays
    <3>. QED
      BY <1>0, <1>1, <2>1, <3>1, <3>3 DEF DecInv, LoadInv, Copies
  <2>. QED
    BY <2>0, <2>2, <2>3, <2>4
<1>2. CASE /\ UNCHANGED decVars
           /\ \/ isSeq
              \/ /\ UNCHANGED out
                 /\ stage' = "done" => stage = "done" \/ decMain = "done"
  <2>1. UNCHANGED <<decMain, decPc, decPos, o, mask, decByte, p>>
    BY <1>2 DEF decVars
  <2>2. DecTypes'
    BY <2>1 DEF DecInv, DecTypes, Enc!Bytes
  <2>3. CASE isSeq
    BY <1>0, <2>1, <2>2, <2>3 DEF DecInv
  <2>4. CASE ~ isSeq /\ decMain = "load"
    BY <1>0, <1>2, <2>1, <2>2, <2>4 DEF DecInv, LoadInv, Copies
  <2>5. CASE ~ isSeq /\ decMain # "load"
    <3>1. stage \in {"decode", "done"} /\ DecodingInv
      BY <2>5 DEF DecInv, LoadInv
    <3>2. stage' \in {"decode", "done"} /\ UNCHANGED encOffset
      BY <3>1, Frame DEF encVars
    <3>3. DecodingInv'
      BY <1>0, <1>2, <2>1, <2>5, <3>1, <3>2, DecodingStays
    <3>. QED
      BY <1>0, <1>2, <2>1, <2>2, <2>5, <3>2, <3>3 DEF DecInv, LoadInv, Copies
  <2>. QED
    BY <2>3, <2>4, <2>5
<1>. QED
  BY <1>1, <1>2, DecFrame

-------------------------------------------------------------------------------
(* What is assumed of the files and the codes: get_out_size and do_encode    *)
(* cut alike, and no code is the beginning of another.                       *)
Decodable ==
  /\ \A n \in Sizes : SameCut(n, NumThreads)
  /\ \A c \in Codes : IsPrefixCode(c)

(* The invariant of the parallel version, from the file to the output.       *)
LEMMA DecAlways ==
  ASSUME Decodable
  PROVE  Spec => [](Inv /\ PackingInv /\ DecInv)
<1>1. Inv => SameCut(size, NumThreads) /\ IsPrefixCode(code)
  BY DEF Inv, EncInv, Enc!TypeOK, Decodable
<1>2. Inv /\ PackingInv /\ DecInv /\ [Next]_vars => DecInv'
  BY <1>1, DecStep
<1>3. \A n \in Sizes : SameCut(n, NumThreads)
  BY DEF Decodable
<1>4. Spec => [](Inv /\ PackingInv)
  BY <1>3, PackingAlways
<1>. QED
  BY <1>2, <1>4, DecInit, PTL DEF Spec

(* huffman_decode_parallel: no thread fetches a byte outside of its slot,    *)
(* although nothing but the size of its part of the output makes it stop.    *)
THEOREM FetchesInsideSlot ==
  ASSUME Decodable
  PROVE  Spec => []FetchesOwnSlot
<1>1. Inv /\ PackingInv /\ DecInv => FetchesOwnSlot
  <2>. SUFFICES ASSUME Inv, PackingInv, DecInv, stage = "decode", Dec!TwoSymbols,
                       decMain = "decode", NEW t \in Threads, decPc[t] = "byte",
                       o[t] < Dec!OutTo(t)
                PROVE  decPos[t] \in Dec!PackedSlot(t)
    BY DEF FetchesOwnSlot, Dec!FetchesOwnSlot, Dec!Threads, Threads
  <2>1. ~ isSeq /\ DecodingInv /\ DecTypes
    BY DEF DecInv, LoadInv, Inv, DriverTypes
  <2>2. encMain = "done" /\ SameCut(size, NumThreads) /\ IsPrefixCode(code) /\ code \in Codes
    BY <2>1 DEF Inv, ReadInv, EncInv, Enc!TypeOK, Decodable
  <2>3. NoEmptyCode
    BY <2>2, TwoCodes DEF NoEmptyCode
  <2>4. Walking(t) /\ o[t] \in Nat /\ decPos[t] \in Nat
    BY <2>1, <2>3 DEF DecodingInv, DecTypes
  <2>5. o[t] < Hi(t)
    BY DEF Dec!OutTo, Hi, Dec!ChunkEnd, ChunkEnd, Dec!ChunkStart, ChunkStart, Dec!UPDIV, UPDIV,
           Dec!Least, Least
  <2>. QED
    BY <2>2, <2>4, <2>5, FetchInSlot
<1>. QED
  BY <1>1, DecAlways, PTL

(* run_huffman with the parallel version, from the file to the output: what  *)
(* the decoding threads leave behind is the file, if its code has a bit.     *)
THEOREM ParallelResult ==
  ASSUME Decodable
  PROVE  Spec /\ ~ isSeq => []ResultIsCorrect
<1>1. Inv /\ PackingInv /\ DecInv /\ ~ isSeq => ResultIsCorrect
  <2>. SUFFICES ASSUME Inv, DecInv, ~ isSeq, stage = "done" PROVE out = data
    BY DEF ResultIsCorrect
  <2>1. Enc!TypeOK /\ decMain = "done" /\ DecodingInv /\ DecTypes
    BY DEF Inv, EncInv, DecInv, LoadInv
  <2>2. /\ out = [x \in UNION {Emitted(t) : t \in Threads} |-> data[x]]
        /\ \A t \in Threads : Hi(t) <= o[t] /\ Walking(t)
    BY <2>1 DEF DecodingInv
  <2>3. size \in Nat /\ NumThreads \in Nat \ {0} /\ DOMAIN data = 0 .. size - 1
        /\ data = [x \in 0 .. size - 1 |-> data[x]]
    BY <2>1, InputBounds DEF Enc!TypeOK
  <2>4. ASSUME NEW t \in Threads, NEW x \in Emitted(t)
        PROVE  x \in 0 .. size - 1
    <3>1. Lo(t) \in Nat /\ Hi(t) \in Nat /\ Hi(t) <= size /\ o[t] \in Nat
      BY <2>1, ChunkBits DEF DecTypes
    <3>2. o[t] <= Hi(t) \/ o[t] = Lo(t)
      BY <2>2 DEF Walking
    <3>. QED
      BY <2>3, <2>4, <3>1, <3>2 DEF Emitted
  <2>5. ASSUME NEW x \in 0 .. size - 1
        PROVE  \E t \in Threads : x \in Emitted(t)
    <3>1. PICK t \in 0 .. NumThreads - 1 :
            ChunkStart(size, NumThreads, t) <= x /\ x < ChunkEnd(size, NumThreads, t)
      BY <2>3, ChunksCover
    <3>2. t \in Threads /\ Lo(t) <= x /\ x < Hi(t)
      BY <3>1 DEF Threads, Lo, Hi
    <3>3. Lo(t) \in Nat /\ Hi(t) \in Nat /\ o[t] \in Nat
      BY <2>1, <3>2, ChunkBits DEF DecTypes
    <3>. QED
      BY <2>2, <3>2, <3>3 DEF Emitted
  <2>6. UNION {Emitted(t) : t \in Threads} = 0 .. size - 1
    BY <2>4, <2>5
  <2>. QED
    BY <2>2, <2>3, <2>6
<1>2. ~ isSeq /\ [Next]_vars => (~ isSeq)'
  BY Frame
<1>. QED
  BY <1>1, <1>2, DecAlways, PTL DEF Spec

(* ... and on the way to it every position is written once, with the byte    *)
(* that the file has there.                                                  *)
THEOREM ParallelCopies ==
  ASSUME Decodable
  PROVE  Spec /\ ~ isSeq => CopiesFile
<1>1. Init => Copier!Init
  BY DEF Init, Dec!WalkInit, Copier!Init
<1>2. Inv /\ PackingInv /\ DecInv /\ ~ isSeq /\ [Next]_vars
        => (~ isSeq)' /\ [Copier!Next]_<<data, out>>
  <2>. SUFFICES ASSUME Inv, PackingInv, DecInv, ~ isSeq, [Next]_vars
                PROVE  (~ isSeq)' /\ [Copier!Next]_<<data, out>>
    OBVIOUS
  <2>1. SameCut(size, NumThreads) /\ IsPrefixCode(code)
    BY DEF Inv, EncInv, Enc!TypeOK, Decodable
  <2>2. Copies
    BY <2>1, DecStep
  <2>3. UNCHANGED <<data, isSeq>>
    BY Frame DEF file
  <2>. QED
    BY <2>2, <2>3 DEF Copies, Copier!Next
<1>. QED
  BY <1>1, <1>2, DecAlways, PTL DEF Spec, CopiesFile, Copier!Spec
-------------------------------------------------------------------------------
(* The sequential version. *)

(* What is assumed of the header's fields: a code's length fits into one     *)
(* byte, as the depth of a tree of at most 256 leaves does, and the number   *)
(* of codes into its field.                                                  *)
Storable ==
  /\ \A c \in Codes : \A s \in DOMAIN c : Len(c[s]) < 2 ^ ByteBits
  /\ MaxSymbols < 2 ^ (CountBytes * ByteBits)

P == INSTANCE SeqCodec_proofs WITH symbolCount <- size, pc <- seqPc, stage <- seqStage,
       k <- seqK, cnt <- seqCnt, b <- seqB, byte <- seqByte, bit <- seqBit, p <- seqP

(* The header that the driver writes and reads is the one of the proofs.     *)
LEMMA SameHeader ==
  /\ Seql!Table!WriteStep <=> P!Table!WriteStep
  /\ Seql!Table!ReadStep <=> P!Table!ReadStep
  /\ Seql!Table!Rewind <=> P!Table!Rewind
  /\ \A bs : Seql!Table!WriteData(bs) <=> P!Table!WriteData(bs)
  /\ \A w : Seql!Table!Fits(w) <=> P!Table!Fits(w)
  /\ Seql!Table!AccessWidth = P!Table!AccessWidth
  /\ Seql!Table!TableRestored <=> P!Table!TableRestored
  /\ Seql!Table!HeaderSize(code) = P!Table!HeaderSize(code)
<1>1. \A w : Seql!Table!Fits(w) <=> P!Table!Fits(w)
  BY DEF Seql!Table!Fits, P!Table!Fits
<1>2. \A bs : Seql!Table!WriteData(bs) <=> P!Table!WriteData(bs)
  BY DEF Seql!Table!WriteData, P!Table!WriteData, Seql!Table!Fits, P!Table!Fits
<1>3. Seql!Table!HeaderSize(code) = P!Table!HeaderSize(code)
  BY DEF Seql!Table!HeaderSize, P!Table!HeaderSize, Seql!Table!NumBytesOf, P!Table!NumBytesOf,
         Seql!Table!UPDIV, P!Table!UPDIV, Seql!Table!SumFunctionOnSet, P!Table!SumFunctionOnSet,
         Seql!Table!FoldFunctionOnSet, P!Table!FoldFunctionOnSet,
         Seql!Table!MapThenFoldSet, P!Table!MapThenFoldSet
<1>4. \A f, S : Seql!Table!SumFunctionOnSet(f, S) = P!Table!SumFunctionOnSet(f, S)
  BY DEF Seql!Table!SumFunctionOnSet, P!Table!SumFunctionOnSet,
         Seql!Table!FoldFunctionOnSet, P!Table!FoldFunctionOnSet,
         Seql!Table!MapThenFoldSet, P!Table!MapThenFoldSet
<1>5. \A f, w : Seql!Table!PackBits(f, w) = P!Table!PackBits(f, w)
  BY DEF Seql!Table!PackBits, P!Table!PackBits, Seql!Table!UPDIV, P!Table!UPDIV
<1>6. \A v, w : Seql!Table!NumberBytes(v, w) = P!Table!NumberBytes(v, w)
  BY DEF Seql!Table!NumberBytes, P!Table!NumberBytes
<1>7. \A bs : Seql!Table!NumberIn(bs) = P!Table!NumberIn(bs)
  BY <1>4 DEF Seql!Table!NumberIn, P!Table!NumberIn
<1>8. \A n : Seql!Table!NumBytesOf(n) = P!Table!NumBytesOf(n)
  BY DEF Seql!Table!NumBytesOf, P!Table!NumBytesOf, Seql!Table!UPDIV, P!Table!UPDIV
<1>9. \A bs : Seql!Table!CodeBytes(bs) = P!Table!CodeBytes(bs)
  BY <1>5, <1>8 DEF Seql!Table!CodeBytes, P!Table!CodeBytes
<1>10. \A s : Seql!Table!Entry(s) = P!Table!Entry(s)
  BY <1>6, <1>9 DEF Seql!Table!Entry, P!Table!Entry
<1>11. \A f, w : Seql!Table!DataAt(f, w) = P!Table!DataAt(f, w)
  BY DEF Seql!Table!DataAt, P!Table!DataAt
<1>12. Seql!Table!CodeLength = P!Table!CodeLength
  BY <1>7, <1>11 DEF Seql!Table!CodeLength, P!Table!CodeLength
<1>13. \A S : Seql!Table!Cardinality(S) = P!Table!Cardinality(S)
  BY DEF Seql!Table!Cardinality, P!Table!Cardinality
<1>14. \A x : Seql!Table!Prefixes(x) = P!Table!Prefixes(x)
  BY DEF Seql!Table!Prefixes, P!Table!Prefixes
<1>15. Seql!Table!WriteStep <=> P!Table!WriteStep
  <2>1. Seql!Table!WriteCount <=> P!Table!WriteCount
    BY <1>2, <1>6, <1>13 DEF Seql!Table!WriteCount, P!Table!WriteCount, Seql!Table!given, P!Table!given
  <2>2. Seql!Table!WriteSize <=> P!Table!WriteSize
    BY <1>2, <1>6 DEF Seql!Table!WriteSize, P!Table!WriteSize, Seql!Table!given, P!Table!given
  <2>3. Seql!Table!WriteEntry <=> P!Table!WriteEntry
    BY <1>2, <1>10 DEF Seql!Table!WriteEntry, P!Table!WriteEntry, Seql!Table!given, P!Table!given
  <2>4. Seql!Table!EndOfWriting <=> P!Table!EndOfWriting
    BY DEF Seql!Table!EndOfWriting, P!Table!EndOfWriting, Seql!Table!given, P!Table!given
  <2>. QED
    BY <2>1, <2>2, <2>3, <2>4 DEF Seql!Table!WriteStep, P!Table!WriteStep
<1>16. Seql!Table!ReadStep <=> P!Table!ReadStep
  <2>1. Seql!Table!ReadCount <=> P!Table!ReadCount
    BY <1>1, <1>7, <1>11 DEF Seql!Table!ReadCount, P!Table!ReadCount, Seql!Table!given, P!Table!given
  <2>2. Seql!Table!ReadSize <=> P!Table!ReadSize
    BY <1>1, <1>7, <1>11 DEF Seql!Table!ReadSize, P!Table!ReadSize, Seql!Table!given, P!Table!given,
                             Seql!Table!NonLeaf, P!Table!NonLeaf
  <2>3. \A bs, n : Seql!Table!BitsIn(bs, n) = P!Table!BitsIn(bs, n)
    BY DEF Seql!Table!BitsIn, P!Table!BitsIn
  <2>4. \A path, leaf : Seql!Table!WithPath(path, leaf) = P!Table!WithPath(path, leaf)
    BY <1>14 DEF Seql!Table!WithPath, P!Table!WithPath, Seql!Table!NonLeaf, P!Table!NonLeaf
  <2>5. Seql!Table!ReadEntry <=> P!Table!ReadEntry
    BY <1>1, <1>7, <1>8, <1>11, <1>12, <2>3, <2>4
    DEF Seql!Table!ReadEntry, P!Table!ReadEntry, Seql!Table!given, P!Table!given
  <2>6. Seql!Table!EndOfReading <=> P!Table!EndOfReading
    BY DEF Seql!Table!EndOfReading, P!Table!EndOfReading, Seql!Table!given, P!Table!given
  <2>. QED
    BY <2>1, <2>2, <2>5, <2>6 DEF Seql!Table!ReadStep, P!Table!ReadStep
<1>17. Seql!Table!Rewind <=> P!Table!Rewind
  BY DEF Seql!Table!Rewind, P!Table!Rewind, Seql!Table!given, P!Table!given
<1>18. Seql!Table!AccessWidth = P!Table!AccessWidth
  BY <1>1, <1>8, <1>10, <1>12 DEF Seql!Table!AccessWidth, P!Table!AccessWidth
<1>19. Seql!Table!TableRestored <=> P!Table!TableRestored
  BY DEF Seql!Table!TableRestored, P!Table!TableRestored, Seql!Table!NonLeaf, P!Table!NonLeaf,
         Seql!Table!Prefixes, P!Table!Prefixes
<1>. QED
  BY <1>1, <1>2, <1>3, <1>15, <1>16, <1>17, <1>18, <1>19

(* The codec of which the invariant was proved is the one of the driver.     *)
LEMMA SameCodec ==
  /\ Seql!Encode <=> P!Encode
  /\ Seql!Rewind <=> P!Rewind
  /\ Seql!Decode <=> P!Decode
  /\ Seql!Abort <=> P!Abort
<1>1. /\ Seql!HasSymbol <=> P!HasSymbol
      /\ Seql!CodeHere = P!CodeHere
      /\ Seql!HasBit <=> P!HasBit
      /\ Seql!NextByte = P!NextByte
      /\ Seql!Missing = P!Missing
      /\ Seql!Child = P!Child
      /\ Seql!Walking <=> P!Walking
  BY DEF Seql!HasSymbol, P!HasSymbol, Seql!CodeHere, P!CodeHere, Seql!HasBit, P!HasBit,
         Seql!NextByte, P!NextByte, Seql!Missing, P!Missing, Seql!Child, P!Child,
         Seql!Walking, P!Walking, Seql!Cardinality, P!Cardinality
<1>2. Seql!MeasureByte <=> P!MeasureByte
  BY <1>1 DEF Seql!MeasureByte, P!MeasureByte, Seql!input, P!input, Seql!header, P!header,
              Seql!coding, P!coding
<1>3. Seql!Allocate <=> P!Allocate
  BY <1>1 DEF Seql!Allocate, P!Allocate, Seql!OutSize, P!OutSize, Seql!input, P!input,
              Seql!header, P!header, Seql!coding, P!coding
<1>4. Seql!WriteHeader <=> P!WriteHeader
  BY SameHeader DEF Seql!WriteHeader, P!WriteHeader, Seql!coding, P!coding
<1>5. Seql!AddBit <=> P!AddBit
  BY <1>1 DEF Seql!AddBit, P!AddBit, Seql!input, P!input, Seql!header, P!header
<1>6. Seql!FillByte <=> P!FillByte
  BY <1>1, SameHeader DEF Seql!FillByte, P!FillByte, Seql!ByteAfterWrite, P!ByteAfterWrite,
                          Seql!input, P!input, Seql!header, P!header
<1>7. Seql!NextSymbol <=> P!NextSymbol
  BY <1>1 DEF Seql!NextSymbol, P!NextSymbol, Seql!input, P!input, Seql!header, P!header
<1>8. Seql!Flush <=> P!Flush
  BY <1>1, SameHeader DEF Seql!Flush, P!Flush, Seql!input, P!input, Seql!header, P!header,
                          Seql!coding, P!coding
<1>9. Seql!Rewind <=> P!Rewind
  BY SameHeader DEF Seql!Rewind, P!Rewind, Seql!coding, P!coding
<1>10. Seql!ReadHeader <=> P!ReadHeader
  BY SameHeader DEF Seql!ReadHeader, P!ReadHeader, Seql!coding, P!coding
<1>11. Seql!FetchByte <=> P!FetchByte
  BY <1>1, SameHeader DEF Seql!FetchByte, P!FetchByte, Seql!input, P!input, Seql!header, P!header
<1>12. Seql!Descend <=> P!Descend
  BY <1>1 DEF Seql!Descend, P!Descend, Seql!Table!NonLeaf, P!Table!NonLeaf,
              Seql!input, P!input, Seql!header, P!header
<1>13. Seql!EmitSymbol <=> P!EmitSymbol
  BY <1>1 DEF Seql!EmitSymbol, P!EmitSymbol, Seql!Table!NonLeaf, P!Table!NonLeaf,
              Seql!Cardinality, P!Cardinality, Seql!input, P!input, Seql!header, P!header
<1>14. Seql!EndOfByte <=> P!EndOfByte
  BY <1>1 DEF Seql!EndOfByte, P!EndOfByte, Seql!input, P!input, Seql!header, P!header,
              Seql!coding, P!coding
<1>15. Seql!EndOfDecoding <=> P!EndOfDecoding
  BY <1>1 DEF Seql!EndOfDecoding, P!EndOfDecoding, Seql!input, P!input, Seql!header, P!header,
              Seql!coding, P!coding
<1>16. Seql!Abort <=> P!Abort
  <2>1. Seql!AccessWidth = P!AccessWidth
    BY <1>1, SameHeader DEF Seql!AccessWidth, P!AccessWidth
  <2>. QED
    BY <2>1, SameHeader DEF Seql!Abort, P!Abort, Seql!input, P!input, Seql!header, P!header,
                            Seql!coding, P!coding
<1>. QED
  BY <1>2, <1>3, <1>4, <1>5, <1>6, <1>7, <1>8, <1>9, <1>10, <1>11, <1>12, <1>13, <1>14, <1>15, <1>16
  DEF Seql!Encode, P!Encode, Seql!Decode, P!Decode

(* ... so is what is claimed of it, ...                                      *)
LEMMA SameClaims ==
  /\ Seql!Init => P!Init
  /\ Seql!BufferUsedUp <=> P!BufferUsedUp
  /\ Seql!TableRestored <=> P!TableRestored
  /\ Seql!OutputIsReference <=> P!OutputIsReference
<1>1. Seql!Init => P!Init
  <2>1. Seql!Table!HeaderInit <=> P!Table!HeaderInit
    BY DEF Seql!Table!HeaderInit, P!Table!HeaderInit, Seql!Table!Cardinality, P!Table!Cardinality
  <2>. QED
    BY <2>1, SameHeader DEF Seql!Init, P!Init
<1>2. Seql!BufferUsedUp <=> P!BufferUsedUp
  BY DEF Seql!BufferUsedUp, P!BufferUsedUp
<1>3. Seql!TableRestored <=> P!TableRestored
  BY SameHeader DEF Seql!TableRestored, P!TableRestored
<1>4. Seql!OutputIsReference <=> P!OutputIsReference
  <2>1. \A bits, w : Seql!PackBits(bits, w) = P!PackBits(bits, w)
    BY DEF Seql!PackBits, P!PackBits, Seql!UPDIV, P!UPDIV
  <2>2. \A from, to : Seql!CodeBits(data, from, to, code) = P!CodeBits(data, from, to, code)
    BY DEF Seql!CodeBits, P!CodeBits, Seql!FlattenSeq, P!FlattenSeq
  <2>. QED
    BY <2>1, <2>2, SameHeader DEF Seql!OutputIsReference, P!OutputIsReference
<1>. QED
  BY <1>1, <1>2, <1>3, <1>4

(* ... and what is assumed.                                                  *)
LEMMA SequentialParameters ==
  ASSUME Storable
  PROVE  P!Parameters
<1>1. ByteBits \in Nat \ {0} /\ CountBytes \in Nat \ {0} /\ SizeBytes \in Nat \ {0}
  BY WidthAssumption
<1>2. 2 ^ ByteBits \in Nat /\ 2 ^ (SizeBytes * ByteBits) \in Nat
  <2>1. SizeBytes * ByteBits \in Nat
    BY <1>1
  <2>. QED
    BY <1>1, <2>1, PowersPositive
<1>3. MaxSymbols \in Nat /\ MaxSymbols <= 2 ^ ByteBits
  BY <1>2, WidthAssumption
<1>4. P!Widths
  BY <1>1, <1>3 DEF P!Widths, Storable
<1>5. \A c \in Codes : P!Fitting(c)
  BY CodesAssumption DEF P!Fitting, Storable
<1>6. \A n \in Sizes : n \in Nat \ {0} /\ n < 2 ^ (SizeBytes * ByteBits)
  BY <1>2, SizesAssumption
<1>. QED
  BY <1>4, <1>5, <1>6 DEF P!Parameters

-------------------------------------------------------------------------------
(* The invariant of the sequential codec, as long as it is the one that is   *)
(* run; it stays where it was otherwise.                                     *)
SequentialInv ==
  IF isSeq
  THEN P!SeqInv /\ (stage = "done" => seqStage = "done")
  ELSE seqStage = "measure" /\ seqPc = "writeCount"

(* It holds at first, ...                                                    *)
LEMMA SequentialInit ==
  ASSUME Storable
  PROVE  Init => SequentialInv
<1>. SUFFICES ASSUME Init PROVE SequentialInv
  OBVIOUS
<1>1. P!SeqInv
  BY SequentialParameters, SameClaims, P!SeqInit DEF Init
<1>2. seqStage = "measure" /\ seqPc = "writeCount" /\ stage = "read"
  BY DEF Init, Seql!Init, Seql!Table!HeaderInit
<1>. QED
  BY <1>1, <1>2 DEF SequentialInv

(* A step of the driver is one of the codec or leaves all that it has alone. *)
LEMMA SequentialFrame ==
  ASSUME [Next]_vars, isSeq
  PROVE  \/ /\ P!Encode \/ P!Rewind \/ P!Decode \/ P!Abort
            /\ stage' # "done" /\ stage # "done"
         \/ /\ UNCHANGED P!vars
            /\ stage' = "done" => stage = "done" \/ seqStage = "done"
<1>1. UNCHANGED <<file, codecs>> => UNCHANGED P!vars
  BY DEF file, codecs, seqVars, P!vars, P!input, P!header, P!coding
<1>2. CASE \E t \in Threads : ReadChunk(t)
  BY <1>1, <1>2 DEF ReadChunk
<1>3. CASE Compress
  BY <1>1, <1>3 DEF Compress
<1>4. CASE EncodeParallel \/ DecodeParallel
  BY <1>4 DEF EncodeParallel, DecodeParallel
<1>5. CASE EncodeSequentially
  BY <1>5, SameCodec DEF EncodeSequentially
<1>6. CASE Decompress
  BY <1>6, SameCodec DEF Decompress
<1>7. CASE DecodeSequentially
  BY <1>7, SameCodec DEF DecodeSequentially
<1>8. CASE Finish
  BY <1>1, <1>8 DEF Finish
<1>9. CASE Abort
  BY <1>9, SameCodec DEF Abort
<1>10. CASE Terminated \/ UNCHANGED vars
  BY <1>1, <1>10 DEF Terminated, vars
<1>. QED
  BY <1>2, <1>3, <1>4, <1>5, <1>6, <1>7, <1>8, <1>9, <1>10 DEF Next

(* ... after each step of the sequential version, which copies at most one   *)
(* byte, ...                                                                 *)
LEMMA SequentialStep ==
  ASSUME Storable, IsPrefixCode(code), SequentialInv, isSeq, [Next]_vars
  PROVE  SequentialInv' /\ Copies
<1>1. P!Parameters
  BY SequentialParameters
<1>2. isSeq' = isSeq /\ UNCHANGED data
  BY Frame DEF file
<1>3. P!SeqInv /\ (stage = "done" => seqStage = "done")
  BY DEF SequentialInv
<1>4. P!IsPrefixCode(code)
  BY DEF P!IsPrefixCode, IsPrefixCode, P!IsPrefix, IsPrefix
<1>5. P!SeqInv' /\ P!Copies
  <2>1. CASE P!Encode
    BY <1>1, <1>3, <2>1, P!EncodeKeeps DEF P!Copies
  <2>2. CASE P!Rewind
    BY <1>1, <1>3, <2>2, P!RewindKeepsAll DEF P!Copies
  <2>3. CASE P!Decode
    BY <1>1, <1>3, <1>4, <2>3, P!DecodeKeeps
  <2>4. CASE P!Abort
    BY <1>1, <1>3, <2>4, P!AbortKeeps DEF P!Copies
  <2>5. CASE UNCHANGED P!vars
    BY <1>3, <2>5, P!SeqStays DEF P!Copies
  <2>. QED
    BY <2>1, <2>2, <2>3, <2>4, <2>5, SequentialFrame
<1>6. Copies
  BY <1>2, <1>5 DEF P!Copies, Copies, Copier!Copy
<1>7. stage' = "done" => seqStage' = "done"
  <2>1. UNCHANGED P!vars => seqStage' = seqStage
    BY DEF P!vars
  <2>. QED
    BY <1>3, <2>1, SequentialFrame
<1>. QED
  BY <1>2, <1>5, <1>6, <1>7 DEF SequentialInv

(* ... and after each step of the parallel one.                              *)
LEMMA OtherStep ==
  ASSUME SequentialInv, isSeq \in BOOLEAN, ~ isSeq, [Next]_vars
  PROVE  SequentialInv'
<1>1. isSeq' = isSeq
  BY Frame
<1>2. UNCHANGED <<seqStage, seqPc>>
  BY DEF Next, ReadChunk, Compress, EncodeParallel, EncodeSequentially, Decompress, DecodeParallel,
         DecodeSequentially, Finish, Abort, Terminated, vars, codecs, seqVars
<1>. QED
  BY <1>1, <1>2 DEF SequentialInv

(* The invariant of the sequential version.  Nothing is assumed of the sizes *)
(* of the files, since there is only one cut.                                *)
LEMMA SequentialAlways ==
  ASSUME Storable, \A c \in Codes : IsPrefixCode(c)
  PROVE  Spec => [](Inv /\ SequentialInv)
<1>1. Inv => IsPrefixCode(code) /\ isSeq \in BOOLEAN
  BY DEF Inv, EncInv, Enc!TypeOK, DriverTypes
<1>2. Inv /\ SequentialInv /\ [Next]_vars => SequentialInv'
  BY <1>1, SequentialStep, OtherStep
<1>3. Init => SequentialInv
  BY SequentialInit
<1>. QED
  BY <1>2, <1>3, InvAlways, PTL DEF Spec

(* What the sequential codec leaves in the buffer, and when it ends.         *)
LEMMA SequentialClaims ==
  ASSUME Storable, SequentialInv
  PROVE  /\ Seql!BufferUsedUp /\ Seql!TableRestored /\ Seql!OutputIsReference
         /\ isSeq /\ stage = "done" => out = data
         /\ seqStage = "aborted" => isSeq /\ ~ NoEmptyCode
<1>1. CASE isSeq
  <2>1. P!Parameters /\ P!SeqInv /\ (stage = "done" => seqStage = "done")
    BY <1>1, SequentialParameters DEF SequentialInv
  <2>2. /\ P!BufferUsedUp /\ P!OutputIsReference /\ P!TableRestored
        /\ seqStage = "done" => out = data
        /\ seqStage = "aborted" => ~ P!NoEmptyCode
    BY <2>1, P!SeqResults
  <2>. QED
    BY <1>1, <2>1, <2>2, SameClaims DEF P!NoEmptyCode, NoEmptyCode
<1>2. CASE ~ isSeq
  <2>1. seqStage = "measure" /\ seqPc = "writeCount"
    BY <1>2 DEF SequentialInv
  <2>. QED
    BY <1>2, <2>1 DEF Seql!BufferUsedUp, Seql!OutputIsReference, Seql!TableRestored,
                      Seql!Table!TableRestored
<1>. QED
  BY <1>1, <1>2

(* huffman_encode_seq: the buffer that get_out_size has measured is used up, *)
(* as the assertion at the end demands.                                      *)
THEOREM MeasuredExactly ==
  ASSUME Storable, \A c \in Codes : IsPrefixCode(c)
  PROVE  Spec => []BufferUsedUp
<1>1. SequentialInv => BufferUsedUp
  BY SequentialClaims DEF BufferUsedUp
<1>. QED
  BY <1>1, SequentialAlways, PTL

(* do_encode, with one thread: behind the header lie the codes of the file,  *)
(* bit by bit.                                                               *)
THEOREM ReferenceIsWritten ==
  ASSUME Storable, \A c \in Codes : IsPrefixCode(c)
  PROVE  Spec => []OutputIsReference
<1>1. SequentialInv => OutputIsReference
  BY SequentialClaims DEF OutputIsReference
<1>. QED
  BY <1>1, SequentialAlways, PTL

(* read_code_table_memory rebuilds, from the bytes of the header, the tree   *)
(* of the codes that write_code_table_memory has stored.                     *)
THEOREM TreeIsRebuilt ==
  ASSUME Storable, \A c \in Codes : IsPrefixCode(c)
  PROVE  Spec => []TableRestored
<1>1. SequentialInv => TableRestored
  BY SequentialClaims DEF TableRestored
<1>. QED
  BY <1>1, SequentialAlways, PTL

-------------------------------------------------------------------------------
(* Both versions. *)

(* The invariant of the whole program.                                       *)
LEMMA AllAlways ==
  ASSUME Decodable, Storable
  PROVE  Spec => [](Inv /\ PackingInv /\ DecInv /\ SequentialInv)
<1>1. \A c \in Codes : IsPrefixCode(c)
  BY DEF Decodable
<1>2. Spec => [](Inv /\ SequentialInv)
  BY <1>1, SequentialAlways
<1>. QED
  BY <1>2, DecAlways, PTL

(* No access of data_buf fails and no thread leaves the tree, unless the     *)
(* file consists of one byte value only.                                     *)
THEOREM FailsNever ==
  ASSUME Decodable, Storable
  PROVE  Spec => []NoFailure
<1>1. Inv /\ DecInv /\ SequentialInv => NoFailure
  <2>. SUFFICES ASSUME Inv, DecInv, SequentialInv, Dec!TwoSymbols
                PROVE  seqStage # "aborted" /\ decMain # "crashed"
    BY DEF NoFailure
  <2>1. code \in Codes /\ IsPrefixCode(code) /\ isSeq \in BOOLEAN
    BY DEF Inv, EncInv, Enc!TypeOK, DriverTypes, Decodable
  <2>2. NoEmptyCode
    BY <2>1, TwoCodes DEF NoEmptyCode
  <2>3. seqStage # "aborted"
    BY <2>2, SequentialClaims
  <2>4. decMain # "crashed"
    BY <2>1, <2>2 DEF DecInv, LoadInv, DecodingInv
  <2>. QED
    BY <2>3, <2>4
<1>. QED
  BY <1>1, AllAlways, PTL

(* run_huffman, whichever version it runs: at the end the output is the file *)
(* ("Compression result is correct!!").                                      *)
THEOREM ResultCorrect ==
  ASSUME Decodable, Storable
  PROVE  Spec => []ResultIsCorrect
<1>1. Inv /\ SequentialInv /\ isSeq => ResultIsCorrect
  BY SequentialClaims DEF ResultIsCorrect
<1>2. isSeq /\ [Next]_vars => isSeq'
  BY Frame
<1>3. Spec /\ isSeq => []ResultIsCorrect
  BY <1>1, <1>2, AllAlways, PTL DEF Spec
<1>. QED
  BY <1>3, ParallelResult, PTL

(* ... and on the way to it every position is written once, with the byte    *)
(* that the file has there: the program implements Lossless.                 *)
THEOREM Implementation ==
  ASSUME Decodable, Storable
  PROVE  Spec => CopiesFile
<1>1. Init => Copier!Init
  BY DEF Init, Dec!WalkInit, Copier!Init
<1>2. Inv /\ SequentialInv /\ isSeq /\ [Next]_vars
        => isSeq' /\ [Copier!Next]_<<data, out>>
  <2>. SUFFICES ASSUME Inv, SequentialInv, isSeq, [Next]_vars
                PROVE  isSeq' /\ [Copier!Next]_<<data, out>>
    OBVIOUS
  <2>1. IsPrefixCode(code)
    BY DEF Inv, EncInv, Enc!TypeOK, Decodable
  <2>2. Copies
    BY <2>1, SequentialStep
  <2>3. UNCHANGED data /\ isSeq' = isSeq
    BY Frame DEF file
  <2>. QED
    BY <2>2, <2>3 DEF Copies, Copier!Next
<1>3. Spec /\ isSeq => CopiesFile
  BY <1>1, <1>2, AllAlways, PTL DEF Spec, CopiesFile, Copier!Spec
<1>. QED
  BY <1>3, ParallelCopies, PTL
===============================================================================
