------------------------------ MODULE BitFileUse ------------------------------
(***************************************************************************)
(* A program that uses a bit file: it puts bits in portions of any size,   *)
(* closes the file, and gets them back in portions of any other size.      *)
(* The bit file is a queue of bits (BitQueue), although bits wait in       *)
(* bitBuffer, bytes are written across byte boundaries, and the bits of    *)
(* bitBuffer above the lower bitCount ones are left over from other calls. *)
(***************************************************************************)
EXTENDS BitFile

CONSTANTS MaxBits,  \* bound on the bits that are put
          Counts    \* the portions

ASSUME UseAssumption == MaxBits \in Nat /\ Counts \subseteq Nat

VARIABLES stream,    \* the bit_file_t but for its mode
          openMode,  \* BF_WRITE or BF_READ
          io         \* history: what the last call was asked for, and did

useVars == <<stream, openMode, io>>

IoCall(n, bits) == [asked |-> n, bits |-> bits]
NoBits == IoCall(0, << >>)

UseInit == /\ stream = MakeBitFile(<< >>, MaxBits)
           /\ openMode = "BF_WRITE"
           /\ io = NoBits

(* The lowest n bits of a number, from the top. *)
LowBits(v, n) == [x \in 1 .. n |-> BitOf(v, n - x)]

(* Bit n of an array of bytes, from 0: those of a byte from the top. *)
FileBit(bytes, n) ==
  BitOf(bytes[(n \div ByteBits) + 1], ByteBits - 1 - (n % ByteBits))

(* Bit n of a number of count bits, from 0, in the order of PutBitsNum. *)
NumBit(v, count, n) ==
  IF n < (count \div ByteBits) * ByteBits
  THEN BitOf(ByteOf(v, n \div ByteBits), ByteBits - 1 - (n % ByteBits))
  ELSE BitOf(ByteOf(v, count \div ByteBits), count - 1 - n)

(* The bits of a number, and the first ones of an array of bytes. *)
NumBits(v, count) == [x \in 1 .. count |-> NumBit(v, count, x - 1)]
ArrayBits(bytes, count) == [x \in 1 .. count |-> FileBit(bytes, x - 1)]
FileBits(bytes) == ArrayBits(bytes, Len(bytes) * ByteBits)

BitsInside == Len(stream.file) * ByteBits + stream.bitCount

(* The bit_file_t that a call leaves, without what the call returned. *)
Returned(s) == [s EXCEPT !.ok = TRUE, !.val = 0]

(* The call, and what it was asked to put. *)
Put(after, bits) ==
  /\ openMode = "BF_WRITE"
  /\ BitsInside + Len(bits) <= MaxBits
  /\ stream' = Returned(after)
  /\ io' = IoCall(Len(bits), bits)
  /\ UNCHANGED openMode

PutSomeBit == \E c \in {0, 1} : Put(PutBit(c, stream), <<c>>)

PutSomeChar == \E c \in Byte : Put(PutChar(c, stream), LowBits(c, ByteBits))

PutSomeNum == \E n \in Counts : \E v \in 0 .. 2 ^ n - 1 :
                Put(PutBitsNum(v, n, stream), NumBits(v, n))

PutSomeBits == \E n \in Counts : \E bytes \in [1 .. n \div ByteBits + 1 -> Byte] :
                 Put(PutBits(bytes, n, stream), ArrayBits(bytes, n))

Align(fill) ==
  /\ openMode = "BF_WRITE"
  /\ stream' = FlushOutput(fill, stream)
  /\ io' = NoBits
  /\ UNCHANGED openMode

(* BitFileToFILE, after which the file is opened again. *)
Close ==
  /\ openMode = "BF_WRITE"
  /\ stream' = MakeBitFile(FlushOutput(0, stream).file, MaxBits)
  /\ openMode' = "BF_READ"
  /\ io' = NoBits

(* A call that asks for n bits, and what it returned. *)
Get(n, after, bits) ==
  /\ openMode = "BF_READ"
  /\ stream' = Returned(after)
  /\ io' = IoCall(n, IF after.ok THEN bits ELSE << >>)
  /\ UNCHANGED openMode

GetNextBit == LET s == GetBit(stream) IN Get(1, s, <<s.val>>)

GetNextChar == LET s == GetChar(stream) IN Get(ByteBits, s, LowBits(s.val, ByteBits))

GetNextNum ==
  \E n \in Counts : LET s == GetBitsNum(n, stream) IN Get(n, s, NumBits(s.val, n))

GetNextBits ==
  \E n \in Counts : LET s == GetBits(n, stream) IN Get(n, s, ArrayBits(s.val, n))

(* BitFileByteAlign of an input file. *)
DropBuffer ==
  /\ openMode = "BF_READ"
  /\ stream' = Emptied(stream)
  /\ io' = NoBits
  /\ UNCHANGED openMode

UseNext == \/ PutSomeBit
           \/ PutSomeChar
           \/ PutSomeNum
           \/ PutSomeBits
           \/ \E fill \in {0, 1} : Align(fill)
           \/ Close
           \/ GetNextBit
           \/ GetNextChar
           \/ GetNextNum
           \/ GetNextBits
           \/ DropBuffer

UseSpec == UseInit /\ [][UseNext]_useVars

-------------------------------------------------------------------------------
(* The bits that wait in bitBuffer: they come after those of the file when *)
(* it is written, and before those that are left in it when it is read.    *)
Waiting == LowBits(stream.bitBuffer, stream.bitCount)

(* The bits that were put and not yet taken, and the number of those taken. *)
Contents ==
  IF openMode = "BF_WRITE" THEN FileBits(stream.file) \o Waiting
  ELSE Waiting \o FileBits(SubSeq(stream.file, stream.pos + 1, Len(stream.file)))
Taken == IF openMode = "BF_WRITE" THEN 0 ELSE stream.pos * ByteBits - stream.bitCount

Queue == INSTANCE BitQueue WITH queue <- Contents, skipped <- Taken,
                                reading <- openMode = "BF_READ"

(* Whatever calls are made in whatever order, the bits that are taken out of *)
(* the file are those that were put into it, in the same order: none is lost *)
(* or doubled where a portion crosses the boundary of a byte, and none comes *)
(* from what is left over in bitBuffer.                                      *)
StreamIsQueue == Queue!Spec
===============================================================================
