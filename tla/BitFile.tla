------------------------------- MODULE BitFile -------------------------------
(***************************************************************************)
(* bitfile.cpp: the functions that put bits into a file and get them from  *)
(* it, as operators from a bit_file_t to what it is after the call.        *)
(*                                                                         *)
(* A stream is a record: the bytes of the file, the number of them that it *)
(* has room for (beyond it fputc fails), the position of fgetc, bitBuffer, *)
(* bitCount, and the result of the last call: ok is FALSE for EOF, val is  *)
(* what was read.                                                          *)
(***************************************************************************)
EXTENDS Integers, SequencesExt

CONSTANT ByteBits  \* the bits of a byte, 8 in the code

ASSUME ByteBitsAssumption == ByteBits \in Nat \ {0}

Byte == 0 .. 2 ^ ByteBits - 1

(* The conversion to unsigned char. *)
UChar(v) == v % 2 ^ ByteBits

(* Byte k of an unsigned int, the lowest is byte 0. *)
ByteOf(v, k) == UChar(v \div 2 ^ (k * ByteBits))

(* Bit k of a byte, the lowest is bit 0. *)
BitOf(v, k) == (v \div 2 ^ k) % 2

-------------------------------------------------------------------------------
MakeBitFile(bytes, size) ==
  [file |-> bytes, room |-> size, pos |-> 0, bitBuffer |-> 0, bitCount |-> 0,
   ok |-> TRUE, val |-> 0]

FPutC(c, s) ==
  IF Len(s.file) < s.room
  THEN [s EXCEPT !.file = Append(@, UChar(c)), !.ok = TRUE]
  ELSE [s EXCEPT !.ok = FALSE]

FGetC(s) ==
  IF s.pos < Len(s.file)
  THEN [s EXCEPT !.pos = @ + 1, !.val = s.file[s.pos + 1], !.ok = TRUE]
  ELSE [s EXCEPT !.val = 0, !.ok = FALSE]

(* The buffered bits come out on top, the other ones are zeros or ones. *)
LeftAligned(s, fill) ==
  UChar(s.bitBuffer * 2 ^ (ByteBits - s.bitCount))
    + (IF fill = 1 THEN 2 ^ (ByteBits - s.bitCount) - 1 ELSE 0)

Emptied(s) == [s EXCEPT !.bitBuffer = 0, !.bitCount = 0]

(* Mutant of FlushOutput: the bits that wait are not written. *)
FlushOutput_Dropped(fill, s) == Emptied(s)

(* BitFileFlushOutput.  BitFileToFILE and BitFileByteAlign, which fill with *)
(* zeros, do the same to an output file and do not look at what fputc       *)
(* returns.                                                                 *)
FlushOutput(fill, s) ==
  Emptied(IF s.bitCount # 0 THEN FPutC(LeftAligned(s, fill), s) ELSE s)

PutBit(c, s) ==
  LET t == [s EXCEPT !.bitCount = @ + 1,
                     !.bitBuffer = UChar(2 * @) + (IF c # 0 THEN 1 ELSE 0),
                     !.ok = TRUE]
  IN IF t.bitCount = ByteBits THEN Emptied(FPutC(t.bitBuffer, t)) ELSE t

(* Mutant of Rest: the bits that are not written yet are not kept. *)
Rest_Old(c, s) == s.bitBuffer

(* bitBuffer after a byte was written across a byte boundary: c as it is, *)
(* the bits above the lower bitCount ones have no meaning.                *)
Rest(c, s) == UChar(c)

PutChar(c, s) ==
  IF s.bitCount = 0 THEN FPutC(c, s)
  ELSE LET t == FPutC(UChar(c) \div 2 ^ s.bitCount
                        + s.bitBuffer * 2 ^ (ByteBits - s.bitCount), s)
       IN IF t.ok THEN [t EXCEPT !.bitBuffer = Rest(c, s)] ELSE t

(* Whole bytes and then single bits, up to the first EOF. *)
PutAll(bytes, bits, s) ==
  LET char(t, c) == IF t.ok THEN PutChar(c, t) ELSE t
      bit(t, c) == IF t.ok THEN PutBit(c, t) ELSE t
  IN FoldLeft(bit, FoldLeft(char, [s EXCEPT !.ok = TRUE], bytes), bits)

(* BitFilePutBits: count bits of an array, the bits of a byte from the top. *)
PutBits(bytes, count, s) ==
  LET whole == count \div ByteBits
  IN PutAll(SubSeq(bytes, 1, whole),
            [x \in 1 .. count % ByteBits |-> BitOf(bytes[whole + 1], ByteBits - x)], s)

(* BitFilePutBitsNum: the lowest count bits of a number, the lowest byte    *)
(* first; of the last byte the bits that count, from the top.  BitFilePut-  *)
(* BitsLE and BitFilePutBitsBE differ in where the bytes lie in the memory. *)
PutBitsNum(v, count, s) ==
  LET whole == count \div ByteBits
      rest == count % ByteBits
  IN PutAll([x \in 1 .. whole |-> ByteOf(v, x - 1)],
            [x \in 1 .. rest |-> BitOf(ByteOf(v, whole), rest - x)], s)

-------------------------------------------------------------------------------
GetBit(s) ==
  LET t == IF s.bitCount = 0 THEN FGetC(s) ELSE [s EXCEPT !.ok = TRUE]
      full == IF s.bitCount = 0
              THEN [t EXCEPT !.bitCount = ByteBits, !.bitBuffer = t.val] ELSE t
  IN IF t.ok THEN [full EXCEPT !.bitCount = @ - 1,
                               !.val = BitOf(full.bitBuffer, full.bitCount - 1)]
     ELSE t

(* Mutant of Joined: the buffered bits are put behind the new ones. *)
Joined_Reversed(s, c) ==
  UChar(c * 2 ^ s.bitCount) + (s.bitBuffer % 2 ^ s.bitCount)

(* The buffered bits and, below them, the upper bits of the next byte. *)
Joined(s, c) ==
  c \div 2 ^ s.bitCount + UChar(s.bitBuffer * 2 ^ (ByteBits - s.bitCount))

GetChar(s) ==
  LET t == FGetC(s)
  IN IF s.bitCount = 0 \/ ~ t.ok THEN t
     ELSE [t EXCEPT !.bitBuffer = t.val, !.val = Joined(s, t.val)]

(* Whole bytes and then the bits of one more, up to the first EOF.  The *)
(* bits are shifted into it from below, as a number.                    *)
GetAll(count, s) ==
  LET char(t, x) == LET u == GetChar(t.s)
                    IN IF t.s.ok THEN [t EXCEPT !.s = u, !.bytes = Append(@, u.val)] ELSE t
      bit(t, x) == LET u == GetBit(t.s)
                   IN IF t.s.ok THEN [t EXCEPT !.s = u, !.last = 2 * @ + u.val] ELSE t
      start == [s |-> [s EXCEPT !.ok = TRUE], bytes |-> << >>, last |-> 0]
      Times(n) == [x \in 1 .. n |-> x]
  IN FoldLeft(bit, FoldLeft(char, start, Times(count \div ByteBits)),
              Times(count % ByteBits))

(* BitFileGetBits: the bits of the last byte are shifted to its top. *)
GetBits(count, s) ==
  LET got == GetAll(count, s)
      rest == count % ByteBits
  IN [got.s EXCEPT !.val =
        IF rest = 0 THEN got.bytes
        ELSE Append(got.bytes, got.last * 2 ^ (ByteBits - rest))]

(* BitFileGetBitsNum into a variable that holds 0, the lowest byte first. *)
GetBitsNum(count, s) ==
  LET got == GetAll(count, s)
      number == FoldRight(LAMBDA c, n : c + 2 ^ ByteBits * n, got.bytes, got.last)
  IN [got.s EXCEPT !.val = number]
===============================================================================
