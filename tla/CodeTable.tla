------------------------------ MODULE CodeTable ------------------------------
(***************************************************************************)
(* The header of the compressed buffer, which both codecs share:           *)
(* write_code_table_memory stores the number of codes, the number of bytes *)
(* of the file, and an entry per code (the symbol, the length in bits, the *)
(* bits); read_code_table_memory rebuilds the Huffman tree from them.      *)
(*                                                                         *)
(* The buffer is a data_buf: every access goes through write_data or       *)
(* read_data, which assert that curr_offset stays inside and advance it.   *)
(* It was allocated with the size that get_out_size has added up, by a     *)
(* loop of its own over the codes.                                         *)
(*                                                                         *)
(* A byte is the set of its bits that are 1; a number is stored as the     *)
(* bytes of its binary representation, the lowest first (memcpy on the     *)
(* x86-64 processors the Makefile compiles for).                           *)
(***************************************************************************)
EXTENDS Bitstream

CONSTANTS MaxSymbols,  \* MAX_SYMBOLS
          ByteBits,    \* the bits of a byte: 8
          CountBytes,  \* sizeof(uint32_t), the width of the number of codes
          SizeBytes,   \* sizeof(uint64_t), the width of the number of bytes
          Codes,       \* the code tables to consider
          Sizes        \* the sizes of files to consider

Symbols == 0 .. MaxSymbols - 1

VARIABLES code,         \* se: the codes, its domain the entries that are set
          symbolCount,  \* symbol_count: the number of bytes of the file
          buf,          \* data_buf.data, defined where it was written
          bufSize,      \* data_buf.size
          cursor,       \* data_buf.curr_offset
          pc,           \* what is written or read next
          i,            \* the writer's loop variable
          left,         \* the reader's count
          numBytes,     \* the reader's num_bytes
          tree          \* the reader's tree: from paths to what is there

given == <<code, symbolCount, bufSize>>
vars == <<given, buf, cursor, pc, i, left, numBytes, tree>>

-------------------------------------------------------------------------------
(* Numbers and codes as bytes *)

NumBytesOf(bits) == UPDIV(bits, ByteBits)

(* The lowest width bytes of a number; what is higher is cut off. *)
NumberBytes(v, width) ==
  [q \in 1 .. width |->
     {x \in 0 .. ByteBits - 1 : (v \div 2 ^ ((q - 1) * ByteBits + x)) % 2 = 1}]

NumberIn(bs) ==
  SumFunctionOnSet([q \in DOMAIN bs |->
                      SumFunctionOnSet([x \in bs[q] |-> 2 ^ ((q - 1) * ByteBits + x)],
                                       bs[q])],
                   DOMAIN bs)

CodeBytes(bits) ==
  [q \in 1 .. NumBytesOf(Len(bits)) |-> PackBits(bits, ByteBits)[q - 1]]

(* Mutant of BitsIn: the bits of a byte are taken from the other end. *)
BitsIn_HighFirst(bs, n) ==
  [x \in 1 .. n |->
     IF ByteBits - 1 - ((x - 1) % ByteBits) \in bs[(x - 1) \div ByteBits + 1]
     THEN 1 ELSE 0]

(* get_bit for the first n bits of the bytes. *)
BitsIn(bs, n) ==
  [x \in 1 .. n |->
     IF (x - 1) % ByteBits \in bs[(x - 1) \div ByteBits + 1] THEN 1 ELSE 0]

(* What get_out_size reserves for the header. *)
HeaderSize(c) ==
  CountBytes + SizeBytes
    + SumFunctionOnSet([s \in DOMAIN c |-> 2 + NumBytesOf(Len(c[s]))], DOMAIN c)

-------------------------------------------------------------------------------
(* data_buf.  The assertion is the guard of every access: a state whose    *)
(* next access does not fit has no step here, and SeqCodec aborts.         *)

Fits(width) == cursor + width <= bufSize

WriteData(bs) ==
  /\ Fits(Len(bs))
  /\ buf' = [a \in DOMAIN buf \cup cursor .. cursor + Len(bs) - 1 |->
               IF a >= cursor /\ a < cursor + Len(bs)
               THEN bs[a - cursor + 1] ELSE buf[a]]
  /\ cursor' = cursor + Len(bs)

DataAt(from, width) == [q \in 1 .. width |-> buf[from + q - 1]]

-------------------------------------------------------------------------------
HeaderInit ==
  /\ code \in Codes
  /\ symbolCount \in {n \in Sizes : n >= Cardinality(DOMAIN code)}
  /\ buf = << >>
  /\ cursor = 0
  /\ pc = "writeCount"
  /\ i = 0
  /\ left = 0
  /\ numBytes = 0
  /\ tree = << >>

WriteCount ==
  /\ pc = "writeCount"
  /\ WriteData(NumberBytes(Cardinality(DOMAIN code), CountBytes))
  /\ pc' = "writeSize"
  /\ UNCHANGED <<given, i, left, numBytes, tree>>

WriteSize ==
  /\ pc = "writeSize"
  /\ WriteData(NumberBytes(symbolCount, SizeBytes))
  /\ pc' = "writeEntries"
  /\ UNCHANGED <<given, i, left, numBytes, tree>>

Entry(s) == NumberBytes(s, 1) \o NumberBytes(Len(code[s]), 1) \o CodeBytes(code[s])

(* One iteration of the loop over the symbols, those without a code too. *)
WriteEntry ==
  /\ pc = "writeEntries"
  /\ i < MaxSymbols
  /\ IF i \in DOMAIN code THEN WriteData(Entry(i)) ELSE UNCHANGED <<buf, cursor>>
  /\ i' = i + 1
  /\ UNCHANGED <<given, pc, left, numBytes, tree>>

EndOfWriting ==
  /\ pc = "writeEntries"
  /\ i = MaxSymbols
  /\ pc' = "written"
  /\ UNCHANGED <<given, buf, cursor, i, left, numBytes, tree>>

(* The buffer is rewound and handed to the decoder. *)
Rewind ==
  /\ pc = "written"
  /\ cursor' = 0
  /\ pc' = "readCount"
  /\ UNCHANGED <<given, buf, i, left, numBytes, tree>>

(* What stands for a node that is no leaf; the root never is one. *)
NonLeaf == -1

ReadCount ==
  /\ pc = "readCount"
  /\ Fits(CountBytes)
  /\ left' = NumberIn(DataAt(cursor, CountBytes))
  /\ cursor' = cursor + CountBytes
  /\ pc' = "readSize"
  /\ UNCHANGED <<given, buf, i, numBytes, tree>>

ReadSize ==
  /\ pc = "readSize"
  /\ Fits(SizeBytes)
  /\ numBytes' = NumberIn(DataAt(cursor, SizeBytes))
  /\ cursor' = cursor + SizeBytes
  /\ tree' = [q \in {<< >>} |-> NonLeaf]
  /\ pc' = "readEntries"
  /\ UNCHANGED <<given, buf, i, left>>

(* The missing nodes on the path are made, the last of them a leaf; nodes  *)
(* that are there already stay what they are.                              *)
WithPath(path, leaf) ==
  [q \in DOMAIN tree \cup Prefixes(path) |->
     IF q \in DOMAIN tree THEN tree[q]
     ELSE IF q = path THEN leaf ELSE NonLeaf]

(* numbits of the entry under the cursor. *)
CodeLength == NumberIn(DataAt(cursor + 1, 1))

ReadEntry ==
  /\ pc = "readEntries"
  /\ left > 0
  /\ Fits(2) /\ Fits(2 + NumBytesOf(CodeLength))
  /\ LET bits == BitsIn(DataAt(cursor + 2, NumBytesOf(CodeLength)), CodeLength)
     IN tree' = WithPath(bits, NumberIn(DataAt(cursor, 1)))
  /\ cursor' = cursor + 2 + NumBytesOf(CodeLength)
  /\ left' = left - 1
  /\ UNCHANGED <<given, buf, pc, i, numBytes>>

EndOfReading ==
  /\ pc = "readEntries"
  /\ left = 0
  /\ pc' = "read"
  /\ UNCHANGED <<given, buf, cursor, i, left, numBytes, tree>>

WriteStep == WriteCount \/ WriteSize \/ WriteEntry \/ EndOfWriting
ReadStep == ReadCount \/ ReadSize \/ ReadEntry \/ EndOfReading

-------------------------------------------------------------------------------
(* The width of the next access to the buffer. *)
AccessWidth ==
  CASE pc \in {"writeCount", "readCount"} -> CountBytes
    [] pc \in {"writeSize", "readSize"} -> SizeBytes
    [] pc = "writeEntries" /\ i \in DOMAIN code -> Len(Entry(i))
    [] pc = "readEntries" /\ left > 0 ->
         IF Fits(2) THEN 2 + NumBytesOf(CodeLength) ELSE 2
    [] OTHER -> 0

(* The tree that is read has, at the end of each code, a leaf with its     *)
(* symbol, and nothing but the nodes on the way to them; it is what        *)
(* ChunkedDecode takes as given.                                           *)
TableRestored ==
  pc = "read" =>
    /\ numBytes = symbolCount
    /\ DOMAIN tree = {<< >>} \cup UNION {Prefixes(code[s]) : s \in DOMAIN code}
    /\ \A s \in DOMAIN code : code[s] # << >> => tree[code[s]] = s
    /\ \A q \in DOMAIN tree : tree[q] # NonLeaf => code[tree[q]] = q
===============================================================================
