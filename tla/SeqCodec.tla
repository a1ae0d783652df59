------------------------------ MODULE SeqCodec ------------------------------
(***************************************************************************)
(* huffman_encode_seq and huffman_decode_seq: the codec with one thread.   *)
(* get_out_size measures the compressed file, write_code_table_memory      *)
(* writes the header (CodeTable), do_encode appends the codes bit by bit;  *)
(* the decoder reads the header, then walks down the tree bit by bit.      *)
(*                                                                         *)
(* All accesses to the buffers go through write_data and read_data, whose  *)
(* assertions end the program: that is the action Abort.                   *)
(***************************************************************************)
EXTENDS Bitstream

CONSTANTS MaxSymbols, ByteBits, CountBytes, SizeBytes, Codes, Sizes

VARIABLES data,         \* the input buffer
          code,         \* the codes
          symbolCount,  \* the size of the input buffer
          buf, bufSize, cursor,            \* the compressed data_buf
          pc, i, left, numBytes, tree,     \* see CodeTable
          stage,        \* where the codec is
          k,            \* the position in the input
          res, cnt,     \* get_out_size: bytes and the bits beyond them
          b,            \* do_encode: i, the position in the symbol's code
          byte, bit,    \* the current byte; curbit or the bit under mask
          p,            \* the decoder's node, as the path from the root
          out           \* the output buffer, written so far

Table == INSTANCE CodeTable

input == <<data, code, symbolCount>>
header == <<pc, i, left, numBytes, tree>>
coding == <<b, byte, bit, p>>
vars == <<input, buf, bufSize, cursor, header, stage, k, res, cnt, coding, out>>

Init == /\ Table!HeaderInit
        /\ bufSize = 0
        /\ data \in [0 .. symbolCount - 1 -> DOMAIN code]
        /\ \A s \in DOMAIN code : \E x \in DOMAIN data : data[x] = s
        /\ stage = "measure"
        /\ k = 0
        /\ res = Table!HeaderSize(code)
        /\ cnt = 0
        /\ b = 0
        /\ byte = {}
        /\ bit = 0
        /\ p = << >>
        /\ out = << >>

HasSymbol == k < symbolCount
CodeHere == code[data[k]]

-------------------------------------------------------------------------------
(* get_out_size *)

(* One iteration: whole bytes go to the size, the bits beyond stay in cnt. *)
MeasureByte ==
  /\ stage = "measure"
  /\ HasSymbol
  /\ res' = res + (cnt + Len(CodeHere)) \div ByteBits
  /\ cnt' = (cnt + Len(CodeHere)) % ByteBits
  /\ k' = k + 1
  /\ UNCHANGED <<input, buf, bufSize, cursor, header, stage, coding, out>>

(* Mutant of OutSize: a byte is counted for the rest even when there is none. *)
OutSize_AlwaysOneMore == res + 1

(* Mutant of OutSize: the bits beyond the last whole byte are forgotten. *)
OutSize_WholeBytes == res

OutSize == IF cnt > 0 THEN res + 1 ELSE res

Allocate ==
  /\ stage = "measure"
  /\ ~ HasSymbol
  /\ bufSize' = OutSize
  /\ k' = 0
  /\ stage' = "header"
  /\ UNCHANGED <<input, buf, cursor, header, res, cnt, coding, out>>

WriteHeader ==
  /\ stage = "header"
  /\ Table!WriteStep
  /\ stage' = IF pc' = "written" THEN "encode" ELSE stage
  /\ UNCHANGED <<data, k, res, cnt, coding, out>>

-------------------------------------------------------------------------------
(* do_encode *)

HasBit == HasSymbol /\ b < Len(CodeHere)
NextByte == IF CodeHere[b + 1] = 1 THEN byte \cup {bit} ELSE byte

AddBit ==
  /\ stage = "encode"
  /\ HasBit
  /\ bit + 1 < ByteBits
  /\ byte' = NextByte
  /\ bit' = bit + 1
  /\ b' = b + 1
  /\ UNCHANGED <<input, buf, bufSize, cursor, header, stage, k, res, cnt, p, out>>

(* Mutant of ByteAfterWrite: curbyte is not reset. *)
ByteAfterWrite_Kept == NextByte

(* curbyte once it is written. *)
ByteAfterWrite == {}

FillByte ==
  /\ stage = "encode"
  /\ HasBit
  /\ bit + 1 = ByteBits
  /\ Table!WriteData(<<NextByte>>)
  /\ byte' = ByteAfterWrite
  /\ bit' = 0
  /\ b' = b + 1
  /\ UNCHANGED <<input, bufSize, header, stage, k, res, cnt, p, out>>

NextSymbol ==
  /\ stage = "encode"
  /\ HasSymbol
  /\ ~ HasBit
  /\ k' = k + 1
  /\ b' = 0
  /\ UNCHANGED <<input, buf, bufSize, cursor, header, stage, res, cnt, byte, bit,
                 p, out>>

(* The file is done; a byte that is not full is written as it is. *)
Flush ==
  /\ stage = "encode"
  /\ ~ HasSymbol
  /\ IF bit > 0 THEN Table!WriteData(<<byte>>) ELSE UNCHANGED <<buf, cursor>>
  /\ stage' = "encoded"
  /\ UNCHANGED <<input, bufSize, header, k, res, cnt, coding, out>>

-------------------------------------------------------------------------------
(* run_huffman rewinds the buffer; huffman_decode_seq *)

Rewind ==
  /\ stage = "encoded"
  /\ Table!Rewind
  /\ stage' = "reread"
  /\ UNCHANGED <<data, k, res, cnt, coding, out>>

ReadHeader ==
  /\ stage = "reread"
  /\ Table!ReadStep
  /\ stage' = IF pc' = "read" THEN "fetch" ELSE stage
  /\ UNCHANGED <<data, k, res, cnt, coding, out>>

(* The bytes that are still missing in the output: data_count. *)
Missing == numBytes - Cardinality(DOMAIN out)

FetchByte ==
  /\ stage = "fetch"
  /\ Missing > 0
  /\ Table!Fits(1)
  /\ byte' = buf[cursor]
  /\ cursor' = cursor + 1
  /\ bit' = 0
  /\ stage' = "walk"
  /\ UNCHANGED <<input, buf, bufSize, header, k, res, cnt, b, p, out>>

(* The inner loop goes on: symbols are missing and mask is not 0. *)
Walking == stage = "walk" /\ Missing > 0 /\ bit < ByteBits

Child == Append(p, IF bit \in byte THEN 1 ELSE 0)

Descend ==
  /\ Walking
  /\ Child \in DOMAIN tree
  /\ tree[Child] = Table!NonLeaf
  /\ p' = Child
  /\ bit' = bit + 1
  /\ UNCHANGED <<input, buf, bufSize, cursor, header, stage, k, res, cnt, b, byte,
                 out>>

EmitSymbol ==
  /\ Walking
  /\ Child \in DOMAIN tree
  /\ tree[Child] # Table!NonLeaf
  /\ out' = [x \in 0 .. Cardinality(DOMAIN out) |->
               IF x \in DOMAIN out THEN out[x] ELSE tree[Child]]
  /\ p' = << >>
  /\ bit' = bit + 1
  /\ UNCHANGED <<input, buf, bufSize, cursor, header, stage, k, res, cnt, b, byte>>

EndOfByte ==
  /\ stage = "walk"
  /\ ~ Walking
  /\ stage' = "fetch"
  /\ UNCHANGED <<input, buf, bufSize, cursor, header, k, res, cnt, coding, out>>

EndOfDecoding ==
  /\ stage = "fetch"
  /\ Missing = 0
  /\ stage' = "done"
  /\ UNCHANGED <<input, buf, bufSize, cursor, header, k, res, cnt, coding, out>>

-------------------------------------------------------------------------------
(* The bytes that the next write_data or read_data asks for. *)
AccessWidth ==
  CASE stage \in {"header", "reread"} -> Table!AccessWidth
    [] stage = "encode" /\ HasBit /\ bit + 1 = ByteBits -> 1
    [] stage = "encode" /\ ~ HasSymbol /\ bit > 0 -> 1
    [] stage = "fetch" /\ Missing > 0 -> 1
    [] OTHER -> 0

(* An assertion of data_buf fails. *)
Abort ==
  /\ ~ Table!Fits(AccessWidth)
  /\ stage' = "aborted"
  /\ UNCHANGED <<input, buf, bufSize, cursor, header, k, res, cnt, coding, out>>

Terminated == stage \in {"done", "aborted"} /\ UNCHANGED vars

Encode == MeasureByte \/ Allocate \/ WriteHeader \/ AddBit \/ FillByte
            \/ NextSymbol \/ Flush

Decode == ReadHeader \/ FetchByte \/ Descend \/ EmitSymbol \/ EndOfByte
            \/ EndOfDecoding

Next == Encode \/ Rewind \/ Decode \/ Abort \/ Terminated

Spec == Init /\ [][Next]_vars /\ WF_vars(Next)

-------------------------------------------------------------------------------
(* assert(out_data_buf.curr_offset == out_data_buf.size) at the end of      *)
(* huffman_encode_seq: "By now, data_buf should all be used".               *)
BufferUsedUp == stage = "encoded" => cursor = bufSize

(* The decoder's tree is the tree of the codes: the entries of the header,  *)
(* of 0 bits or with a last byte that is not full, are read back one after  *)
(* the other as they were written.                                          *)
TableRestored == Table!TableRestored

(* Behind the header lies the reference encoding of the whole file. *)
OutputIsReference ==
  stage = "encoded" =>
    LET packed == PackBits(CodeBits(data, 0, symbolCount, code), ByteBits)
    IN \A q \in DOMAIN packed : buf[Table!HeaderSize(code) + q] = packed[q]
===============================================================================
