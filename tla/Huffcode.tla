------------------------------- MODULE Huffcode -------------------------------
(***************************************************************************)
(* run_huffman of huffcode.cpp, in its parallel and its sequential version *)
(* (is_seq): the file is read into memory by all threads, compressed into  *)
(* a second buffer (ChunkedEncode or SeqCodec), and the second buffer is   *)
(* decompressed into a third (ChunkedDecode or SeqCodec).  All buffers of  *)
(* the parallel version are cut for the same number of threads, the global *)
(* num_of_threads.                                                         *)
(*                                                                         *)
(* The state of the parallel encoder has the prefix enc, that of the       *)
(* parallel decoder dec and that of the sequential codec seq, where more   *)
(* than one has a variable of the same name.  The input, the code table    *)
(* and the output are what all share, the table of offsets and the         *)
(* compressed bytes what the parallel encoder leaves to the decoder.  The  *)
(* header with the code table is modelled in the sequential version: both  *)
(* write and read it with the same code.                                   *)
(***************************************************************************)
EXTENDS Partition, FiniteSets, Sequences

CONSTANTS NumThreads, ByteBits, Sizes, Codes,
          MaxSymbols, CountBytes, SizeBytes,
          SizeMax  \* the greatest size_t, 2^64 - 1

ASSUME NumThreadsAssumption == NumThreads \in Nat \ {0}
ASSUME WidthAssumption == /\ {ByteBits, CountBytes, SizeBytes} \subseteq Nat \ {0}
                          /\ MaxSymbols \in 1 .. 2 ^ ByteBits
ASSUME CodesAssumption ==
  \A c \in Codes : /\ DOMAIN c \subseteq 0 .. MaxSymbols - 1
                   /\ \A s \in DOMAIN c : c[s] \in Seq({0, 1})
ASSUME SizesAssumption == Sizes \subseteq 1 .. 2 ^ (SizeBytes * ByteBits) - 1
ASSUME SizeMaxAssumption == SizeMax \in Nat /\ \A n \in Sizes : n < SizeMax

VARIABLES size, data,      \* the file, and the input buffer once it is read
          code,            \* the code table
          out,             \* the decompressed buffer
          isSeq,           \* the sequential version is run
          loaded,          \* the part of in_data that was read
          reading,         \* the threads that have not read their part yet
          stage,           \* "read", "encode", "decode", "done"
          table, payload,  \* the compressed buffer: offsets and bytes
          encMain, encPc, k, cnt, bytes, m, sum, encOffset, b, encByte, bit,
          encPos,
          decMain, decPc, decOffset, decPos, o, decByte, mask, p,
          buf, bufSize, cursor, seqPc, i, left, numBytes, tree, seqStage, seqK,
          res, seqCnt, seqB, seqByte, seqBit, seqP

file == <<size, data, code>>
reader == <<isSeq, loaded, reading>>
encVars == <<encMain, encPc, k, cnt, bytes, m, sum, encOffset, b, encByte,
             bit, encPos>>
decVars == <<decMain, decPc, decOffset, decPos, o, decByte, mask, p>>
seqVars == <<buf, bufSize, cursor, seqPc, i, left, numBytes, tree, seqStage,
             seqK, res, seqCnt, seqB, seqByte, seqBit, seqP>>
codecs == <<table, payload, encVars, decVars, seqVars, out>>
vars == <<file, reader, stage, codecs>>

Enc == INSTANCE ChunkedEncode WITH main <- encMain, pc <- encPc,
         offset <- encOffset, byte <- encByte, pos <- encPos
Dec == INSTANCE ChunkedDecode WITH main <- decMain, pc <- decPc,
         offset <- decOffset, byte <- decByte, pos <- decPos
Seql == INSTANCE SeqCodec WITH symbolCount <- size, pc <- seqPc,
         stage <- seqStage, k <- seqK, cnt <- seqCnt, b <- seqB,
         byte <- seqByte, bit <- seqBit, p <- seqP

Threads == 0 .. NumThreads - 1

Init == /\ Enc!Init
        /\ Dec!WalkInit
        /\ Seql!Init
        /\ isSeq \in BOOLEAN
        /\ loaded = << >>
        /\ reading = Threads
        /\ stage = "read"

(* Mutant of ReadAmount: one byte too few. *)
ReadAmount_OneLess(t) ==
  (ChunkEnd(size, NumThreads, t) - ChunkStart(size, NumThreads, t) - 1)
    % (SizeMax + 1)

(* The arguments of fread: where thread t starts to read and how much it   *)
(* asks for.  The subtraction is unsigned, and wraps around for a thread   *)
(* whose part would start behind the end of the file.                      *)
ReadFrom(t) == ChunkStart(size, NumThreads, t)
ReadAmount(t) == (ChunkEnd(size, NumThreads, t) - ReadFrom(t)) % (SizeMax + 1)

(* What fread finds before the end of the file is copied to the buffer. *)
ReadChunk(t) ==
  /\ stage = "read"
  /\ t \in reading
  /\ LET found == {x \in 0 .. size - 1 : /\ ReadFrom(t) <= x
                                         /\ x < ReadFrom(t) + ReadAmount(t)}
     IN loaded' = [x \in DOMAIN loaded \cup found |->
                     IF x \in found THEN data[x] ELSE loaded[x]]
  /\ reading' = reading \ {t}
  /\ UNCHANGED <<file, isSeq, stage, codecs>>

Compress ==
  /\ stage = "read"
  /\ reading = {}
  /\ stage' = "encode"
  /\ UNCHANGED <<file, reader, codecs>>

EncodeParallel ==
  /\ stage = "encode"
  /\ ~ isSeq
  /\ (\E t \in Threads : Enc!Step(t)) \/ Enc!MainStep
  /\ UNCHANGED <<reader, stage, decVars, seqVars, out>>

EncodeSequentially ==
  /\ stage = "encode"
  /\ isSeq
  /\ Seql!Encode
  /\ UNCHANGED <<reader, stage, table, payload, encVars, decVars>>

(* The second buffer is rewound and handed to the decoder. *)
Decompress ==
  /\ stage = "encode"
  /\ stage' = "decode"
  /\ IF isSeq
     THEN Seql!Rewind /\ UNCHANGED <<reader, table, payload, encVars, decVars>>
     ELSE Enc!Done /\ UNCHANGED <<file, reader, codecs>>

DecodeParallel ==
  /\ stage = "decode"
  /\ ~ isSeq
  /\ \/ \E t \in Threads : Dec!Step(t)
     \/ Dec!ReadOffsets
     \/ Dec!EndOfDecoding
  /\ UNCHANGED <<reader, stage, encVars, seqVars>>

DecodeSequentially ==
  /\ stage = "decode"
  /\ isSeq
  /\ Seql!Decode
  /\ UNCHANGED <<reader, stage, table, payload, encVars, decVars>>

Finish ==
  /\ stage = "decode"
  /\ IF isSeq THEN seqStage = "done" ELSE Dec!Done
  /\ stage' = "done"
  /\ UNCHANGED <<file, reader, codecs>>

(* An assertion of data_buf fails in the sequential codec. *)
Abort ==
  /\ stage \in {"encode", "decode"}
  /\ isSeq
  /\ Seql!Abort
  /\ UNCHANGED <<reader, stage, table, payload, encVars, decVars>>

(* The run is over, or the program is gone: an assertion, a null pointer. *)
Terminated == /\ \/ stage = "done"
                 \/ seqStage = "aborted"
                 \/ decMain = "crashed"
              /\ UNCHANGED vars

Next == \/ \E t \in Threads : ReadChunk(t)
        \/ Compress
        \/ EncodeParallel
        \/ EncodeSequentially
        \/ Decompress
        \/ DecodeParallel
        \/ DecodeSequentially
        \/ Finish
        \/ Abort
        \/ Terminated

Spec == Init /\ [][Next]_vars /\ WF_vars(Next)

-------------------------------------------------------------------------------
(* The types of the driver's variables and of the parallel encoder's.        *)
TypeOK == /\ Enc!TypeOK
          /\ isSeq \in BOOLEAN
          /\ DOMAIN loaded \subseteq 0 .. size - 1
          /\ reading \subseteq Threads
          /\ stage \in {"read", "encode", "decode", "done"}

(* Whatever part a thread is given, also the wrapped one, the whole file is  *)
(* in the buffer before it is compressed.                                    *)
WholeFileRead == stage # "read" => loaded = data

(* README: "precompute the size of compressed chunk each thread will         *)
(* produce. Then, use prefix sum to get the output offset so that each       *)
(* thread will know where they should write to."  A thread writes only what  *)
(* was measured for it, although the two passes cut the input differently.   *)
OwnSlot == stage = "encode" => Enc!OwnSlot

(* The slots are disjoint and together they are the buffer.                  *)
SlotsTileBuffer == stage \in {"encode", "decode"} => Enc!SlotsTileBuffer

(* The encoder's output is, whatever the interleaving, the reference         *)
(* encoding, a file that the decoder is specified for.                       *)
FileIsPacked ==
  stage \in {"decode", "done"} /\ ~ isSeq =>
    /\ table = Dec!PackedStart
    /\ payload = Dec!PackedFile

(* The end of a chunk is not marked in the file: a decoding thread stops     *)
(* because its part of the output is full.  It does so before it fetches a   *)
(* byte behind its chunk, which belongs to another chunk or to nobody.       *)
FetchesOwnSlot == stage = "decode" => Dec!FetchesOwnSlot

(* The assertion at the end of huffman_encode_seq: the buffer that was       *)
(* measured in advance is used up.                                           *)
BufferUsedUp == stage = "encode" => Seql!BufferUsedUp

(* The tree that is read from the header is that of the codes.               *)
TableRestored == stage = "decode" => Seql!TableRestored

(* Behind the header lies the reference encoding of the whole file.          *)
OutputIsReference == stage = "encode" => Seql!OutputIsReference

(* write_data and read_data end the program when an access leaves the        *)
(* buffer, and a decoding thread reads through a null pointer when it leaves *)
(* the tree.  Neither happens once two different bytes occur in the file:    *)
(* get_out_size has reserved what the header and the codes take, and the     *)
(* decoder asks for no byte behind them.                                     *)
NoFailure == Dec!TwoSymbols => seqStage # "aborted" /\ decMain # "crashed"

(* README: "two lossless data compression algorithm".  Every position of     *)
(* the output is written once, with the byte of the original.                *)
Copier == INSTANCE Lossless
CopiesFile == Copier!Spec

(* The file is compressed in any case.  The program gets to the end if the   *)
(* code has a bit at all, and then the buffer is full.                       *)
ReachesEnd == /\ <>(stage \in {"decode", "done"})
              /\ Dec!TwoSymbols => <>(stage = "done" /\ out = data)

(* The message that run_huffman prints after the comparison with diff:       *)
(* "Compression result is correct!!"                                         *)
ResultIsCorrect == stage = "done" => out = data
===============================================================================
