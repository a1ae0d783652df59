---------------------------- MODULE ChunkedDecode ----------------------------
(***************************************************************************)
(* huffman_decode_parallel: the main thread rebuilds the tree and reads    *)
(* the table of offsets, then each thread walks down the tree with the     *)
(* bits it finds from its offset on and writes its own chunk of the        *)
(* output, until the chunk is full.                                        *)
(*                                                                         *)
(* A node of the tree is the sequence of bits that leads to it from the    *)
(* root.  Compressed bytes are read where the encoder left them: an        *)
(* address that was never written holds any byte.                          *)
(***************************************************************************)
EXTENDS Bitstream

CONSTANTS NumThreads,  \* num_of_threads, also the size of the OpenMP team
          ByteBits,    \* the bits of a byte: 8
          Sizes,       \* the sizes of the original files to consider
          Codes        \* the code tables to consider

VARIABLES size, data,  \* the original file; only its size is in the header
          code,        \* the code table in the header
          table,       \* the offsets in the header
          payload,     \* the compressed bytes behind them
          main,        \* the main thread: "load", "decode", "done", "crashed"
          pc,          \* the team: in the outer loop "byte", the inner "bits"
          offset,      \* shared: compressed_chunk_start_offset
          pos,         \* each thread's i_offset
          o,           \* each thread's o_start_offset
          byte, mask,  \* each thread's byte and the bit that mask selects
          p,           \* each thread's node of the tree
          out          \* shared: out_data_buf.data

file == <<size, data, code, table, payload>>
walk == <<offset, pos, o, byte, mask, p, out>>
vars == <<file, main, pc, walk>>

Threads == 0 .. NumThreads - 1
Bytes == SUBSET (0 .. ByteBits - 1)

(* The file as a correct encoder leaves it: the chunks one behind the      *)
(* other, and in the table where each one starts.                          *)
Packed(t) == PackedChunk(data, size, NumThreads, t, code, ByteBits)
PackedSize(t) == Cardinality(DOMAIN Packed(t))
PackedStart == LET start[t \in Threads] ==
                     IF t = 0 THEN 0 ELSE start[t - 1] + PackedSize(t - 1)
               IN start
PackedSlot(t) == PackedStart[t] .. PackedStart[t] + PackedSize(t) - 1
PackedFile ==
  [a \in UNION {PackedSlot(t) : t \in Threads} |->
     LET t == CHOOSE u \in Threads : a \in PackedSlot(u)
     IN Packed(t)[a - PackedStart[t]]]

FileInit == /\ code \in Codes
            /\ size \in Sizes
            /\ data \in [0 .. size - 1 -> DOMAIN code]
            /\ \A s \in DOMAIN code : \E x \in 0 .. size - 1 : data[x] = s
            /\ table = PackedStart
            /\ payload = PackedFile

WalkInit == /\ main = "load"
            /\ pc = [t \in Threads |-> "byte"]
            /\ offset = [t \in Threads |-> 0]
            /\ pos = [t \in Threads |-> 0]
            /\ o = [t \in Threads |-> 0]
            /\ byte = [t \in Threads |-> {}]
            /\ mask = [t \in Threads |-> 0]
            /\ p = [t \in Threads |-> << >>]
            /\ out = << >>

Init == FileInit /\ WalkInit

(* The tree that read_code_table_memory builds: the nodes on the way to    *)
(* each code, the last of them a leaf.  The root is no leaf, even when it  *)
(* is the whole tree.                                                      *)
TreeNodes == {<< >>} \cup UNION {Prefixes(code[s]) : s \in DOMAIN code}
IsLeaf(node) == node # << >> /\ \E s \in DOMAIN code : code[s] = node
SymbolOf(node) == CHOOSE s \in DOMAIN code : code[s] = node

(* Mutant of OutTo: the last symbol is left out. *)
OutTo_OffByOne(t) == ChunkEnd(size, NumThreads, t) - 1

OutFrom(t) == ChunkStart(size, NumThreads, t)
OutTo(t) == ChunkEnd(size, NumThreads, t)

(* The offsets are read and the parallel region starts. *)
ReadOffsets ==
  /\ main = "load"
  /\ main' = "decode"
  /\ offset' = table
  /\ pos' = [t \in Threads |-> table[t]]
  /\ o' = [t \in Threads |-> OutFrom(t)]
  /\ UNCHANGED <<file, pc, byte, mask, p, out>>

(* What a load from an address of the compressed buffer may return. *)
Load(a) == IF a \in DOMAIN payload THEN {payload[a]} ELSE Bytes

(* The outer loop: the chunk is not full, take the next byte. *)
FetchByte(t) ==
  /\ main = "decode"
  /\ pc[t] = "byte"
  /\ o[t] < OutTo(t)
  /\ \E v \in Load(pos[t]) : byte' = [byte EXCEPT ![t] = v]
  /\ pos' = [pos EXCEPT ![t] = @ + 1]
  /\ mask' = [mask EXCEPT ![t] = 0]
  /\ pc' = [pc EXCEPT ![t] = "bits"]
  /\ UNCHANGED <<file, main, offset, o, p, out>>

(* Mutant of HasBit: the last bit of every byte is dropped. *)
HasBit_LastDropped(t) == /\ main = "decode"
                         /\ pc[t] = "bits"
                         /\ o[t] < OutTo(t)
                         /\ mask[t] < ByteBits - 1

(* The inner loop goes on: the chunk is not full and mask is not 0. *)
HasBit(t) == /\ main = "decode"
             /\ pc[t] = "bits"
             /\ o[t] < OutTo(t)
             /\ mask[t] < ByteBits

(* Mutant of Child: the children are swapped. *)
Child_Swapped(t) == Append(p[t], IF mask[t] \in byte[t] THEN 0 ELSE 1)

(* p->one or p->zero, by the bit under the mask. *)
Child(t) == Append(p[t], IF mask[t] \in byte[t] THEN 1 ELSE 0)

Descend(t) ==
  /\ HasBit(t)
  /\ Child(t) \in TreeNodes
  /\ ~ IsLeaf(Child(t))
  /\ p' = [p EXCEPT ![t] = Child(t)]
  /\ mask' = [mask EXCEPT ![t] = @ + 1]
  /\ UNCHANGED <<file, main, pc, offset, pos, o, byte, out>>

EmitSymbol(t) ==
  /\ HasBit(t)
  /\ IsLeaf(Child(t))
  /\ out' = [x \in DOMAIN out \cup {o[t]} |->
               IF x = o[t] THEN SymbolOf(Child(t)) ELSE out[x]]
  /\ o' = [o EXCEPT ![t] = @ + 1]
  /\ p' = [p EXCEPT ![t] = << >>]
  /\ mask' = [mask EXCEPT ![t] = @ + 1]
  /\ UNCHANGED <<file, main, pc, offset, pos, byte>>

(* There is no such child: p is NULL and p->isLeaf is read. *)
Crash(t) ==
  /\ HasBit(t)
  /\ Child(t) \notin TreeNodes
  /\ main' = "crashed"
  /\ UNCHANGED <<file, pc, walk>>

EndOfByte(t) ==
  /\ main = "decode"
  /\ pc[t] = "bits"
  /\ ~ HasBit(t)
  /\ pc' = [pc EXCEPT ![t] = "byte"]
  /\ UNCHANGED <<file, main, walk>>

Full(t) == pc[t] = "byte" /\ o[t] >= OutTo(t)

(* The implicit barrier at the end of the region. *)
EndOfDecoding ==
  /\ main = "decode"
  /\ \A t \in Threads : Full(t)
  /\ main' = "done"
  /\ UNCHANGED <<file, pc, walk>>

Done == main = "done"

Terminated == main \in {"done", "crashed"} /\ UNCHANGED vars

Step(t) == \/ FetchByte(t)
           \/ Descend(t)
           \/ EmitSymbol(t)
           \/ Crash(t)
           \/ EndOfByte(t)

Next == \/ \E t \in Threads : Step(t)
        \/ ReadOffsets
        \/ EndOfDecoding
        \/ Terminated

Fairness == /\ WF_vars(ReadOffsets \/ EndOfDecoding)
            /\ \A t \in Threads : WF_vars(Step(t))

Spec == Init /\ [][Next]_vars /\ Fairness

-------------------------------------------------------------------------------
(* The code has a leaf at all below the root: two different symbols occur. *)
TwoSymbols == Cardinality(DOMAIN code) >= 2

(* A thread that is about to fetch a byte fetches one of its own chunk. *)
FetchesOwnSlot ==
  TwoSymbols /\ main = "decode" =>
    \A t \in Threads :
      pc[t] = "byte" /\ o[t] < OutTo(t) => pos[t] \in PackedSlot(t)

(* README: "two lossless data compression algorithm", for every file: the   *)
(* decoder finds a child of the node for every bit.                         *)
NoNullChild == main # "crashed"
===============================================================================
