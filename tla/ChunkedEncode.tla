---------------------------- MODULE ChunkedEncode ----------------------------
(***************************************************************************)
(* The second pass of huffman_encode_parallel: get_out_size computes where *)
(* in the output buffer each thread may write, do_encode lets all threads  *)
(* write there at once, without any lock.                                  *)
(*                                                                         *)
(*   size    each thread adds up the code lengths of the symbols that      *)
(*           "omp for schedule(static)" hands to it and stores the number  *)
(*           of bytes they take;                                           *)
(*   prefix  the main thread turns the sizes into start offsets;           *)
(*   encode  each thread copies its offset into the table at the front of  *)
(*           the output and encodes its own chunk of the input, cut by     *)
(*           do_encode itself, behind the table;                           *)
(*   done    the implicit barrier at the end of the region.                *)
(*                                                                         *)
(* A code is a sequence of bits.  A byte of the output is the set of its   *)
(* bits that are 1, bit 0 being the first one that is written.  The output *)
(* is a function from the addresses that were written so far, address 0    *)
(* being the first byte behind the table; an address out of the buffer can *)
(* be written too, as in the code.                                         *)
(***************************************************************************)
EXTENDS Partition, FiniteSets, Sequences

CONSTANTS NumThreads,  \* num_of_threads, also the size of the OpenMP team
          ByteBits,    \* the bits of a byte: 8
          Sizes,       \* the sizes of the input buffers to consider
          Codes        \* the code tables to consider

VARIABLES size, data,  \* the input buffer
          code,        \* the SymbolEncoder
          main,        \* the main thread: "size", "prefix", "encode", "done"
          pc,          \* the team: "begin", "run" or "end" of the region
          k,           \* each thread's position in the input
          cnt,         \* get_out_size: cnt, the bits of the thread's part
          bytes,       \* shared: bytes_in_chunks
          m, sum,      \* the loop variable i and sum of the prefix loop
          offset,      \* shared: compressed_chunk_start_offset
          table,       \* shared: the offsets at the front of the output
          payload,     \* shared: the output behind the table
          b,           \* do_encode: i, the position in the symbol's code
          byte, bit,   \* do_encode: curbyte and curbit
          pos          \* do_encode: start_offset behind the table

input == <<size, data, code>>
sizing == <<cnt, bytes>>
encoding == <<table, payload, b, byte, bit, pos>>
vars == <<input, main, pc, k, sizing, m, sum, offset, encoding>>

Threads == 0 .. NumThreads - 1

(* Mutants of BytesFor: without rounding up, and one byte too few. *)
BytesFor_RoundedDown(bits) == bits \div ByteBits
BytesFor_OneLess(bits) == bits \div ByteBits - 1

(* Division of a number of bits by the bits of a byte, rounded up. *)
BytesFor(bits) == UPDIV(bits, ByteBits)

(* The codes of a table are made from the symbols that occur. *)
Init == /\ code \in Codes
        /\ size \in Sizes
        /\ data \in [0 .. size - 1 -> DOMAIN code]
        /\ \A s \in DOMAIN code : \E x \in 0 .. size - 1 : data[x] = s
        /\ main = "size"
        /\ pc = [t \in Threads |-> "run"]
        /\ k = [t \in Threads |-> StaticStart(size, NumThreads, t)]
        /\ cnt = [t \in Threads |-> 0]
        /\ bytes = [t \in Threads |-> 0]
        /\ m = 0
        /\ sum = 0
        /\ offset = [t \in Threads |-> 0]
        /\ table = [t \in Threads |-> 0]
        /\ payload = << >>
        /\ b = [t \in Threads |-> 0]
        /\ byte = [t \in Threads |-> {}]
        /\ bit = [t \in Threads |-> 0]
        /\ pos = [t \in Threads |-> 0]

-------------------------------------------------------------------------------
(* get_out_size *)

CountCode(t) ==
  /\ main = "size"
  /\ pc[t] = "run"
  /\ k[t] < StaticEnd(size, NumThreads, t)
  /\ cnt' = [cnt EXCEPT ![t] = @ + Len(code[data[k[t]]])]
  /\ k' = [k EXCEPT ![t] = @ + 1]
  /\ UNCHANGED <<input, main, pc, bytes, m, sum, offset, encoding>>

StoreBytes(t) ==
  /\ main = "size"
  /\ pc[t] = "run"
  /\ k[t] >= StaticEnd(size, NumThreads, t)
  /\ bytes' = [bytes EXCEPT ![t] = BytesFor(cnt[t])]
  /\ pc' = [pc EXCEPT ![t] = "end"]
  /\ UNCHANGED <<input, main, k, cnt, m, sum, offset, encoding>>

(* The implicit barrier at the end of a parallel region. *)
TeamFinished == \A t \in Threads : pc[t] = "end"

EndOfSizing ==
  /\ main = "size"
  /\ TeamFinished
  /\ main' = "prefix"
  /\ UNCHANGED <<input, pc, k, sizing, m, sum, offset, encoding>>

(* One iteration of the loop that adds up the sizes. *)
NextOffset ==
  /\ main = "prefix"
  /\ m < NumThreads - 1
  /\ sum' = sum + bytes[m]
  /\ offset' = [offset EXCEPT ![m + 1] = sum']
  /\ m' = m + 1
  /\ UNCHANGED <<input, main, pc, k, sizing, encoding>>

(* Mutant of OutSize: the last chunk is forgotten. *)
OutSize_WithoutLast == sum

(* The bytes of the output buffer behind the table of offsets. *)
OutSize == sum + bytes[NumThreads - 1]

StartEncoding ==
  /\ main = "prefix"
  /\ m >= NumThreads - 1
  /\ main' = "encode"
  /\ pc' = [t \in Threads |-> "begin"]
  /\ UNCHANGED <<input, k, sizing, m, sum, offset, encoding>>

-------------------------------------------------------------------------------
(* do_encode *)

StoreOffset(t) ==
  /\ main = "encode"
  /\ pc[t] = "begin"
  /\ table' = [table EXCEPT ![t] = offset[t]]
  /\ pos' = [pos EXCEPT ![t] = offset[t]]
  /\ k' = [k EXCEPT ![t] = ChunkStart(size, NumThreads, t)]
  /\ pc' = [pc EXCEPT ![t] = "run"]
  /\ UNCHANGED <<input, main, sizing, m, sum, offset, payload, b, byte, bit>>

Running(t) == main = "encode" /\ pc[t] = "run"

(* The thread has a symbol of its chunk and bits of its code left. *)
HasSymbol(t) == k[t] < ChunkEnd(size, NumThreads, t)
HasBit(t) == HasSymbol(t) /\ b[t] < Len(code[data[k[t]]])

(* Mutant of WithNextBit: the bits are put in from the other end. *)
WithNextBit_HighFirst(t) ==
  IF code[data[k[t]]][b[t] + 1] = 1
  THEN byte[t] \cup {ByteBits - 1 - bit[t]} ELSE byte[t]

(* curbyte after the next bit of the code is or-ed into it. *)
WithNextBit(t) ==
  IF code[data[k[t]]][b[t] + 1] = 1 THEN byte[t] \cup {bit[t]} ELSE byte[t]

Store(address, value) ==
  payload' = [a \in DOMAIN payload \cup {address} |->
                IF a = address THEN value ELSE payload[a]]

(* The next bit does not fill the byte. *)
AddBit(t) ==
  /\ Running(t)
  /\ HasBit(t)
  /\ bit[t] + 1 < ByteBits
  /\ byte' = [byte EXCEPT ![t] = WithNextBit(t)]
  /\ bit' = [bit EXCEPT ![t] = @ + 1]
  /\ b' = [b EXCEPT ![t] = @ + 1]
  /\ UNCHANGED <<input, main, pc, k, sizing, m, sum, offset, table, payload, pos>>

(* The next bit fills the byte, which is written. *)
FillByte(t) ==
  /\ Running(t)
  /\ HasBit(t)
  /\ bit[t] + 1 = ByteBits
  /\ Store(pos[t], WithNextBit(t))
  /\ pos' = [pos EXCEPT ![t] = @ + 1]
  /\ byte' = [byte EXCEPT ![t] = {}]
  /\ bit' = [bit EXCEPT ![t] = 0]
  /\ b' = [b EXCEPT ![t] = @ + 1]
  /\ UNCHANGED <<input, main, pc, k, sizing, m, sum, offset, table>>

NextSymbol(t) ==
  /\ Running(t)
  /\ HasSymbol(t)
  /\ ~ HasBit(t)
  /\ k' = [k EXCEPT ![t] = @ + 1]
  /\ b' = [b EXCEPT ![t] = 0]
  /\ UNCHANGED <<input, main, pc, sizing, m, sum, offset, table, payload,
                 byte, bit, pos>>

HasPartialByte(t) == bit[t] > 0

(* The chunk is done; a byte that is not full is written as it is. *)
Flush(t) ==
  /\ Running(t)
  /\ ~ HasSymbol(t)
  /\ IF HasPartialByte(t) THEN Store(pos[t], byte[t]) ELSE UNCHANGED payload
  /\ pc' = [pc EXCEPT ![t] = "end"]
  /\ UNCHANGED <<input, main, k, sizing, m, sum, offset, table,
                 b, byte, bit, pos>>

EndOfEncoding ==
  /\ main = "encode"
  /\ TeamFinished
  /\ main' = "done"
  /\ UNCHANGED <<input, pc, k, sizing, m, sum, offset, encoding>>

Done == main = "done"

Terminated == Done /\ UNCHANGED vars

Step(t) == \/ CountCode(t)
           \/ StoreBytes(t)
           \/ StoreOffset(t)
           \/ AddBit(t)
           \/ FillByte(t)
           \/ NextSymbol(t)
           \/ Flush(t)

MainStep == EndOfSizing \/ NextOffset \/ StartEncoding \/ EndOfEncoding

Next == \/ \E t \in Threads : Step(t)
        \/ MainStep
        \/ Terminated

(* Every thread of the team, the main one too, is scheduled again and again. *)
Fairness == WF_vars(MainStep) /\ \A t \in Threads : WF_vars(Step(t))

Spec == Init /\ [][Next]_vars /\ Fairness

-------------------------------------------------------------------------------
Bytes == SUBSET (0 .. ByteBits - 1)

TypeOK == /\ size \in Sizes
          /\ code \in Codes
          /\ data \in [0 .. size - 1 -> DOMAIN code]
          /\ main \in {"size", "prefix", "encode", "done"}
          /\ pc \in [Threads -> {"begin", "run", "end"}]
          /\ k \in [Threads -> Nat]
          /\ cnt \in [Threads -> Nat]
          /\ bytes \in [Threads -> Nat]
          /\ m \in Threads
          /\ sum \in Nat
          /\ offset \in [Threads -> Nat]
          /\ table \in [Threads -> Nat]
          /\ payload \in [DOMAIN payload -> Bytes]
          /\ DOMAIN payload \subseteq Nat
          /\ b \in [Threads -> Nat]
          /\ byte \in [Threads -> Bytes]
          /\ bit \in [Threads -> 0 .. ByteBits - 1]
          /\ pos \in [Threads -> Nat]

(* The part of the output that was measured for thread t. *)
Slot(t) == offset[t] .. offset[t] + bytes[t] - 1

(* The address of the output that the next step of thread t writes. *)
Written(t) ==
  IF Running(t) /\ (IF HasSymbol(t) THEN HasBit(t) /\ bit[t] + 1 = ByteBits
                                    ELSE HasPartialByte(t))
  THEN {pos[t]} ELSE {}

(* README: "precompute the size of compressed chunk each thread will        *)
(* produce. Then, use prefix sum to get the output offset so that each      *)
(* thread will know where they should write to."  A thread writes only what *)
(* was measured for it, although the two passes cut the input differently.  *)
OwnSlot == \A t \in Threads : Written(t) \subseteq Slot(t)

(* The slots lie one behind the other: they are disjoint, so that threads   *)
(* which keep to them never write the same byte, and together they are the  *)
(* buffer that is allocated, so that nobody writes beyond its end.          *)
SlotsTileBuffer ==
  main \in {"encode", "done"} =>
    /\ \A t, u \in Threads : t # u => Slot(t) \cap Slot(u) = {}
    /\ UNION {Slot(t) : t \in Threads} = 0 .. OutSize - 1
===============================================================================
