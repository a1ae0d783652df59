------------------------------ MODULE Histogram ------------------------------
(***************************************************************************)
(* get_symbol_frequencies_parallel of huffman_parallel.cpp: a team of      *)
(* NumThreads OpenMP threads counts how often each symbol occurs in the    *)
(* input buffer.                                                           *)
(*                                                                         *)
(*   count     each thread reads its own piece of the buffer and counts    *)
(*             into its own row of histo_per_thread;                       *)
(*   barrier   nobody goes on before everybody has counted;                *)
(*   merge     each thread takes its own piece of the bins, adds the rows  *)
(*             of all threads for one bin after the other and stores the   *)
(*             sum in the shared table pSF;                                *)
(*   done      the implicit barrier at the end of the parallel region.     *)
(*                                                                         *)
(* One action is one access of a thread to the shared arrays, so that      *)
(* every interleaving of the accesses is explored.                         *)
(***************************************************************************)
EXTENDS Partition, FiniteSets

CONSTANTS NumThreads,  \* num_of_threads, also the size of the OpenMP team
          MaxSymbols,  \* MAX_SYMBOLS: 256 in huffman.h
          Sizes        \* the sizes of the input buffers to consider

ASSUME NumThreadsAssumption == NumThreads \in Nat \ {0}
ASSUME MaxSymbolsAssumption == MaxSymbols \in Nat \ {0}
ASSUME SizesAssumption      == Sizes \subseteq Nat

VARIABLES size,   \* buf.size
          data,   \* buf.data
          pSF,    \* shared: the merged frequencies, 0 stands for NULL
          histo,  \* shared: histo_per_thread, one row per thread
          pc,     \* where each thread is in the parallel region
          i,      \* each thread's loop variable i, in both of its loops
          j,      \* each thread's loop variable j, over the rows
          freq    \* each thread's local sum for the bin i

vars == <<size, data, pSF, histo, pc, i, j, freq>>

Threads == 0 .. NumThreads - 1
Symbols == 0 .. MaxSymbols - 1

(* The piece of the buffer that thread t counts. *)
CountFrom(t) == ChunkStart(size, NumThreads, t)
CountTo(t)   == ChunkEnd(size, NumThreads, t)

(* Mutant of BinFrom: the first bin is taken for bin 1. *)
BinFrom_OffByOne(t) == ChunkStart(MaxSymbols, NumThreads, t) - 1

(* The bins that thread t merges. *)
BinFrom(t) == ChunkStart(MaxSymbols, NumThreads, t)
BinTo(t)   == ChunkEnd(MaxSymbols, NumThreads, t)

Init == /\ size \in Sizes
        /\ data \in [0 .. size - 1 -> Symbols]
        /\ pSF = [s \in Symbols |-> 0]
        /\ histo = [t \in Threads |-> [s \in Symbols |-> 0]]
        /\ pc = [t \in Threads |-> "count"]
        /\ i = [t \in Threads |-> CountFrom(t)]
        /\ j = [t \in Threads |-> 0]
        /\ freq = [t \in Threads |-> 0]

(* One iteration of the counting loop. *)
CountByte(t) ==
  /\ pc[t] = "count"
  /\ i[t] < CountTo(t)
  /\ histo' = [histo EXCEPT ![t][data[i[t]]] = @ + 1]
  /\ i' = [i EXCEPT ![t] = @ + 1]
  /\ UNCHANGED <<size, data, pSF, pc, j, freq>>

ReachBarrier(t) ==
  /\ pc[t] = "count"
  /\ i[t] >= CountTo(t)
  /\ pc' = [pc EXCEPT ![t] = "barrier"]
  /\ UNCHANGED <<size, data, pSF, histo, i, j, freq>>

(* Mutants of AllArrived: no barrier at all, and a barrier that traps the  *)
(* threads which are still in it when the first one has left.              *)
AllArrived_NoBarrier == TRUE
AllArrived_Together == \A u \in Threads : pc[u] = "barrier"

AllArrived == \A u \in Threads : pc[u] # "count"

(* Past the barrier the thread turns to its bins. *)
LeaveBarrier(t) ==
  /\ pc[t] = "barrier"
  /\ AllArrived
  /\ pc' = [pc EXCEPT ![t] = "merge"]
  /\ i' = [i EXCEPT ![t] = BinFrom(t)]
  /\ UNCHANGED <<size, data, pSF, histo, j, freq>>

(* One iteration of the loop over the rows: read the bin in row j. *)
AddRow(t) ==
  /\ pc[t] = "merge"
  /\ i[t] < BinTo(t)
  /\ j[t] < NumThreads
  /\ freq' = [freq EXCEPT ![t] = @ + histo[j[t]][i[t]]]
  /\ j' = [j EXCEPT ![t] = @ + 1]
  /\ UNCHANGED <<size, data, pSF, histo, pc, i>>

(* All rows are added: store a leaf with the sum, or NULL when it is 0. *)
StoreBin(t) ==
  /\ pc[t] = "merge"
  /\ i[t] < BinTo(t)
  /\ j[t] = NumThreads
  /\ pSF' = [pSF EXCEPT ![i[t]] = freq[t]]
  /\ i' = [i EXCEPT ![t] = @ + 1]
  /\ j' = [j EXCEPT ![t] = 0]
  /\ freq' = [freq EXCEPT ![t] = 0]
  /\ UNCHANGED <<size, data, histo, pc>>

Finish(t) ==
  /\ pc[t] = "merge"
  /\ i[t] >= BinTo(t)
  /\ pc' = [pc EXCEPT ![t] = "done"]
  /\ UNCHANGED <<size, data, pSF, histo, i, j, freq>>

Done == \A t \in Threads : pc[t] = "done"

(* The region is over; the state stays as it is. *)
Terminated == Done /\ UNCHANGED vars

Step(t) == \/ CountByte(t)
           \/ ReachBarrier(t)
           \/ LeaveBarrier(t)
           \/ AddRow(t)
           \/ StoreBin(t)
           \/ Finish(t)

Next == \/ \E t \in Threads : Step(t)
        \/ Terminated

(* The operating system schedules every thread of the team again and again. *)
Fairness == \A t \in Threads : WF_vars(Step(t))

Spec == Init /\ [][Next]_vars /\ Fairness

-------------------------------------------------------------------------------
TypeOK == /\ size \in Sizes
          /\ data \in [0 .. size - 1 -> Symbols]
          /\ pSF \in [Symbols -> Nat]
          /\ histo \in [Threads -> [Symbols -> Nat]]
          /\ pc \in [Threads -> {"count", "barrier", "merge", "done"}]
          /\ i \in [Threads -> Nat]
          /\ j \in [Threads -> 0 .. NumThreads]
          /\ freq \in [Threads -> Nat]

(* The positions lo .. hi - 1 of the buffer that hold symbol s, and how many *)
(* there are.                                                                *)
Occurrences(s, lo, hi) == {k \in 0 .. size - 1 : lo <= k /\ k < hi /\ data[k] = s}
Count(s, lo, hi) == Cardinality(Occurrences(s, lo, hi))

(* The memory cells the next step of thread t writes and reads. *)
Written(t) ==
  IF pc[t] = "count" /\ i[t] < CountTo(t) THEN {<<"histo", t, data[i[t]]>>}
  ELSE IF pc[t] = "merge" /\ i[t] < BinTo(t) /\ j[t] = NumThreads
  THEN {<<"pSF", i[t]>>} ELSE {}

Read(t) ==
  IF pc[t] = "merge" /\ i[t] < BinTo(t) /\ j[t] < NumThreads
  THEN {<<"histo", j[t], i[t]>>} ELSE Written(t)

(* No data race: a cell that one thread is about to write is not about to  *)
(* be read or written by another one.  The comments of the code claim      *)
(* nothing here; the barrier between the loops and the two cuts have to    *)
(* ensure it.                                                              *)
NoDataRace == \A t, u \in Threads : t # u => Written(t) \cap Read(u) = {}

(* After the region pSF is what the sequential get_symbol_frequencies      *)
(* computes: NULL for a symbol that does not occur, else a leaf with the   *)
(* number of its occurrences.                                              *)
Correct == Done => \A s \in Symbols : pSF[s] = Count(s, 0, size)

(* Every thread leaves the parallel region: the barrier traps nobody, with *)
(* empty pieces of the buffer or of the bins too.                          *)
Termination == <>Done

(* The parallel pass keeps the promise of the abstract one: no entry of    *)
(* pSF is ever seen with a partial sum or changes once it is set.          *)
Abstract == INSTANCE FrequencyTable
PublishesOnce == Abstract!Spec
===============================================================================
