--------------------------- MODULE Histogram_proofs ---------------------------
(***************************************************************************)
(* Proofs about Histogram for every number of threads, every number of     *)
(* symbols and every input buffer.                                         *)
(*                                                                         *)
(* The inductive invariant Inv says what each thread's private state       *)
(* means: its row of histo counts the positions it has passed, and freq is *)
(* the number of occurrences in the chunks of the rows it has added.  All  *)
(* counts are cardinalities of sets of positions, so that adding a row is  *)
(* the union of two disjoint sets.                                         *)
(***************************************************************************)
EXTENDS Histogram, OperatorLemmas

(* The bins of thread t that are stored already. *)
Stored(t) == {s \in Symbols : /\ BinFrom(t) <= s
                              /\ s < BinTo(t)
                              /\ pc[t] = "done" \/ (pc[t] = "merge" /\ s < i[t])}

CountInv ==
  \A t \in Threads :
    pc[t] = "count" =>
      /\ CountFrom(t) <= i[t]
      /\ i[t] <= CountTo(t) \/ i[t] = CountFrom(t)
      /\ \A s \in Symbols : histo[t][s] = Count(s, CountFrom(t), i[t])

CountedInv ==
  \A t \in Threads :
    pc[t] # "count" =>
      \A s \in Symbols : histo[t][s] = Count(s, CountFrom(t), CountTo(t))

BarrierInv ==
  (\E t \in Threads : pc[t] \in {"merge", "done"})
    => \A u \in Threads : pc[u] # "count"

MergeInv ==
  \A t \in Threads :
    pc[t] = "merge" =>
      /\ BinFrom(t) <= i[t]
      /\ i[t] < BinTo(t) => freq[t] = Count(i[t], 0, CountFrom(j[t]))

IdleInv ==
  \A t \in Threads : pc[t] \in {"count", "barrier"} => j[t] = 0 /\ freq[t] = 0

StoredInv ==
  /\ \A s \in Symbols : pSF[s] \in {0, Count(s, 0, size)}
  /\ \A t \in Threads : \A s \in Stored(t) : pSF[s] = Count(s, 0, size)

Inv == /\ TypeOK
       /\ CountInv
       /\ CountedInv
       /\ BarrierInv
       /\ IdleInv
       /\ MergeInv
       /\ StoredInv

-------------------------------------------------------------------------------
(* Counting occurrences. *)

LEMMA CountType ==
  ASSUME size \in Nat, NEW s, NEW lo \in Nat, NEW hi \in Nat
  PROVE  /\ IsFiniteSet(Occurrences(s, lo, hi))
         /\ Count(s, lo, hi) \in Nat
<1>1. IsFiniteSet(0 .. size - 1)
  BY FS_Interval
<1>2. Occurrences(s, lo, hi) \in SUBSET (0 .. size - 1)
  BY DEF Occurrences
<1>3. IsFiniteSet(Occurrences(s, lo, hi))
  BY <1>1, <1>2, FS_Subset
<1> QED BY <1>3, FS_CardinalityType DEF Count

LEMMA CountNone ==
  ASSUME size \in Nat, NEW s, NEW lo \in Nat, NEW hi \in Nat, lo >= hi
  PROVE  Count(s, lo, hi) = 0
<1>1. Occurrences(s, lo, hi) = {} BY DEF Occurrences
<1> QED BY <1>1, FS_EmptySet DEF Count

LEMMA CountOneMore ==
  ASSUME size \in Nat, NEW s, NEW lo \in Nat, NEW hi \in Nat, lo <= hi, hi < size
  PROVE  Count(s, lo, hi + 1) =
           IF data[hi] = s THEN Count(s, lo, hi) + 1 ELSE Count(s, lo, hi)
<1> DEFINE O == Occurrences(s, lo, hi)
<1>1. IsFiniteSet(O) BY CountType
<1>2. hi \notin O BY DEF Occurrences
<1>3. CASE data[hi] = s
  <2>1. Occurrences(s, lo, hi + 1) = O \cup {hi}
    BY <1>3 DEF Occurrences
  <2> QED BY <1>1, <1>2, <1>3, <2>1, FS_AddElement DEF Count
<1>4. CASE data[hi] # s
  <2>1. Occurrences(s, lo, hi + 1) = O
    BY <1>4 DEF Occurrences
  <2> QED BY <1>4, <2>1 DEF Count
<1> QED BY <1>3, <1>4

LEMMA CountSplit ==
  ASSUME size \in Nat, NEW s, NEW mid \in Nat, NEW hi \in Nat, mid <= hi
  PROVE  Count(s, 0, hi) = Count(s, 0, mid) + Count(s, mid, hi)
<1> DEFINE A == Occurrences(s, 0, mid)
           B == Occurrences(s, mid, hi)
<1>1. Occurrences(s, 0, hi) = A \cup B BY DEF Occurrences
<1>2. A \cap B = {} BY DEF Occurrences
<1>3. IsFiniteSet(A) /\ IsFiniteSet(B) BY CountType
<1>4. Cardinality(A) \in Nat /\ Cardinality(B) \in Nat
  BY <1>3, FS_CardinalityType
<1>5. Cardinality(A \cup B) = Cardinality(A) + Cardinality(B)
  BY <1>2, <1>3, <1>4, FS_EmptySet, FS_Union
<1> QED BY <1>1, <1>5 DEF Count

(* A bound behind the end of the buffer counts as the end. *)
LEMMA CountClipped ==
  ASSUME size \in Nat, NEW s, NEW lo \in Nat, NEW hi \in Nat
  PROVE  Count(s, lo, Least(hi, size)) = Count(s, lo, hi)
<1>1. Occurrences(s, lo, Least(hi, size)) = Occurrences(s, lo, hi)
  BY DEF Occurrences, Least
<1> QED BY <1>1 DEF Count

-------------------------------------------------------------------------------
(* The invariant. *)

(* What a type-correct state says of the bounds of the loops. *)
LEMMA Bounds ==
  ASSUME TypeOK
  PROVE  /\ size \in Nat
         /\ NumThreads \in Nat \ {0} /\ MaxSymbols \in Nat \ {0}
         /\ \A t \in Nat : /\ CountFrom(t) \in Nat
                          /\ CountTo(t) \in Nat
                          /\ CountTo(t) <= size
                          /\ CountTo(t) = Least(CountFrom(t + 1), size)
                          /\ CountFrom(t) <= CountFrom(t + 1)
                          /\ BinFrom(t) \in Nat
                          /\ BinTo(t) \in Nat
                          /\ BinTo(t) <= MaxSymbols
         /\ CountFrom(0) = 0
         /\ size <= CountFrom(NumThreads)
<1>1. size \in Nat BY SizesAssumption DEF TypeOK
<1>2. NumThreads \in Nat \ {0} /\ MaxSymbols \in Nat \ {0}
  BY NumThreadsAssumption, MaxSymbolsAssumption
<1>3. ASSUME NEW t \in Nat
      PROVE  /\ CountFrom(t) \in Nat
             /\ CountTo(t) \in Nat
             /\ CountTo(t) <= size
             /\ CountTo(t) = Least(CountFrom(t + 1), size)
             /\ CountFrom(t) <= CountFrom(t + 1)
  <2>1. UPDIV(size, NumThreads) \in Nat BY <1>1, <1>2, UPDIVRoundsUp
  <2>2. /\ ChunkStart(size, NumThreads, t) \in Nat
        /\ ChunkEnd(size, NumThreads, t) \in Nat
        /\ ChunkEnd(size, NumThreads, t) <= size
        /\ ChunkStart(size, NumThreads, t + 1)
             = ChunkStart(size, NumThreads, t) + UPDIV(size, NumThreads)
        /\ ChunkEnd(size, NumThreads, t)
             = Least(ChunkStart(size, NumThreads, t + 1), size)
    BY <1>1, <1>2, ChunkBounds
  <2>3. ChunkStart(size, NumThreads, t) <= ChunkStart(size, NumThreads, t + 1)
    BY <2>1, <2>2
  <2> QED BY <2>2, <2>3 DEF CountFrom, CountTo
<1>4. ASSUME NEW t \in Nat
      PROVE  BinFrom(t) \in Nat /\ BinTo(t) \in Nat /\ BinTo(t) <= MaxSymbols
  BY <1>2, ChunkBounds DEF BinFrom, BinTo
<1>5. CountFrom(0) = 0 BY <1>1, <1>2, ChunkBounds DEF CountFrom
<1>6. size <= CountFrom(NumThreads)
  BY <1>1, <1>2, ChunksReachEnd DEF CountFrom
<1> QED BY <1>1, <1>2, <1>3, <1>4, <1>5, <1>6

(* No action changes the input, hence neither what it counts to nor how it  *)
(* is cut.                                                                  *)
LEMMA InputUnchanged ==
  ASSUME UNCHANGED <<size, data>>
  PROVE  /\ \A s, lo, hi : Count(s, lo, hi)' = Count(s, lo, hi)
         /\ \A t : CountFrom(t)' = CountFrom(t) /\ CountTo(t)' = CountTo(t)
BY DEF Count, Occurrences, CountFrom, CountTo

LEMMA InitInv == Init => Inv
<1> SUFFICES ASSUME Init PROVE Inv OBVIOUS
<1>1. size \in Nat /\ NumThreads \in Nat \ {0}
  BY NumThreadsAssumption, SizesAssumption DEF Init
<1>2. \A t \in Threads : CountFrom(t) \in Nat
  BY <1>1, ChunkBounds DEF CountFrom, Threads
<1>3. TypeOK
  BY <1>1, <1>2, NumThreadsAssumption DEF Init, TypeOK
<1>4. CountInv
  <2> SUFFICES ASSUME NEW t \in Threads, NEW s \in Symbols
               PROVE  histo[t][s] = Count(s, CountFrom(t), i[t])
    BY <1>2 DEF CountInv, Init
  <2> QED BY <1>1, <1>2, CountNone DEF Init
<1>5. CountedInv /\ BarrierInv /\ IdleInv /\ MergeInv
  BY DEF CountedInv, BarrierInv, IdleInv, MergeInv, Init
<1>6. StoredInv
  BY DEF StoredInv, Stored, Init
<1> QED BY <1>3, <1>4, <1>5, <1>6 DEF Inv

LEMMA CountByteInv ==
  ASSUME Inv, NEW t \in Threads, CountByte(t)
  PROVE  Inv'
<1> USE DEF Inv
<1>1. size \in Nat /\ t \in Nat BY Bounds DEF Threads
<1>2. /\ CountFrom(t) \in Nat /\ CountTo(t) \in Nat /\ i[t] \in Nat
      /\ CountFrom(t) <= i[t]
      /\ i[t] < CountTo(t) /\ CountTo(t) <= size
      /\ i[t] \in 0 .. size - 1
      /\ i'[t] = i[t] + 1
      /\ \A u \in Threads : u # t => i'[u] = i[u] /\ histo'[u] = histo[u]
      /\ data[i[t]] \in Symbols
  <2>1. CountFrom(t) \in Nat /\ CountTo(t) <= size /\ CountTo(t) \in Nat
    BY <1>1, Bounds
  <2>2. i[t] \in Nat BY DEF TypeOK
  <2> QED BY <1>1, <2>1, <2>2 DEF CountByte, CountInv, TypeOK
<1>3. TypeOK' BY <1>2 DEF CountByte, TypeOK
<1>4. CountInv'
  <2>1. SUFFICES ASSUME NEW u \in Threads, pc[u] = "count"
                 PROVE  /\ CountFrom(u) <= i'[u]
                        /\ i'[u] <= CountTo(u) \/ i'[u] = CountFrom(u)
                        /\ \A s \in Symbols :
                             histo'[u][s] = Count(s, CountFrom(u), i'[u])
    BY InputUnchanged DEF CountInv, CountByte
  <2>2. CASE u # t
    BY <1>2, <2>1, <2>2 DEF CountInv
  <2>3. CASE u = t
    <3>1. CountFrom(t) <= i'[t] /\ i'[t] <= CountTo(t)
      BY <1>2
    <3>2. ASSUME NEW s \in Symbols
          PROVE  histo'[t][s] = Count(s, CountFrom(t), i'[t])
      <4>1. histo[t][s] = Count(s, CountFrom(t), i[t]) BY <2>1, <2>3 DEF CountInv
      <4>2. histo'[t][s] = IF data[i[t]] = s THEN histo[t][s] + 1 ELSE histo[t][s]
        BY DEF CountByte, TypeOK
      <4> QED BY <1>1, <1>2, <4>1, <4>2, CountOneMore
    <3> QED BY <2>3, <3>1, <3>2
  <2> QED BY <2>2, <2>3
<1>5. CountedInv' BY <1>2, InputUnchanged DEF CountedInv, CountByte
<1>6. BarrierInv' BY DEF BarrierInv, CountByte
<1>7. IdleInv' BY DEF IdleInv, CountByte
<1>8. MergeInv'
  <2>1. \A u \in Threads : pc[u] # "merge"
    BY DEF BarrierInv, CountByte
  <2> QED BY <2>1 DEF MergeInv, CountByte
<1>9. StoredInv'
  <2>1. \A u \in Threads : pc[u] \notin {"merge", "done"}
    BY DEF BarrierInv, CountByte
  <2> QED BY <2>1, InputUnchanged DEF StoredInv, Stored, CountByte
<1> QED BY <1>3, <1>4, <1>5, <1>6, <1>7, <1>8, <1>9

LEMMA ReachBarrierInv ==
  ASSUME Inv, NEW t \in Threads, ReachBarrier(t)
  PROVE  Inv'
<1> USE DEF Inv
<1>1. TypeOK' BY DEF ReachBarrier, TypeOK
<1>2. CountInv' BY InputUnchanged DEF CountInv, ReachBarrier, TypeOK
<1>3. CountedInv'
  <2>1. SUFFICES ASSUME NEW u \in Threads, pc'[u] # "count", NEW s \in Symbols
                 PROVE  histo[u][s] = Count(s, CountFrom(u), CountTo(u))
    BY InputUnchanged DEF CountedInv, ReachBarrier
  <2>2. CASE u # t BY <2>1, <2>2 DEF CountedInv, ReachBarrier, TypeOK
  <2>3. CASE u = t
    <3>1. /\ size \in Nat /\ t \in Nat /\ i[t] \in Nat
          /\ CountFrom(t) \in Nat /\ CountTo(t) \in Nat
      <4>1. t \in Nat BY Bounds DEF Threads
      <4>2. i[t] \in Nat BY DEF TypeOK
      <4> QED BY <4>1, <4>2, Bounds
    <3>2. /\ CountTo(t) <= i[t]
          /\ i[t] <= CountTo(t) \/ i[t] = CountFrom(t)
          /\ histo[t][s] = Count(s, CountFrom(t), i[t])
      BY <3>1 DEF ReachBarrier, CountInv
    <3>3. CASE i[t] = CountTo(t) BY <2>3, <3>2, <3>3
    <3>4. CASE i[t] = CountFrom(t)
      <4>1. Count(s, CountFrom(t), i[t]) = 0 BY <3>1, <3>4, CountNone
      <4>2. Count(s, CountFrom(t), CountTo(t)) = 0 BY <3>1, <3>2, <3>4, CountNone
      <4> QED BY <2>3, <3>2, <4>1, <4>2
    <3> QED BY <3>1, <3>2, <3>3, <3>4
  <2> QED BY <2>2, <2>3
<1>4. BarrierInv' BY DEF BarrierInv, ReachBarrier, TypeOK
<1>5. IdleInv' BY DEF IdleInv, ReachBarrier, TypeOK
<1>6. MergeInv' 
  <2>1. \A u \in Threads : pc'[u] # "merge"
    BY DEF BarrierInv, ReachBarrier, TypeOK
  <2> QED BY <2>1 DEF MergeInv
<1>7. StoredInv'
  <2>1. \A u \in Threads : pc'[u] \notin {"merge", "done"}
    BY DEF BarrierInv, ReachBarrier, TypeOK
  <2> QED BY <2>1, InputUnchanged DEF StoredInv, Stored, ReachBarrier
<1> QED BY <1>1, <1>2, <1>3, <1>4, <1>5, <1>6, <1>7

LEMMA LeaveBarrierInv ==
  ASSUME Inv, NEW t \in Threads, LeaveBarrier(t)
  PROVE  Inv'
<1> USE DEF Inv
<1>1. t \in Nat /\ BinFrom(t) \in Nat /\ BinTo(t) \in Nat
  <2>1. t \in Nat BY Bounds DEF Threads
  <2> QED BY <2>1, Bounds
<1>2. TypeOK' BY <1>1 DEF LeaveBarrier, TypeOK
<1>3. \A u \in Threads : pc[u] # "count" /\ pc'[u] # "count"
  BY DEF LeaveBarrier, AllArrived, TypeOK
<1>4. CountInv' /\ BarrierInv' BY <1>3 DEF CountInv, BarrierInv
<1>5. CountedInv' BY <1>3, InputUnchanged DEF CountedInv, LeaveBarrier
<1>6. IdleInv' BY DEF IdleInv, LeaveBarrier, TypeOK
<1>7. MergeInv'
  <2>1. SUFFICES ASSUME NEW u \in Threads, pc'[u] = "merge"
                 PROVE  /\ BinFrom(u) <= i'[u]
                        /\ i'[u] < BinTo(u) =>
                             freq[u] = Count(i'[u], 0, CountFrom(j[u]))
    BY InputUnchanged DEF MergeInv, LeaveBarrier, BinFrom, BinTo
  <2>2. CASE u # t BY <2>1, <2>2 DEF MergeInv, LeaveBarrier, TypeOK
  <2>3. CASE u = t
    <3>1. i'[t] = BinFrom(t) BY DEF LeaveBarrier, TypeOK
    <3>2. j[t] = 0 /\ freq[t] = 0 BY DEF IdleInv, LeaveBarrier
    <3>3. Count(i'[t], 0, 0) = 0 BY Bounds, CountNone
    <3> QED BY <1>1, <2>3, <3>1, <3>2, <3>3, Bounds
  <2> QED BY <2>2, <2>3
<1>8. StoredInv'
  <2>1. \A u \in Threads : Stored(u)' = Stored(u)
    <3> SUFFICES ASSUME NEW u \in Threads PROVE Stored(u)' = Stored(u)
      OBVIOUS
    <3>1. CASE u # t BY <3>1 DEF Stored, LeaveBarrier, TypeOK, BinFrom, BinTo
    <3>2. CASE u = t
      <4>1. Stored(t) = {} BY DEF Stored, LeaveBarrier
      <4>2. Stored(t)' = {}
        BY <1>1 DEF Stored, LeaveBarrier, TypeOK, BinFrom, BinTo, Symbols
      <4> QED BY <3>2, <4>1, <4>2
    <3> QED BY <3>1, <3>2
  <2> QED BY <2>1, InputUnchanged DEF StoredInv, LeaveBarrier
<1> QED BY <1>2, <1>4, <1>5, <1>6, <1>7, <1>8

(* Row j added to the sum over the rows before it is the sum up to it. *)
LEMMA AddRowInv ==
  ASSUME Inv, NEW t \in Threads, AddRow(t)
  PROVE  Inv'
<1> USE DEF Inv
<1>1. /\ size \in Nat /\ t \in Nat /\ NumThreads \in Nat
      /\ BinFrom(t) \in Nat /\ BinTo(t) \in Nat /\ BinTo(t) <= MaxSymbols
      /\ MaxSymbols \in Nat
  <2>1. t \in Nat BY Bounds DEF Threads
  <2> QED BY <2>1, Bounds
<1>2. /\ i[t] \in Nat /\ j[t] \in 0 .. NumThreads /\ freq[t] \in Nat
      /\ pc[t] = "merge" /\ i[t] < BinTo(t) /\ j[t] < NumThreads
      /\ BinFrom(t) <= i[t]
      /\ freq[t] = Count(i[t], 0, CountFrom(j[t]))
  BY DEF TypeOK, AddRow, MergeInv
<1>3. i[t] \in Symbols /\ j[t] \in Threads
  BY <1>1, <1>2 DEF Symbols, Threads
<1>4. histo[j[t]][i[t]] = Count(i[t], CountFrom(j[t]), CountTo(j[t]))
  <2>1. pc[j[t]] # "count" BY <1>2, <1>3 DEF BarrierInv
  <2> QED BY <1>3, <2>1 DEF CountedInv
<1>5. histo[j[t]][i[t]] \in Nat BY <1>3 DEF TypeOK
<1>6. TypeOK'
  <2>1. freq[t] + histo[j[t]][i[t]] \in Nat /\ j[t] + 1 \in 0 .. NumThreads
    BY <1>1, <1>2, <1>5
  <2>2. freq' \in [Threads -> Nat] BY <2>1 DEF AddRow, TypeOK
  <2>3. j' \in [Threads -> 0 .. NumThreads] BY <2>1 DEF AddRow, TypeOK
  <2> QED BY <2>2, <2>3 DEF AddRow, TypeOK
<1>7. CountInv' /\ CountedInv' /\ BarrierInv' /\ IdleInv'
  BY <1>2, InputUnchanged
  DEF CountInv, CountedInv, BarrierInv, IdleInv, AddRow
<1>8. MergeInv'
  <2>1. SUFFICES ASSUME NEW u \in Threads, pc[u] = "merge"
                 PROVE  /\ BinFrom(u) <= i[u]
                        /\ i[u] < BinTo(u) =>
                             freq'[u] = Count(i[u], 0, CountFrom(j'[u]))
    BY InputUnchanged DEF MergeInv, AddRow, BinFrom, BinTo
  <2>2. CASE u # t BY <2>1, <2>2 DEF MergeInv, AddRow, TypeOK
  <2>3. CASE u = t
    <3>1. freq'[t] = freq[t] + histo[j[t]][i[t]] /\ j'[t] = j[t] + 1
      BY DEF AddRow, TypeOK
    <3>2. /\ CountFrom(j[t]) \in Nat /\ CountFrom(j[t] + 1) \in Nat
          /\ CountFrom(j[t]) <= CountFrom(j[t] + 1)
          /\ CountTo(j[t]) = Least(CountFrom(j[t] + 1), size)
      <4>1. j[t] \in Nat /\ j[t] + 1 \in Nat BY <1>2
      <4>2. TypeOK OBVIOUS
      <4> HIDE DEF Inv
      <4> QED BY <4>1, <4>2, Bounds
    <3>3. histo[j[t]][i[t]] = Count(i[t], CountFrom(j[t]), CountFrom(j[t] + 1))
      BY <1>1, <1>4, <3>2, CountClipped
    <3>4. Count(i[t], 0, CountFrom(j[t] + 1))
            = Count(i[t], 0, CountFrom(j[t]))
                + Count(i[t], CountFrom(j[t]), CountFrom(j[t] + 1))
      BY <1>1, <3>2, CountSplit
    <3> QED BY <1>2, <2>3, <3>1, <3>3, <3>4
  <2> QED BY <2>2, <2>3
<1>9. StoredInv'
  BY InputUnchanged DEF StoredInv, Stored, AddRow, BinFrom, BinTo
<1> QED BY <1>6, <1>7, <1>8, <1>9

LEMMA StoreBinInv ==
  ASSUME Inv, NEW t \in Threads, StoreBin(t)
  PROVE  Inv'
<1> USE DEF Inv
<1>1. /\ size \in Nat /\ t \in Nat /\ NumThreads \in Nat
      /\ BinFrom(t) \in Nat /\ BinTo(t) \in Nat /\ BinTo(t) <= MaxSymbols
      /\ MaxSymbols \in Nat
  <2>1. t \in Nat BY Bounds DEF Threads
  <2> QED BY <2>1, Bounds
<1>2. /\ i[t] \in Nat /\ freq[t] \in Nat
      /\ pc[t] = "merge" /\ i[t] < BinTo(t) /\ j[t] = NumThreads
      /\ BinFrom(t) <= i[t]
      /\ freq[t] = Count(i[t], 0, CountFrom(NumThreads))
  BY DEF TypeOK, StoreBin, MergeInv
<1>3. i[t] \in Symbols BY <1>1, <1>2 DEF Symbols
<1>4. freq[t] = Count(i[t], 0, size)
  <2>1. CountFrom(NumThreads) \in Nat /\ size <= CountFrom(NumThreads)
    BY <1>1, Bounds
  <2>2. Least(CountFrom(NumThreads), size) = size BY <1>1, <2>1 DEF Least
  <2> QED BY <1>1, <1>2, <2>1, <2>2, CountClipped
<1>5. TypeOK'
  <2>1. i' \in [Threads -> Nat] BY <1>2 DEF StoreBin, TypeOK
  <2>2. j' \in [Threads -> 0 .. NumThreads] BY <1>1 DEF StoreBin, TypeOK
  <2>3. freq' \in [Threads -> Nat] BY DEF StoreBin, TypeOK
  <2>4. pSF' \in [Symbols -> Nat] BY <1>2 DEF StoreBin, TypeOK
  <2> QED BY <2>1, <2>2, <2>3, <2>4 DEF StoreBin, TypeOK
<1>6. CountInv' /\ CountedInv' /\ BarrierInv' /\ IdleInv'
  BY <1>2, InputUnchanged
  DEF CountInv, CountedInv, BarrierInv, IdleInv, StoreBin, TypeOK
<1>7. MergeInv'
  <2>1. SUFFICES ASSUME NEW u \in Threads, pc[u] = "merge"
                 PROVE  /\ BinFrom(u) <= i'[u]
                        /\ i'[u] < BinTo(u) =>
                             freq'[u] = Count(i'[u], 0, CountFrom(j'[u]))
    BY InputUnchanged DEF MergeInv, StoreBin, BinFrom, BinTo
  <2>2. CASE u # t BY <2>1, <2>2 DEF MergeInv, StoreBin, TypeOK
  <2>3. CASE u = t
    <3>1. i'[t] = i[t] + 1 /\ j'[t] = 0 /\ freq'[t] = 0
      BY DEF StoreBin, TypeOK
    <3>2. CountFrom(0) = 0 BY Bounds
    <3>3. Count(i'[t], 0, CountFrom(j'[t])) = 0
      BY <1>1, <3>1, <3>2, CountNone
    <3> QED BY <1>1, <1>2, <2>3, <3>1, <3>3
  <2> QED BY <2>2, <2>3
<1>8. StoredInv'
  <2>1. pSF' = [pSF EXCEPT ![i[t]] = Count(i[t], 0, size)]
    BY <1>4 DEF StoreBin
  <2>2. ASSUME NEW u \in Threads, NEW s \in Stored(u)'
        PROVE  s \in Stored(u) \/ s = i[t]
    BY <1>1, <1>2 DEF Stored, StoreBin, TypeOK, BinFrom, BinTo, Symbols
  <2>3. ASSUME NEW s \in Symbols PROVE pSF'[s] \in {0, Count(s, 0, size)}
    BY <1>3, <2>1 DEF StoredInv, TypeOK
  <2>4. ASSUME NEW u \in Threads, NEW s \in Stored(u)'
        PROVE  pSF'[s] = Count(s, 0, size)
    <3>1. s \in Symbols BY DEF Stored
    <3> QED BY <1>3, <2>1, <2>2, <3>1 DEF StoredInv, TypeOK
  <2> QED BY <2>3, <2>4, InputUnchanged DEF StoredInv, StoreBin
<1> QED BY <1>5, <1>6, <1>7, <1>8

LEMMA FinishInv ==
  ASSUME Inv, NEW t \in Threads, Finish(t)
  PROVE  Inv'
<1> USE DEF Inv
<1>1. TypeOK' BY DEF Finish, TypeOK
<1>2. CountInv' /\ CountedInv' /\ BarrierInv' /\ IdleInv'
  BY InputUnchanged
  DEF CountInv, CountedInv, BarrierInv, IdleInv, Finish, TypeOK
<1>3. MergeInv'
  BY InputUnchanged DEF MergeInv, Finish, TypeOK, BinFrom, BinTo
<1>4. StoredInv'
  <2>1. \A u \in Threads : Stored(u)' = Stored(u)
    <3>1. t \in Nat /\ BinTo(t) \in Nat /\ i[t] \in Nat
      <4>1. t \in Nat BY Bounds DEF Threads
      <4>2. i[t] \in Nat BY DEF TypeOK
      <4> QED BY <4>1, <4>2, Bounds
    <3>2. \A s \in Symbols : s < BinTo(t) => s < i[t]
      BY <3>1, MaxSymbolsAssumption DEF Finish, Symbols
    <3> QED BY <3>2 DEF Stored, Finish, TypeOK, BinFrom, BinTo
  <2> QED BY <2>1, InputUnchanged DEF StoredInv, Finish
<1> QED BY <1>1, <1>2, <1>3, <1>4

LEMMA NextInv == Inv /\ [Next]_vars => Inv'
<1> SUFFICES ASSUME Inv, [Next]_vars PROVE Inv' OBVIOUS
<1>1. CASE UNCHANGED vars
  <2> USE DEF vars
  <2>1. TypeOK' BY <1>1 DEF Inv, TypeOK
  <2>3. CountInv' /\ CountedInv' /\ BarrierInv' /\ IdleInv'
    BY <1>1, InputUnchanged
    DEF Inv, CountInv, CountedInv, BarrierInv, IdleInv
  <2>4. MergeInv' BY <1>1, InputUnchanged DEF Inv, MergeInv, BinFrom, BinTo
  <2>5. StoredInv'
    BY <1>1, InputUnchanged DEF Inv, StoredInv, Stored, BinFrom, BinTo
  <2> QED BY <2>1, <2>3, <2>4, <2>5 DEF Inv
<1>2. CASE Terminated BY <1>1, <1>2 DEF Terminated
<1>3. ASSUME NEW t \in Threads, Step(t) PROVE Inv'
  <2>1. CASE CountByte(t) BY <2>1, CountByteInv
  <2>2. CASE ReachBarrier(t) BY <2>2, ReachBarrierInv
  <2>3. CASE LeaveBarrier(t) BY <2>3, LeaveBarrierInv
  <2>4. CASE AddRow(t) BY <2>4, AddRowInv
  <2>5. CASE StoreBin(t) BY <2>5, StoreBinInv
  <2>6. CASE Finish(t) BY <2>6, FinishInv
  <2> QED BY <1>3, <2>1, <2>2, <2>3, <2>4, <2>5, <2>6 DEF Step
<1> QED BY <1>1, <1>2, <1>3 DEF Next

(* Inv holds in every reachable state. *)
THEOREM Invariance == Spec => []Inv
BY InitInv, NextInv, PTL DEF Spec

-------------------------------------------------------------------------------
(* What follows from the invariant. *)

(* The variables of the parallel region keep their types, whatever the      *)
(* number of threads, of symbols and of input bytes.                        *)
THEOREM TypeCorrect == Spec => []TypeOK
<1>1. Inv => TypeOK BY DEF Inv
<1> QED BY <1>1, Invariance, PTL

(* get_symbol_frequencies_parallel computes for every input what the        *)
(* sequential get_symbol_frequencies computes.                              *)
THEOREM FrequenciesCorrect == Spec => []Correct
<1>1. Inv => Correct
  <2> SUFFICES ASSUME Inv, Done, NEW s \in Symbols
               PROVE  pSF[s] = Count(s, 0, size)
    BY DEF Correct
  <2>1. PICK t \in Threads : BinFrom(t) <= s /\ s < BinTo(t)
    BY ChunksCover, NumThreadsAssumption, MaxSymbolsAssumption
    DEF Symbols, Threads, BinFrom, BinTo
  <2>2. s \in Stored(t) BY <2>1 DEF Stored, Done
  <2> QED BY <2>2 DEF Inv, StoredInv
<1> QED BY <1>1, Invariance, PTL

(* No two threads of the region race for a cell of histo_per_thread or pSF. *)
THEOREM RaceFree == Spec => []NoDataRace
<1>1. Inv => NoDataRace
  <2> SUFFICES ASSUME Inv, NEW t \in Threads, NEW u \in Threads, t # u,
                      NEW cell \in Written(t), cell \in Read(u)
               PROVE  FALSE
    BY DEF NoDataRace
  <2>1. CASE pc[t] = "count"
    <3>1. cell = <<"histo", t, data[i[t]]>> BY <2>1 DEF Written
    <3>2. pc[u] # "merge" BY <2>1 DEF Inv, BarrierInv
    <3>3. cell = <<"histo", u, data[i[u]]>> BY <3>2 DEF Read, Written
    <3> QED BY <3>1, <3>3
  <2>2. CASE pc[t] # "count"
    <3>1. cell = <<"pSF", i[t]>> /\ pc[t] = "merge" /\ i[t] < BinTo(t)
      BY <2>2 DEF Written
    <3>2. pc[u] # "count" BY <3>1 DEF Inv, BarrierInv
    <3>3. cell = <<"pSF", i[u]>> /\ pc[u] = "merge" /\ i[u] < BinTo(u)
      BY <3>1, <3>2 DEF Read, Written
    <3>4. i[t] = i[u] BY <3>1, <3>3
    <3>5. BinFrom(t) <= i[t] /\ BinFrom(u) <= i[u]
      BY <3>1, <3>3 DEF Inv, MergeInv
    <3>6. t \in Nat /\ u \in Nat /\ i[t] \in Nat
      BY NumThreadsAssumption DEF Threads, Inv, TypeOK
    <3> QED BY <3>1, <3>3, <3>4, <3>5, <3>6, ChunksDisjoint,
               NumThreadsAssumption, MaxSymbolsAssumption DEF BinFrom, BinTo
  <2> QED BY <2>1, <2>2
<1> QED BY <1>1, Invariance, PTL

(* The parallel pass implements FrequencyTable: entries of pSF go from NULL *)
(* to their final frequency in one step and stay.                           *)
THEOREM Implementation == Spec => PublishesOnce
<1>1. Init => Abstract!Init
  BY SizesAssumption DEF Init, Abstract!Init, Symbols, Abstract!Symbols
<1>2. Inv /\ [Next]_vars => [Abstract!Next]_<<size, data, pSF>>
  <2> SUFFICES ASSUME Inv, [Next]_vars
               PROVE  Abstract!Next \/ UNCHANGED <<size, data, pSF>>
    OBVIOUS
  <2>1. CASE UNCHANGED vars BY <2>1 DEF vars
  <2>2. CASE Terminated BY <2>2 DEF Terminated, vars
  <2>3. ASSUME NEW t \in Threads, Step(t), ~ StoreBin(t)
        PROVE  UNCHANGED <<size, data, pSF>>
    BY <2>3
    DEF Step, CountByte, ReachBarrier, LeaveBarrier, AddRow, Finish
  <2>4. ASSUME NEW t \in Threads, StoreBin(t)
        PROVE  Abstract!Next \/ UNCHANGED <<size, data, pSF>>
    <3>1. i[t] \in Symbols
      <4>1. t \in Nat BY NumThreadsAssumption DEF Threads
      <4>2. i[t] \in Nat /\ BinTo(t) \in Nat /\ BinTo(t) <= MaxSymbols
        BY <4>1, Bounds DEF Inv, TypeOK
      <4> QED BY <2>4, <4>2, MaxSymbolsAssumption DEF StoreBin, Symbols
    <3>2. Inv' BY <2>4, StoreBinInv
    <3>3. pSF'[i[t]] = Count(i[t], 0, size)
      <4>1. i[t] \in Stored(t)'
        <5>1. t \in Nat /\ i[t] \in Nat
          BY NumThreadsAssumption DEF Threads, Inv, TypeOK
        <5> QED BY <2>4, <3>1, <5>1
          DEF Stored, StoreBin, Inv, TypeOK, MergeInv, BinFrom, BinTo
      <4> QED BY <2>4, <3>2, <4>1, InputUnchanged DEF Inv, StoredInv, StoreBin
    <3>4. Count(i[t], 0, size) = Abstract!Frequency(i[t])
      <4>1. size \in Nat BY Bounds DEF Inv
      <4>2. Occurrences(i[t], 0, size) = Abstract!Positions(i[t])
        BY <4>1 DEF Occurrences, Abstract!Positions
      <4> QED BY <4>2 DEF Count, Abstract!Frequency, Cardinality, Abstract!Cardinality
    <3>5. pSF' = [pSF EXCEPT ![i[t]] = Abstract!Frequency(i[t])]
      BY <2>4, <3>1, <3>3, <3>4 DEF StoreBin, Inv, TypeOK
    <3>6. CASE pSF[i[t]] = 0
      BY <2>4, <3>1, <3>5, <3>6
      DEF Abstract!Next, Abstract!Publish, StoreBin, Symbols, Abstract!Symbols
    <3>7. CASE pSF[i[t]] # 0
      <4>1. pSF[i[t]] = Abstract!Frequency(i[t])
        BY <3>1, <3>4, <3>7 DEF Inv, StoredInv
      <4>2. pSF' = pSF BY <3>5, <4>1 DEF Inv, TypeOK
      <4> QED BY <2>4, <4>2 DEF StoreBin
    <3> QED BY <3>6, <3>7
  <2> QED BY <2>1, <2>2, <2>3, <2>4 DEF Next
<1> QED BY <1>1, <1>2, Invariance, PTL DEF Spec, PublishesOnce, Abstract!Spec
===============================================================================
