-------------------------- MODULE HuffmanCodes_proofs --------------------------
(***************************************************************************)
(* Proofs about HuffmanCodes: one tree is left, its codes are shorter than *)
(* the number of symbols, together they decode every sequence of bits, and *)
(* no prefix code takes fewer bits.                                        *)
(***************************************************************************)
EXTENDS HuffmanCodes, OperatorLemmas

(* The nodes that exist: the leaves and the inner nodes made so far.         *)
Inner == MaxSymbols .. MaxSymbols + i - 1
Made == Occurring \cup Inner

TypeInv ==
  /\ table \in [Symbols -> Nat]
  /\ pc \in {"merge", "encode", "done", "crashed"}
  /\ i \in Nat
  /\ count \in [Nodes -> Nat]
  /\ zero \in [InnerNodes -> Nodes \cup {NULL}]
  /\ one \in [InnerNodes -> Nodes \cup {NULL}]
  /\ parent \in [Nodes -> InnerNodes \cup {NULL}]

(* The loop makes one root out of two.                                       *)
CountInv ==
  /\ n = Cardinality(Occurring)
  /\ IsFiniteSet(roots) /\ Cardinality(roots) = n - i
  /\ IF n = 0 THEN i = 0 /\ pc \in {"merge", "crashed"}
     ELSE i <= n - 1 /\ pc # "crashed"
  /\ pc \in {"encode", "done"} => i = n - 1

(* The nodes form a forest; parents have greater numbers.                    *)
ForestInv ==
  /\ roots \subseteq Made
  /\ \A k \in Nodes : parent[k] # NULL <=> k \in Made \ roots
  /\ \A k \in Nodes : parent[k] # NULL =>
       /\ parent[k] \in Inner
       /\ k < parent[k]
       /\ k \in {zero[parent[k]], one[parent[k]]}
  /\ \A p \in Inner : /\ zero[p] \in Nodes /\ one[p] \in Nodes
                      /\ zero[p] # one[p]
                      /\ parent[zero[p]] = p /\ parent[one[p]] = p
  /\ \A p \in InnerNodes \ Inner : zero[p] = NULL

CodeInv ==
  pc = "done" => DOMAIN code = Occurring /\ \A s \in Occurring : code[s] = CodeOf(s)

Inv == TypeInv /\ CountInv /\ ForestInv /\ CodeInv

-------------------------------------------------------------------------------
(* The loop. *)

(* The numbers and the sets of nodes, as far as the provers need them.       *)
LEMMA Numbers ==
  ASSUME TypeInv, CountInv
  PROVE  /\ MaxSymbols \in Nat \ {0}
         /\ n \in 0 .. MaxSymbols
         /\ Symbols = 0 .. MaxSymbols - 1
         /\ Nodes = 0 .. 2 * MaxSymbols - 1
         /\ InnerNodes = MaxSymbols .. 2 * MaxSymbols - 1
         /\ Occurring \subseteq Symbols
         /\ Inner \subseteq InnerNodes
         /\ i \in 0 .. MaxSymbols - 1
<1>1. MaxSymbols \in Nat \ {0}
  BY MaxSymbolsAssumption
<1>2. IsFiniteSet(Symbols) /\ Cardinality(Symbols) = MaxSymbols
  <2>1. 0 \in Int /\ MaxSymbols - 1 \in Int
    BY <1>1
  <2>2. IsFiniteSet(Symbols) /\ Cardinality(Symbols) = IF 0 > MaxSymbols - 1 THEN 0
                                                       ELSE MaxSymbols - 1 - 0 + 1
    BY <2>1, FS_Interval, Zenon DEF Symbols
  <2>. QED
    BY <1>1, <2>2
<1>3. Occurring \in SUBSET Symbols
  BY DEF Occurring
<1>4. IsFiniteSet(Occurring) /\ Cardinality(Occurring) <= MaxSymbols
  BY <1>2, <1>3, FS_Subset
<1>5. n \in 0 .. MaxSymbols
  <2>1. Cardinality(Occurring) \in Nat
    BY <1>4, FS_CardinalityType
  <2>2. n = Cardinality(Occurring)
    BY DEF CountInv
  <2>. QED
    BY <1>1, <1>4, <2>1, <2>2
<1>6. i \in 0 .. MaxSymbols - 1
  BY <1>1, <1>5 DEF TypeInv, CountInv
<1>. QED
  BY <1>1, <1>3, <1>5, <1>6 DEF Symbols, InnerNodes, Nodes, Inner

(* The invariant holds of the table with nothing merged.                     *)
LEMMA InvInit == Init => Inv
<1>. SUFFICES ASSUME Init PROVE Inv
  OBVIOUS
<1>1. TypeInv
  BY TablesAssumption, MaxSymbolsAssumption
  DEF Init, TypeInv, Nodes, Symbols, InnerNodes, Occurring, NULL
<1>2. IsFiniteSet(Occurring) /\ Cardinality(Occurring) \in Nat
  <2>1. IsFiniteSet(Symbols)
    BY FS_Interval, MaxSymbolsAssumption DEF Symbols
  <2>2. Occurring \in SUBSET Symbols
    BY DEF Occurring
  <2>. QED
    BY <2>1, <2>2, FS_Subset, FS_CardinalityType
<1>3. CountInv
  BY <1>2 DEF Init, CountInv
<1>4. Made = Occurring /\ Inner = {} /\ roots = Occurring
  BY MaxSymbolsAssumption DEF Init, Made, Inner
<1>5. ForestInv
  BY <1>4 DEF Init, ForestInv, NULL
<1>6. CodeInv
  BY DEF Init, CodeInv
<1>. QED
  BY <1>1, <1>3, <1>5, <1>6 DEF Inv

(* A merge: two roots become the children of a node with a greater number    *)
(* than every node before it.                                                *)
LEMMA MergeFacts ==
  ASSUME TypeInv, CountInv, ForestInv, NEW m1 \in Nodes, NEW m2 \in Nodes, Merge(m1, m2)
  PROVE  LET node == MaxSymbols + i
         IN /\ pc = "merge" /\ pc' = "merge" /\ i < LoopBound /\ i' = i + 1
            /\ UNCHANGED <<table, n, code>>
            /\ m1 \in roots /\ m2 \in roots /\ m1 # m2
            /\ \A r \in roots : count[m1] <= count[r]
            /\ \A r \in roots \ {m1} : count[m2] <= count[r]
            /\ count' = [count EXCEPT ![node] = count[m1] + count[m2]]
            /\ zero' = [zero EXCEPT ![node] = m1]
            /\ one' = [one EXCEPT ![node] = m2]
            /\ parent' = [parent EXCEPT ![m1] = node, ![m2] = node]
            /\ roots' = (roots \ {m1, m2}) \cup {node}
            /\ n # 0 /\ i < n - 1
            /\ node \in InnerNodes /\ node \in Nodes /\ node \notin Made
            /\ Occurring' = Occurring /\ Inner' = Inner \cup {node}
            /\ Made' = Made \cup {node}
<1>. DEFINE node == MaxSymbols + i
<1>1. /\ pc = "merge" /\ pc' = "merge" /\ i < LoopBound /\ i' = i + 1
      /\ UNCHANGED <<table, n, code>>
      /\ m1 \in roots /\ m2 \in roots /\ m1 # m2
      /\ \A r \in roots : count[m1] <= count[r]
      /\ \A r \in roots \ {m1} : count[m2] <= count[r]
      /\ count' = [count EXCEPT ![node] = count[m1] + count[m2]]
      /\ zero' = [zero EXCEPT ![node] = m1]
      /\ one' = [one EXCEPT ![node] = m2]
      /\ parent' = [parent EXCEPT ![m1] = node, ![m2] = node]
      /\ roots' = (roots \ {m1, m2}) \cup {node}
  BY DEF Merge, Lightest, MergedCount
<1>2. n # 0
  BY <1>1, FS_EmptySet DEF CountInv
<1>3. i < n - 1
  BY <1>1, <1>2 DEF LoopBound
<1>4. /\ node \in InnerNodes /\ node \in Nodes /\ node \notin Made
      /\ Occurring' = Occurring /\ Inner' = Inner \cup {node} /\ Made' = Made \cup {node}
  <2>1. node \in InnerNodes /\ node \in Nodes /\ node \notin Symbols
    BY <1>2, <1>3, Numbers
  <2>2. node \notin Inner
    BY Numbers DEF Inner
  <2>3. Inner' = Inner \cup {node}
    <3>1. i \in Nat /\ MaxSymbols \in Nat
      BY Numbers
    <3>2. MaxSymbols .. MaxSymbols + (i + 1) - 1 = (MaxSymbols .. MaxSymbols + i - 1) \cup {node}
      BY <3>1
    <3>. QED
      BY <1>1, <3>2 DEF Inner
  <2>4. Occurring' = Occurring
    BY <1>1 DEF Occurring
  <2>. QED
    BY <2>1, <2>2, <2>3, <2>4, Numbers DEF Made
<1>. QED
  BY <1>1, <1>2, <1>3, <1>4

(* A merge keeps the forest.                                                 *)
LEMMA MergeStep ==
  ASSUME TypeInv, CountInv, ForestInv, NEW m1 \in Nodes, NEW m2 \in Nodes, Merge(m1, m2)
  PROVE  Inv'
<1>. DEFINE node == MaxSymbols + i
<1>1. /\ pc = "merge" /\ pc' = "merge" /\ i < LoopBound /\ i' = i + 1
      /\ UNCHANGED <<table, n>>
      /\ m1 \in roots /\ m2 \in roots /\ m1 # m2
      /\ count' = [count EXCEPT ![node] = count[m1] + count[m2]]
      /\ zero' = [zero EXCEPT ![node] = m1]
      /\ one' = [one EXCEPT ![node] = m2]
      /\ parent' = [parent EXCEPT ![m1] = node, ![m2] = node]
      /\ roots' = (roots \ {m1, m2}) \cup {node}
  BY MergeFacts
<1>2. n # 0
  BY MergeFacts
<1>3. i < n - 1
  BY MergeFacts
<1>4. /\ node \in InnerNodes /\ node \in Nodes /\ node \notin Made
      /\ Occurring' = Occurring /\ Inner' = Inner \cup {node} /\ Made' = Made \cup {node}
  BY MergeFacts
<1>5. TypeInv'
  <2>1. count[m1] + count[m2] \in Nat
    BY DEF TypeInv
  <2>. QED
    BY <1>1, <1>4, <2>1 DEF TypeInv
<1>6. CountInv'
  <2>1. IsFiniteSet(roots \ {m1}) /\ Cardinality(roots \ {m1}) = n - i - 1
    BY <1>1, FS_RemoveElement, Numbers DEF CountInv
  <2>. DEFINE R == roots \ {m1}
  <2>2. m2 \in R /\ roots \ {m1, m2} = R \ {m2}
    BY <1>1
  <2>. HIDE DEF R
  <2>3. IsFiniteSet(R \ {m2}) /\ Cardinality(R \ {m2}) = n - i - 1 - 1
    BY <2>1, <2>2, FS_RemoveElement DEF R
  <2>4. node \notin R \ {m2}
    BY <1>4 DEF ForestInv, R
  <2>5. /\ IsFiniteSet((R \ {m2}) \cup {node})
        /\ Cardinality((R \ {m2}) \cup {node}) = n - i - 1 - 1 + 1
    BY <2>3, <2>4, FS_AddElement
  <2>6. IsFiniteSet(roots') /\ Cardinality(roots') = n - i - 1 - 1 + 1
    BY <1>1, <2>2, <2>5
  <2>7. n - i - 1 - 1 + 1 = n' - i'
    BY <1>1, Numbers
  <2>. QED
    BY <1>1, <1>2, <1>3, <1>4, <2>6, <2>7, Numbers DEF CountInv
<1>7. ForestInv'
  <2>0. /\ m1 \in Made /\ m2 \in Made /\ m1 < node /\ m2 < node /\ parent[m1] = NULL
        /\ parent[m2] = NULL /\ node # NULL /\ m1 # NULL /\ m2 # NULL
        /\ NULL \notin Nodes
    BY <1>1, Numbers DEF ForestInv, Made, Inner, NULL
  <2>1. roots' \subseteq Made'
    BY <1>1, <1>4 DEF ForestInv
  <2>2. /\ parent'[m1] = node /\ parent'[m2] = node
        /\ \A k \in Nodes \ {m1, m2} : parent'[k] = parent[k]
    BY <1>1 DEF TypeInv
  <2>3. /\ zero'[node] = m1 /\ one'[node] = m2
        /\ \A p \in InnerNodes \ {node} : zero'[p] = zero[p] /\ one'[p] = one[p]
    BY <1>1, <1>4 DEF TypeInv
  <2>4. parent[node] = NULL
    BY <1>4 DEF ForestInv
  <2>5. ASSUME NEW k \in Nodes
        PROVE  parent'[k] # NULL <=> k \in Made' \ roots'
    <3>1. CASE k \in {m1, m2}
      <4>1. parent'[k] = node /\ k \in Made' /\ k \notin roots'
        BY <1>1, <1>4, <2>0, <2>2, <3>1
      <4>. QED
        BY <2>0, <4>1
    <3>2. CASE k = node
      <4>1. parent'[k] = NULL /\ k \in roots'
        BY <1>1, <1>4, <2>0, <2>2, <2>4, <3>2
      <4>. QED
        BY <4>1
    <3>3. CASE k \notin {m1, m2, node}
      <4>1. parent'[k] = parent[k] /\ (parent[k] # NULL <=> k \in Made \ roots)
        BY <2>2, <3>3 DEF ForestInv
      <4>2. (k \in Made' <=> k \in Made) /\ (k \in roots' <=> k \in roots)
        BY <1>1, <1>4, <3>3
      <4>. QED
        BY <2>2, <3>3, <4>1, <4>2 DEF ForestInv
    <3>. QED
      BY <3>1, <3>2, <3>3
  <2>6. ASSUME NEW k \in Nodes, parent'[k] # NULL
        PROVE  /\ parent'[k] \in Inner'
               /\ k < parent'[k]
               /\ k \in {zero'[parent'[k]], one'[parent'[k]]}
    <3>1. CASE k \in {m1, m2}
      BY <1>4, <2>0, <2>2, <2>3, <3>1
    <3>2. CASE k \notin {m1, m2}
      <4>1. parent'[k] = parent[k] /\ parent[k] \in Inner
        BY <2>2, <2>6, <3>2 DEF ForestInv
      <4>2. parent[k] # node /\ parent[k] \in InnerNodes
        BY <1>4, <4>1, Numbers DEF Made
      <4>. QED
        BY <1>4, <2>3, <2>6, <4>1, <4>2 DEF ForestInv
    <3>. QED
      BY <3>1, <3>2
  <2>7. ASSUME NEW p \in Inner'
        PROVE  /\ zero'[p] \in Nodes /\ one'[p] \in Nodes
               /\ zero'[p] # one'[p]
               /\ parent'[zero'[p]] = p /\ parent'[one'[p]] = p
    <3>1. CASE p = node
      BY <1>1, <2>2, <2>3, <3>1
    <3>2. CASE p # node
      <4>1. p \in Inner /\ p \in InnerNodes /\ p # NULL
        BY <1>4, <3>2, Numbers DEF NULL
      <4>2. zero'[p] = zero[p] /\ one'[p] = one[p]
        BY <2>3, <3>2, <4>1
      <4>3. zero[p] \notin {m1, m2} /\ one[p] \notin {m1, m2}
        BY <2>0, <4>1 DEF ForestInv
      <4>. QED
        BY <2>2, <4>1, <4>2, <4>3 DEF ForestInv
    <3>. QED
      BY <3>1, <3>2
  <2>8. \A p \in InnerNodes \ Inner' : zero'[p] = NULL
    BY <1>4, <2>3 DEF ForestInv
  <2>. QED
    BY <2>1, <2>5, <2>6, <2>7, <2>8 DEF ForestInv
<1>8. CodeInv'
  BY <1>1 DEF CodeInv
<1>. QED
  BY <1>5, <1>6, <1>7, <1>8 DEF Inv

-------------------------------------------------------------------------------
(* Recursion over the nodes. *)

(* A set of natural numbers with a bound holds its maximum. *)
LEMMA GreatestElement ==
  ASSUME NEW N \in Nat, NEW T \in SUBSET (0 .. N), T # {}
  PROVE  \E x \in T : \A y \in T : y <= x
<1>. DEFINE U == {N - x : x \in T}
<1>1. U \in SUBSET Nat
  OBVIOUS
<1>2. U # {}
  OBVIOUS
<1>. DEFINE m == Min(U)
<1>3. m \in U /\ \A y \in U : m <= y
  BY <1>1, <1>2, LeastElement
<1>. HIDE DEF m
<1>4. PICK x \in T : m = N - x
  BY <1>3
<1>5. ASSUME NEW y \in T PROVE y <= x
  <2>1. N - y \in U
    OBVIOUS
  <2>2. m <= N - y
    BY <1>3, <2>1
  <2>. HIDE DEF U
  <2>3. x \in Int /\ y \in Int /\ N \in Int
    OBVIOUS
  <2>. QED
    BY <1>4, <2>2, <2>3
<1>. QED
  BY <1>5

(* A set that holds N and each predecessor of what it holds, holds 0.        *)
LEMMA NoLeastCounterexample ==
  ASSUME NEW N \in Nat, NEW T, N \in T, \A x \in 1 .. N : x \in T => x - 1 \in T
  PROVE  0 \in T
<1>. DEFINE U == T \cap (0 .. N)
            m == Min(U)
<1>1. U \in SUBSET Nat /\ U # {}
  OBVIOUS
<1>2. m \in U /\ \A y \in U : m <= y
  BY <1>1, LeastElement
<1>. HIDE DEF m
<1>. QED
  BY <1>2

(* The walk upwards ends: BitsUpwards satisfies its recursive definition.    *)
UpwardsFrom(f, j) ==
  f = [k \in Nodes \cap (j .. 2 * MaxSymbols - 1) |->
         IF parent[k] = NULL THEN << >>
         ELSE << IF one[parent[k]] = k THEN 1 ELSE 0 >> \o f[parent[k]]]

(* There is such a function of all the nodes.                                *)
LEMMA UpwardsExists ==
  ASSUME TypeInv, CountInv, ForestInv
  PROVE  \E f : UpwardsFrom(f, 0)
<1>. DEFINE N == 2 * MaxSymbols
            T == {x \in 0 .. N : \E h : UpwardsFrom(h, x)}
            Bit(k) == IF one[parent[k]] = k THEN 1 ELSE 0
<1>1. N \in Nat /\ Nodes = 0 .. N - 1
  BY Numbers
<1>2. N \in T
  <2>. DEFINE f == [k \in {} |-> 0]
  <2>1. Nodes \cap (N .. 2 * MaxSymbols - 1) = {}
    BY <1>1
  <2>2. UpwardsFrom(f, N)
    BY <2>1 DEF UpwardsFrom
  <2>. QED
    BY <1>1, <2>2
<1>3. ASSUME NEW j \in 1 .. N, j \in T
      PROVE  j - 1 \in T
  <2>1. PICK f : UpwardsFrom(f, j)
    BY <1>3
  <2>. DEFINE D == Nodes \cap (j .. N - 1)
              E == Nodes \cap (j - 1 .. N - 1)
              g == [k \in E |-> IF parent[k] = NULL THEN << >>
                                ELSE << Bit(k) >> \o f[parent[k]]]
  <2>2. f = [k \in D |-> IF parent[k] = NULL THEN << >> ELSE << Bit(k) >> \o f[parent[k]]]
    BY <2>1 DEF UpwardsFrom
  <2>3. D \subseteq E /\ \A k \in E : parent[k] # NULL => parent[k] \in D
    BY <1>1, <1>3, Numbers DEF ForestInv
  <2>4. \A k \in D : g[k] = f[k]
    BY <2>2, <2>3
  <2>5. g = [k \in E |-> IF parent[k] = NULL THEN << >> ELSE << Bit(k) >> \o g[parent[k]]]
    BY <2>3, <2>4
  <2>6. UpwardsFrom(g, j - 1)
    BY <2>5 DEF UpwardsFrom
  <2>. QED
    BY <1>1, <1>3, <2>6
<1>. HIDE DEF T, N
<1>4. 0 \in T
  BY <1>1, <1>2, <1>3, NoLeastCounterexample
<1>. USE DEF T
<1>. QED
  BY <1>4

(* A node's bits are its own bit and those of its parent.                    *)
LEMMA BitsUpwardsDef ==
  ASSUME TypeInv, CountInv, ForestInv, NEW k \in Nodes
  PROVE  BitsUpwards[k] = IF parent[k] = NULL THEN << >>
                          ELSE << IF one[parent[k]] = k THEN 1 ELSE 0 >> \o BitsUpwards[parent[k]]
<1>. DEFINE Is(h) == h = [q \in Nodes |-> IF parent[q] = NULL THEN << >>
                           ELSE << IF one[parent[q]] = q THEN 1 ELSE 0 >> \o h[parent[q]]]
<1>1. PICK f : Is(f)
  <2>1. Nodes \cap (0 .. 2 * MaxSymbols - 1) = Nodes
    BY Numbers
  <2>. QED
    BY <2>1, UpwardsExists DEF UpwardsFrom
<1>2. BitsUpwards = CHOOSE h : Is(h)
  BY DEF BitsUpwards
<1>. HIDE DEF Is
<1>3. Is(BitsUpwards)
  BY <1>1, <1>2
<1>. QED
  BY <1>3 DEF Is

(* The walk downwards ends: LeavesUnder satisfies its recursive definition.  *)
LeavesUpTo(f, j) ==
  f = [k \in Nodes \cap (0 .. j - 1) |->
         IF k \in Symbols THEN {k}
         ELSE IF zero[k] = NULL THEN {}
         ELSE f[zero[k]] \cup f[one[k]]]

(* The children of a node have smaller numbers.                              *)
LEMMA Children ==
  ASSUME TypeInv, CountInv, ForestInv, NEW k \in InnerNodes, zero[k] # NULL
  PROVE  /\ k \in Inner
         /\ zero[k] \in Nodes /\ one[k] \in Nodes /\ zero[k] < k /\ one[k] < k
         /\ zero[k] \in Made /\ one[k] \in Made
<1>1. k \in Inner
  BY DEF ForestInv
<1>2. /\ zero[k] \in Nodes /\ one[k] \in Nodes
      /\ parent[zero[k]] = k /\ parent[one[k]] = k
  BY <1>1 DEF ForestInv
<1>3. k # NULL
  BY Numbers DEF NULL
<1>. QED
  BY <1>1, <1>2, <1>3 DEF ForestInv

(* There is such a function of all the nodes.                                *)
LEMMA LeavesExist ==
  ASSUME TypeInv, CountInv, ForestInv
  PROVE  \E f : LeavesUpTo(f, 2 * MaxSymbols)
<1>. DEFINE N == 2 * MaxSymbols
            T == {x \in 0 .. N : \E h : LeavesUpTo(h, N - x)}
<1>1. N \in Nat /\ Nodes = 0 .. N - 1 /\ \A k \in Nodes \ Symbols : k \in InnerNodes
  BY Numbers
<1>2. N \in T
  <2>. DEFINE f == [k \in {} |-> 0]
  <2>1. Nodes \cap (0 .. N - N - 1) = {}
    BY <1>1
  <2>2. LeavesUpTo(f, N - N)
    BY <2>1 DEF LeavesUpTo
  <2>. QED
    BY <1>1, <2>2
<1>3. ASSUME NEW x \in 1 .. N, x \in T
      PROVE  x - 1 \in T
  <2>. DEFINE j == N - x
  <2>1. PICK f : LeavesUpTo(f, j)
    BY <1>3
  <2>. DEFINE D == Nodes \cap (0 .. j - 1)
              E == Nodes \cap (0 .. j)
              g == [k \in E |-> IF k \in Symbols THEN {k}
                                ELSE IF zero[k] = NULL THEN {}
                                ELSE f[zero[k]] \cup f[one[k]]]
  <2>2. f = [k \in D |-> IF k \in Symbols THEN {k}
                         ELSE IF zero[k] = NULL THEN {}
                         ELSE f[zero[k]] \cup f[one[k]]]
    BY <2>1 DEF LeavesUpTo
  <2>3. D \subseteq E
    BY <1>1, <1>3
  <2>4. ASSUME NEW k \in E, k \notin Symbols, zero[k] # NULL
        PROVE  zero[k] \in D /\ one[k] \in D
    <3>1. k \in InnerNodes /\ k \in 0 .. j
      BY <1>1, <2>4
    <3>2. zero[k] \in Nodes /\ one[k] \in Nodes /\ zero[k] < k /\ one[k] < k
      BY <2>4, <3>1, Children
    <3>. QED
      BY <1>1, <3>1, <3>2
  <2>5. \A k \in D : g[k] = f[k]
    BY <2>2, <2>3
  <2>6. g = [k \in E |-> IF k \in Symbols THEN {k}
                         ELSE IF zero[k] = NULL THEN {}
                         ELSE g[zero[k]] \cup g[one[k]]]
    BY <2>4, <2>5
  <2>7. N - (x - 1) - 1 = j
    BY <1>1
  <2>. HIDE DEF g
  <2>8. LeavesUpTo(g, N - (x - 1))
    BY <2>6, <2>7 DEF LeavesUpTo
  <2>. HIDE DEF N
  <2>9. x - 1 \in 0 .. N
    BY <1>1
  <2>. QED
    BY <2>8, <2>9
<1>. HIDE DEF T, N
<1>4. 0 \in T
  BY <1>1, <1>2, <1>3, NoLeastCounterexample
<1>. USE DEF T
<1>5. N - 0 = N
  BY <1>1
<1>. QED
  BY <1>4, <1>5 DEF N

(* The leaves under a node are those under its children.                     *)
LEMMA LeavesUnderDef ==
  ASSUME TypeInv, CountInv, ForestInv, NEW k \in Nodes
  PROVE  LeavesUnder[k] = IF k \in Symbols THEN {k}
                          ELSE IF zero[k] = NULL THEN {}
                          ELSE LeavesUnder[zero[k]] \cup LeavesUnder[one[k]]
<1>. DEFINE Is(h) == h = [q \in Nodes |->
                            IF q \in Symbols THEN {q}
                            ELSE IF zero[q] = NULL THEN {}
                            ELSE h[zero[q]] \cup h[one[q]]]
<1>1. PICK f : Is(f)
  <2>1. Nodes \cap (0 .. 2 * MaxSymbols - 1) = Nodes
    BY Numbers
  <2>. QED
    BY <2>1, LeavesExist DEF LeavesUpTo
<1>2. LeavesUnder = CHOOSE h : Is(h)
  BY DEF LeavesUnder
<1>. HIDE DEF Is
<1>3. Is(LeavesUnder)
  BY <1>1, <1>2
<1>. QED
  BY <1>3 DEF Is

-------------------------------------------------------------------------------
(* The tree. *)

(* The leaves under a node are symbols that occur, and those under an inner  *)
(* node are those under its children.                                        *)
LEMMA LeavesOccur ==
  ASSUME TypeInv, CountInv, ForestInv
  PROVE  /\ \A k \in Inner : LeavesUnder[k] = LeavesUnder[zero[k]] \cup LeavesUnder[one[k]]
         /\ \A k \in Made : LeavesUnder[k] \subseteq Occurring
<1>1. /\ Made \subseteq Nodes /\ Occurring \subseteq Symbols /\ Nodes \subseteq Nat
      /\ Inner \subseteq InnerNodes /\ Inner \cap Symbols = {}
      /\ NULL \notin Nat
  BY Numbers DEF Made, NULL
<1>2. ASSUME NEW k \in Inner
      PROVE  LeavesUnder[k] = LeavesUnder[zero[k]] \cup LeavesUnder[one[k]]
  <2>1. zero[k] \in Nodes /\ zero[k] # NULL /\ k \in Nodes /\ k \notin Symbols
    BY <1>1 DEF ForestInv, Made
  <2>. QED
    BY <2>1, LeavesUnderDef
<1>3. \A k \in Made : LeavesUnder[k] \subseteq Occurring
  <2>. DEFINE X == {k \in Made : ~ (LeavesUnder[k] \subseteq Occurring)}
              m == Min(X)
  <2>. SUFFICES ASSUME X # {} PROVE FALSE
    OBVIOUS
  <2>1. X \in SUBSET Nat
    BY <1>1
  <2>2. m \in X /\ \A k \in X : m <= k
    BY <2>1, LeastElement
  <2>. HIDE DEF m
  <2>3. m \in Inner
    <3>1. m \in Made /\ m \in Nodes /\ ~ (LeavesUnder[m] \subseteq Occurring)
      BY <1>1, <2>2
    <3>2. ASSUME m \in Occurring PROVE FALSE
      <4>1. m \in Symbols
        BY <1>1, <3>2
      <4>2. LeavesUnder[m] = {m}
        BY <3>1, <4>1, LeavesUnderDef
      <4>. QED
        BY <3>1, <3>2, <4>2
    <3>. QED
      BY <3>1, <3>2 DEF Made
  <2>4. zero[m] \in Made /\ one[m] \in Made /\ zero[m] < m /\ one[m] < m
    BY <1>1, <2>3, Children DEF ForestInv
  <2>5. zero[m] \notin X /\ one[m] \notin X
    BY <1>1, <2>1, <2>2, <2>4
  <2>. QED
    BY <1>2, <2>2, <2>3, <2>4, <2>5
<1>. QED
  BY <1>2, <1>3

(* The leaves under the root are the symbols that occur.                     *)
LEMMA LeavesUnderRoot ==
  ASSUME TypeInv, CountInv, ForestInv, NEW root, roots = {root}
  PROVE  LeavesUnder[root] = Occurring
<1>1. /\ Made \subseteq Nodes /\ Occurring \subseteq Symbols /\ Nodes \subseteq Nat
      /\ Inner \subseteq InnerNodes /\ Inner \cap Symbols = {} /\ root \in Made
      /\ NULL \notin Nat
  BY Numbers DEF Made, ForestInv, NULL
<1>2. ASSUME NEW k \in Inner
      PROVE  LeavesUnder[k] = LeavesUnder[zero[k]] \cup LeavesUnder[one[k]]
  BY LeavesOccur
<1>3. LeavesUnder[root] \subseteq Occurring
  BY <1>1, LeavesOccur
<1>4. ASSUME NEW s \in Occurring PROVE s \in LeavesUnder[root]
  <2>. DEFINE X == {k \in Made : s \in LeavesUnder[k]}
  <2>1. s \in X
    BY <1>1, LeavesUnderDef DEF Made
  <2>2. X \in SUBSET (0 .. 2 * MaxSymbols - 1) /\ 2 * MaxSymbols - 1 \in Nat
    <3>1. Nodes = 0 .. 2 * MaxSymbols - 1 /\ 2 * MaxSymbols - 1 \in Nat
      BY Numbers
    <3>. QED
      BY <1>1, <3>1
  <2>3. PICK k \in X : \A y \in X : y <= k
    BY <2>1, <2>2, GreatestElement
  <2>4. CASE k = root
    BY <2>4
  <2>5. CASE k # root
    <3>1. k \in Made /\ k \in Nodes /\ parent[k] # NULL
      BY <1>1, <2>5 DEF ForestInv
    <3>2. /\ parent[k] \in Inner /\ k < parent[k]
          /\ k \in {zero[parent[k]], one[parent[k]]}
      BY <3>1 DEF ForestInv
    <3>3. parent[k] \in X
      BY <1>2, <3>2 DEF Made
    <3>. QED
      BY <1>1, <2>2, <2>3, <3>2, <3>3
  <2>. QED
    BY <2>4, <2>5
<1>. QED
  BY <1>1, <1>3, <1>4

-------------------------------------------------------------------------------
(* The codes. *)

Bit(k) == IF one[parent[k]] = k THEN 1 ELSE 0

(* The bits collected from a node are a sequence, at most as long as there  *)
(* are inner nodes above the node's number.                                  *)
LEMMA BitsBound ==
  ASSUME TypeInv, CountInv, ForestInv, NEW k \in Nodes
  PROVE  /\ BitsUpwards[k] \in Seq({0, 1})
         /\ k \in Inner => Len(BitsUpwards[k]) <= MaxSymbols + i - 1 - k
<1>. DEFINE Good(q) == /\ BitsUpwards[q] \in Seq({0, 1})
                       /\ q \in Inner => Len(BitsUpwards[q]) <= MaxSymbols + i - 1 - q
            X == {q \in Nodes : ~ Good(q)}
<1>. SUFFICES ASSUME X # {} PROVE FALSE
  OBVIOUS
<1>1. X \in SUBSET (0 .. 2 * MaxSymbols - 1) /\ 2 * MaxSymbols - 1 \in Nat
  BY Numbers
<1>2. PICK m \in X : \A q \in X : q <= m
  BY <1>1, GreatestElement
<1>3. m \in Nodes /\ m \in Nat /\ Inner \subseteq Nodes /\ i \in Nat /\ MaxSymbols \in Nat
  BY <1>1, Numbers
<1>4. CASE parent[m] = NULL
  <2>1. BitsUpwards[m] = << >>
    BY <1>3, <1>4, BitsUpwardsDef
  <2>2. m \in Inner => 0 <= MaxSymbols + i - 1 - m
    BY <1>3 DEF Inner
  <2>3. Good(m)
    BY <2>1, <2>2
  <2>. QED
    BY <2>3
<1>5. CASE parent[m] # NULL
  <2>. DEFINE p == parent[m]
  <2>1. p \in Inner /\ m < p /\ p \in Nodes /\ p \in Nat
    <3>1. p \in Inner /\ m < p
      BY <1>3, <1>5 DEF ForestInv
    <3>2. Nodes \subseteq Nat
      BY Numbers
    <3>. QED
      BY <1>3, <3>1, <3>2
  <2>2. BitsUpwards[m] = << Bit(m) >> \o BitsUpwards[p] /\ Bit(m) \in {0, 1}
    BY <1>3, <1>5, BitsUpwardsDef DEF Bit
  <2>3. p \notin X
    BY <1>2, <1>3, <2>1
  <2>4. BitsUpwards[p] \in Seq({0, 1}) /\ Len(BitsUpwards[p]) <= MaxSymbols + i - 1 - p
    BY <2>1, <2>3
  <2>. DEFINE b == Bit(m)
              t == BitsUpwards[p]
  <2>. HIDE DEF b, t, p
  <2>5. << b >> \o t \in Seq({0, 1}) /\ Len(<< b >> \o t) = Len(t) + 1
    BY <2>2, <2>4 DEF b, t
  <2>6. Len(t) \in Nat /\ Len(t) <= MaxSymbols + i - 1 - p
    BY <2>4 DEF t
  <2>7. Len(t) + 1 <= MaxSymbols + i - 1 - m
    BY <1>3, <2>1, <2>6
  <2>8. BitsUpwards[m] = << b >> \o t
    BY <2>2 DEF b, t
  <2>. QED
    BY <2>5, <2>7, <2>8
<1>. QED
  BY <1>4, <1>5

(* The code of a node is that of its parent with one bit more.               *)
LEMMA CodeOfDef ==
  ASSUME TypeInv, CountInv, ForestInv, NEW k \in Nodes
  PROVE  /\ CodeOf(k) \in Seq({0, 1})
         /\ parent[k] = NULL => CodeOf(k) = << >>
         /\ parent[k] # NULL => /\ Bit(k) \in {0, 1}
                                /\ CodeOf(parent[k]) \in Seq({0, 1})
                                /\ CodeOf(k) = Append(CodeOf(parent[k]), Bit(k))
<1>1. \A q \in Nodes : CodeOf(q) \in Seq({0, 1}) /\ Len(CodeOf(q)) = Len(BitsUpwards[q])
  BY BitsBound, ReverseProperties DEF CodeOf
<1>2. ASSUME parent[k] = NULL PROVE CodeOf(k) = << >>
  <2>1. BitsUpwards[k] = << >> /\ Len(CodeOf(k)) = 0
    BY <1>1, <1>2, BitsUpwardsDef
  <2>. QED
    BY <1>1, <2>1
<1>3. ASSUME parent[k] # NULL
      PROVE  /\ Bit(k) \in {0, 1}
             /\ CodeOf(parent[k]) \in Seq({0, 1})
             /\ CodeOf(k) = Append(CodeOf(parent[k]), Bit(k))
  <2>1. parent[k] \in Nodes
    BY <1>3, Numbers DEF ForestInv
  <2>2. BitsUpwards[k] = << Bit(k) >> \o BitsUpwards[parent[k]] /\ Bit(k) \in {0, 1}
    BY <1>3, BitsUpwardsDef DEF Bit
  <2>3. BitsUpwards[parent[k]] \in Seq({0, 1})
    BY <2>1, BitsBound
  <2>. QED
    BY <1>1, <2>1, <2>2, <2>3, ReverseCons DEF CodeOf
<1>. QED
  BY <1>1, <1>2, <1>3

(* Different nodes of one tree have different codes.                         *)
LEMMA CodesDiffer ==
  ASSUME TypeInv, CountInv, ForestInv, NEW root, roots = {root},
         NEW a \in Made, NEW b \in Made, CodeOf(a) = CodeOf(b)
  PROVE  a = b
<1>. DEFINE X == {x \in Made : \E y \in Made : x # y /\ CodeOf(x) = CodeOf(y)}
<1>. SUFFICES ASSUME X # {} PROVE FALSE
  OBVIOUS
<1>1. Made \subseteq Nodes /\ Nodes \subseteq Nat
  BY Numbers DEF Made
<1>2. X \in SUBSET (0 .. 2 * MaxSymbols - 1) /\ 2 * MaxSymbols - 1 \in Nat
  <2>1. Nodes = 0 .. 2 * MaxSymbols - 1 /\ 2 * MaxSymbols - 1 \in Nat
    BY Numbers
  <2>. QED
    BY <1>1, <2>1
<1>3. PICK x \in X : \A q \in X : q <= x
  BY <1>2, GreatestElement
<1>4. PICK y \in Made : x # y /\ CodeOf(x) = CodeOf(y)
  OBVIOUS
<1>5. ASSUME NEW q \in Made
      PROVE  /\ parent[q] = NULL <=> q = root
             /\ parent[q] # NULL => /\ parent[q] \in Made /\ q < parent[q]
                                    /\ q \in {zero[parent[q]], one[parent[q]]}
  BY <1>1 DEF ForestInv, Made
<1>6. ASSUME NEW q \in Made
      PROVE  CodeOf(q) = << >> <=> parent[q] = NULL
  <2>1. CASE parent[q] = NULL
    BY <1>1, <2>1, CodeOfDef
  <2>2. CASE parent[q] # NULL
    BY <1>1, <2>2, CodeOfDef, AppendProperties
  <2>. QED
    BY <2>1, <2>2
<1>7. parent[x] # NULL /\ parent[y] # NULL
  BY <1>4, <1>5, <1>6
<1>8. CodeOf(parent[x]) = CodeOf(parent[y]) /\ Bit(x) = Bit(y)
  <2>1. /\ Bit(x) \in {0, 1} /\ CodeOf(parent[x]) \in Seq({0, 1})
        /\ CodeOf(x) = Append(CodeOf(parent[x]), Bit(x))
    BY <1>1, <1>7, CodeOfDef
  <2>2. /\ Bit(y) \in {0, 1} /\ CodeOf(parent[y]) \in Seq({0, 1})
        /\ CodeOf(y) = Append(CodeOf(parent[y]), Bit(y))
    BY <1>1, <1>7, CodeOfDef
  <2>. DEFINE u == CodeOf(parent[x])
              v == CodeOf(parent[y])
              c == Bit(x)
              d == Bit(y)
  <2>3. Append(u, c) = Append(v, d)
    BY <1>4, <2>1, <2>2
  <2>4. u \in Seq({0, 1}) /\ v \in Seq({0, 1}) /\ c \in {0, 1} /\ d \in {0, 1}
    BY <2>1, <2>2
  <2>. HIDE DEF u, v, c, d
  <2>5. u = v /\ c = d
    BY <2>3, <2>4, AppendInjective
  <2>. QED
    BY <2>5 DEF u, v, c, d
<1>9. parent[x] \in Made /\ parent[y] \in Made /\ x < parent[x]
  BY <1>5, <1>7
<1>10. parent[x] = parent[y]
  <2>1. parent[x] \in Nat /\ x \in Nat /\ ~ (parent[x] <= x)
    <3>1. x \in Made
      OBVIOUS
    <3>2. parent[x] \in Nat /\ x \in Nat
      BY <1>1, <1>9, <3>1, Zenon
    <3>. QED
      BY <1>9, <3>2
  <2>2. parent[x] \notin X
    BY <1>3, <2>1
  <2>. QED
    BY <1>8, <1>9, <2>2
<1>11. x = y
  BY <1>5, <1>7, <1>8, <1>10 DEF Bit
<1>. QED
  BY <1>4, <1>11

(* A leaf's code is a prefix of no other node's code.                        *)
LEMMA LeafNoPrefix ==
  ASSUME TypeInv, CountInv, ForestInv, NEW root, roots = {root},
         NEW s \in Occurring, NEW q \in Made, IsPrefix(CodeOf(s), CodeOf(q))
  PROVE  q = s
<1>. DEFINE Agrees(u, v) == Len(u) <= Len(v) /\ \A x \in 1 .. Len(u) : u[x] = v[x]
            X == {k \in Made : k # s /\ Agrees(CodeOf(s), CodeOf(k))}
<1>1. Made \subseteq Nodes /\ Nodes \subseteq Nat /\ s \in Made /\ s \notin Inner
  BY Numbers DEF Made, Inner
<1>2. \A k \in Made : CodeOf(k) \in Seq({0, 1})
  BY <1>1, CodeOfDef
<1>. SUFFICES ASSUME X # {} PROVE FALSE
  <2>1. Agrees(CodeOf(s), CodeOf(q))
    BY <1>1, <1>2, PrefixAgrees
  <2>. QED
    BY <2>1
<1>3. X \in SUBSET (0 .. 2 * MaxSymbols - 1) /\ 2 * MaxSymbols - 1 \in Nat
  <2>1. Nodes = 0 .. 2 * MaxSymbols - 1 /\ 2 * MaxSymbols - 1 \in Nat
    BY Numbers
  <2>. QED
    BY <1>1, <2>1
<1>4. PICK k \in X : \A y \in X : y <= k
  BY <1>3, GreatestElement
<1>5. k \in Made /\ k # s /\ Agrees(CodeOf(s), CodeOf(k))
  OBVIOUS
<1>6. parent[k] # NULL
  <2>. SUFFICES ASSUME parent[k] = NULL PROVE FALSE
    OBVIOUS
  <2>1. CodeOf(k) = << >>
    BY <1>1, <1>5, CodeOfDef
  <2>2. Len(CodeOf(s)) = 0
    BY <1>1, <1>2, <1>5, <2>1
  <2>3. CodeOf(s) = << >>
    BY <1>1, <1>2, <2>2
  <2>. QED
    BY <1>1, <1>5, <2>1, <2>3, CodesDiffer
<1>. DEFINE p == parent[k]
            u == CodeOf(s)
            v == CodeOf(p)
            b == Bit(k)
<1>7. p \in Inner /\ p \in Made /\ k < p
  BY <1>1, <1>5, <1>6 DEF ForestInv, Made
<1>8. u \in Seq({0, 1}) /\ v \in Seq({0, 1}) /\ b \in {0, 1} /\ CodeOf(k) = Append(v, b)
  BY <1>1, <1>2, <1>5, <1>6, <1>7, CodeOfDef
<1>9. ~ Agrees(u, v)
  <2>1. p # s /\ p \notin X
    BY <1>1, <1>3, <1>4, <1>7
  <2>. QED
    BY <1>7, <2>1
<1>10. u # Append(v, b)
  BY <1>1, <1>5, <1>8, CodesDiffer
<1>. HIDE DEF u, v, b, p
<1>11. Agrees(u, Append(v, b))
  BY <1>5, <1>8 DEF u
<1>. HIDE DEF X
<1>12. /\ Append(v, b) \in Seq({0, 1}) /\ Len(Append(v, b)) = Len(v) + 1
       /\ \A x \in 1 .. Len(v) : Append(v, b)[x] = v[x]
  BY <1>8, AppendProperties
<1>13. Len(u) \in Nat /\ Len(v) \in Nat
  BY <1>8
<1>14. CASE Len(u) <= Len(v)
  BY <1>9, <1>11, <1>12, <1>13, <1>14
<1>15. CASE Len(u) = Len(v) + 1
  <2>1. u = Append(v, b)
    BY <1>8, <1>11, <1>12, <1>15, SeqEqual
  <2>. QED
    BY <1>10, <2>1
<1>. QED
  BY <1>11, <1>12, <1>13, <1>14, <1>15

-------------------------------------------------------------------------------
(* Kraft's sum. *)

(* The number of bits of a node's code.                                      *)
Depth(k) == Len(CodeOf(k))

(* A child is one bit deeper than its parent, and no code that exists is as  *)
(* long as there are symbols.                                                *)
LEMMA Depths ==
  ASSUME TypeInv, CountInv, ForestInv, NEW k \in Made
  PROVE  /\ Depth(k) \in 0 .. MaxSymbols - 1
         /\ parent[k] = NULL => Depth(k) = 0
         /\ parent[k] # NULL => Depth(k) = Depth(parent[k]) + 1
<1>1. /\ Made \subseteq Nodes /\ k \in Nodes /\ i \in 0 .. MaxSymbols - 1
      /\ MaxSymbols \in Nat /\ Inner \subseteq Nodes
      /\ \A p \in Inner : p \in Nat /\ p >= MaxSymbols
  <2>1. \A p \in Inner : p \in Nat /\ p >= MaxSymbols
    BY Numbers DEF Inner
  <2>. QED
    BY <2>1, Numbers DEF Made
<1>2. ASSUME NEW p \in Inner PROVE Depth(p) \in Nat /\ Depth(p) <= i - 1
  <2>. DEFINE t == BitsUpwards[p]
  <2>1. t \in Seq({0, 1}) /\ Len(t) <= MaxSymbols + i - 1 - p /\ CodeOf(p) = Reverse(t)
    BY <1>1, BitsBound DEF CodeOf
  <2>. HIDE DEF t
  <2>2. Depth(p) = Len(t) /\ Len(t) \in Nat
    BY <2>1, ReverseProperties DEF Depth
  <2>. QED
    BY <1>1, <2>1, <2>2
<1>3. CASE parent[k] = NULL
  BY <1>1, <1>3, CodeOfDef DEF Depth
<1>4. CASE parent[k] # NULL
  <2>. DEFINE p == parent[k]
              u == CodeOf(p)
              b == Bit(k)
  <2>1. p \in Inner
    BY <1>1, <1>4 DEF ForestInv
  <2>2. u \in Seq({0, 1}) /\ b \in {0, 1} /\ CodeOf(k) = Append(u, b)
    BY <1>1, <1>4, CodeOfDef
  <2>3. Len(u) \in Nat /\ Len(u) <= i - 1
    BY <1>2, <2>1 DEF Depth
  <2>. HIDE DEF p, u, b
  <2>4. Len(Append(u, b)) = Len(u) + 1
    BY <2>2, AppendProperties
  <2>5. Depth(k) = Len(u) + 1 /\ Len(u) + 1 \in 0 .. MaxSymbols - 1
    BY <1>1, <2>2, <2>3, <2>4 DEF Depth
  <2>. QED
    BY <1>4, <2>5 DEF Depth, u, p
<1>. QED
  BY <1>3, <1>4

(* The code of a node begins the codes of the leaves under it.               *)
LEMMA CodeBeginsLeaves ==
  ASSUME TypeInv, CountInv, ForestInv, NEW k \in Made, NEW s \in LeavesUnder[k]
  PROVE  /\ Depth(k) <= Depth(s)
         /\ \A x \in 1 .. Depth(k) : CodeOf(k)[x] = CodeOf(s)[x]
<1>. DEFINE Begins(q, l) == /\ Depth(q) <= Depth(l)
                            /\ \A x \in 1 .. Depth(q) : CodeOf(q)[x] = CodeOf(l)[x]
            X == {q \in Made : \E l \in LeavesUnder[q] : ~ Begins(q, l)}
            m == Min(X)
<1>. SUFFICES ASSUME X # {} PROVE FALSE
  OBVIOUS
<1>1. /\ Made \subseteq Nodes /\ Nodes \subseteq Nat /\ Inner \subseteq InnerNodes
      /\ Occurring \subseteq Symbols /\ NULL \notin Nat
  BY Numbers DEF Made, NULL
<1>2. X \in SUBSET Nat
  BY <1>1
<1>3. m \in X /\ \A q \in X : m <= q
  BY <1>2, LeastElement
<1>. HIDE DEF m
<1>4. PICK l \in LeavesUnder[m] : ~ Begins(m, l)
  BY <1>3
<1>5. \A q \in Made : Depth(q) \in Nat
  BY Depths
<1>6. m \in Made /\ l \in Made
  BY <1>3, <1>4, LeavesOccur DEF Made
<1>7. CASE m \in Occurring
  <2>1. l = m
    <3>1. m \in Nodes /\ m \in Symbols
      BY <1>1, <1>6, <1>7
    <3>2. LeavesUnder[m] = {m}
      BY <3>1, LeavesUnderDef
    <3>. QED
      BY <1>4, <3>2
  <2>2. Begins(m, l)
    BY <1>5, <1>6, <2>1
  <2>. QED
    BY <1>4, <2>2
<1>8. CASE m \in Inner
  <2>1. /\ zero[m] \in Nodes /\ one[m] \in Nodes
        /\ parent[zero[m]] = m /\ parent[one[m]] = m
    BY <1>8 DEF ForestInv
  <2>2. /\ zero[m] \in Made /\ one[m] \in Made /\ zero[m] < m /\ one[m] < m
    BY <1>1, <1>8, <2>1, Children
  <2>3. PICK c \in {zero[m], one[m]} : l \in LeavesUnder[c]
    BY <1>4, <1>8, LeavesOccur
  <2>4. c \in Made /\ c \in Nodes /\ c < m /\ parent[c] = m /\ parent[c] # NULL
    BY <1>1, <2>1, <2>2, <1>6
  <2>5. c \notin X
    <3>1. ~ (m <= c)
      BY <1>1, <1>6, <2>4
    <3>. QED
      BY <1>3, <3>1
  <2>6. Begins(c, l)
    BY <2>3, <2>4, <2>5
  <2>. DEFINE u == CodeOf(m)
              b == Bit(c)
  <2>7. u \in Seq({0, 1}) /\ b \in {0, 1} /\ CodeOf(c) = Append(u, b)
    BY <2>4, CodeOfDef
  <2>. HIDE DEF u, b
  <2>8. Len(Append(u, b)) = Len(u) + 1 /\ \A x \in 1 .. Len(u) : Append(u, b)[x] = u[x]
    BY <2>7, AppendProperties
  <2>9. Depth(c) = Len(u) + 1 /\ \A x \in 1 .. Len(u) : CodeOf(c)[x] = u[x]
    BY <2>7, <2>8 DEF Depth
  <2>10. Len(u) = Depth(m) /\ CodeOf(m) = u
    BY DEF u, Depth
  <2>11. Depth(m) \in Nat /\ Depth(c) \in Nat /\ Depth(l) \in Nat
    BY <1>5, <1>6, <2>4
  <2>12. Begins(m, l)
    <3>1. Depth(m) <= Depth(l)
      BY <2>6, <2>9, <2>10, <2>11
    <3>2. ASSUME NEW x \in 1 .. Depth(m) PROVE CodeOf(m)[x] = CodeOf(l)[x]
      <4>1. x \in 1 .. Depth(c) /\ x \in 1 .. Len(u)
        BY <2>9, <2>10, <2>11
      <4>2. CodeOf(c)[x] = u[x]
        BY <2>9, <4>1
      <4>3. CodeOf(c)[x] = CodeOf(l)[x]
        BY <2>6, <4>1
      <4>. QED
        BY <2>10, <4>2, <4>3
    <3>. QED
      BY <3>1, <3>2
  <2>. QED
    BY <1>4, <2>12
<1>. QED
  BY <1>6, <1>7, <1>8 DEF Made

(* No leaf is under both children of a node.                                 *)
LEMMA ChildrenApart ==
  ASSUME TypeInv, CountInv, ForestInv, NEW k \in Inner
  PROVE  LeavesUnder[zero[k]] \cap LeavesUnder[one[k]] = {}
<1>. SUFFICES ASSUME NEW s \in LeavesUnder[zero[k]], s \in LeavesUnder[one[k]]
              PROVE  FALSE
  OBVIOUS
<1>. DEFINE z == zero[k]
            o == one[k]
            u == CodeOf(k)
<1>1. /\ z \in Nodes /\ o \in Nodes /\ z # o /\ parent[z] = k /\ parent[o] = k
      /\ k # NULL /\ z \in Made /\ o \in Made
  <2>1. k # NULL /\ k \in InnerNodes /\ NULL \notin Nodes
    BY Numbers DEF NULL
  <2>2. z \in Nodes /\ o \in Nodes /\ z # o /\ parent[z] = k /\ parent[o] = k
    BY DEF ForestInv
  <2>. QED
    BY <2>1, <2>2, Children
<1>2. Bit(z) = 0 /\ Bit(o) = 1
  BY <1>1 DEF Bit
<1>3. u \in Seq({0, 1}) /\ CodeOf(z) = Append(u, 0) /\ CodeOf(o) = Append(u, 1)
  BY <1>1, <1>2, CodeOfDef
<1>. HIDE DEF z, o, u
<1>4. /\ Len(Append(u, 0)) = Len(u) + 1 /\ Append(u, 0)[Len(u) + 1] = 0
      /\ Len(Append(u, 1)) = Len(u) + 1 /\ Append(u, 1)[Len(u) + 1] = 1
      /\ Len(u) + 1 \in 1 .. Len(u) + 1
  BY <1>3, AppendProperties
<1>5. /\ \A x \in 1 .. Depth(z) : CodeOf(z)[x] = CodeOf(s)[x]
      /\ \A x \in 1 .. Depth(o) : CodeOf(o)[x] = CodeOf(s)[x]
  BY <1>1, CodeBeginsLeaves DEF z, o
<1>6. Depth(z) = Len(u) + 1 /\ Depth(o) = Len(u) + 1
  BY <1>3, <1>4 DEF Depth
<1>7. CodeOf(s)[Len(u) + 1] = 0 /\ CodeOf(s)[Len(u) + 1] = 1
  BY <1>3, <1>4, <1>5, <1>6
<1>. QED
  BY <1>7

(* What the leaves under a node contribute to Kraft's sum is what the node   *)
(* would, were it a leaf.                                                    *)
LEMMA KraftUnder ==
  ASSUME TypeInv, CountInv, ForestInv, NEW k \in Made
  PROVE  SumFunctionOnSet([s \in Symbols |-> 2 ^ (MaxSymbols - Depth(s))], LeavesUnder[k])
           = 2 ^ (MaxSymbols - Depth(k))
<1>. DEFINE F == [s \in Symbols |-> 2 ^ (MaxSymbols - Depth(s))]
            X == {q \in Made : SumFunctionOnSet(F, LeavesUnder[q]) # 2 ^ (MaxSymbols - Depth(q))}
            m == Min(X)
<1>. SUFFICES ASSUME X # {} PROVE FALSE
  OBVIOUS
<1>1. /\ Made \subseteq Nodes /\ Nodes \subseteq Nat /\ Inner \subseteq InnerNodes
      /\ Occurring \subseteq Symbols /\ NULL \notin Nat /\ MaxSymbols \in Nat
      /\ Symbols \subseteq Nodes
  BY Numbers DEF Made, NULL
<1>2. IsFiniteSet(Occurring)
  <2>1. IsFiniteSet(Symbols)
    BY FS_Interval, MaxSymbolsAssumption DEF Symbols
  <2>. QED
    BY <1>1, <2>1, FS_Subset
<1>3. \A q \in Made : LeavesUnder[q] \subseteq Occurring /\ IsFiniteSet(LeavesUnder[q])
  BY <1>2, LeavesOccur, FS_Subset
<1>4. \A q \in Made : Depth(q) \in 0 .. MaxSymbols - 1
  BY Depths
<1>5. \A s \in Occurring : F[s] = 2 ^ (MaxSymbols - Depth(s)) /\ F[s] \in Int
  <2>1. ASSUME NEW s \in Occurring PROVE 2 ^ (MaxSymbols - Depth(s)) \in Int
    <3>. DEFINE e == MaxSymbols - Depth(s)
    <3>1. e \in Nat
      BY <1>1, <1>4 DEF Made
    <3>. HIDE DEF e
    <3>2. 2 ^ e \in Nat
      BY <3>1, PowerOfTwo
    <3>. QED
      BY <3>2 DEF e
  <2>. QED
    BY <1>1, <2>1
<1>6. m \in X /\ \A q \in X : m <= q
  <2>1. X \in SUBSET Nat
    BY <1>1
  <2>. QED
    BY <2>1, LeastElement
<1>. HIDE DEF m, F
<1>7. CASE m \in Occurring
  <2>1. LeavesUnder[m] = {m}
    BY <1>1, <1>7, LeavesUnderDef
  <2>2. IsFiniteSet({m}) /\ IsFiniteSet({m} \ {m}) /\ {m} \ {m} = {}
    BY FS_Singleton, FS_EmptySet
  <2>3. SumFunctionOnSet(F, {m}) = F[m] + SumFunctionOnSet(F, {m} \ {m})
    BY <1>5, <1>7, <2>2, SumRemove
  <2>4. SumFunctionOnSet(F, {m} \ {m}) = 0
    BY <2>2, SumChosen
  <2>5. SumFunctionOnSet(F, {m}) = F[m]
    BY <1>5, <1>7, <2>3, <2>4
  <2>. QED
    BY <1>5, <1>6, <1>7, <2>1, <2>5
<1>8. CASE m \in Inner
  <2>. DEFINE z == zero[m]
              o == one[m]
              A == LeavesUnder[z]
              B == LeavesUnder[o]
              e == MaxSymbols - Depth(m)
  <2>1. z \in Nodes /\ o \in Nodes /\ parent[z] = m /\ parent[o] = m /\ m \in Made /\ m # NULL
    BY <1>1, <1>8 DEF ForestInv, Made
  <2>2. z \in Made /\ o \in Made /\ z < m /\ o < m
    BY <1>1, <1>8, <2>1, Children
  <2>3. z \notin X /\ o \notin X
    <3>1. ~ (m <= z) /\ ~ (m <= o)
      <4>1. m \in Nat /\ z \in Nat /\ o \in Nat
        BY <1>1, <2>1
      <4>. HIDE DEF z, o
      <4>. QED
        BY <2>2, <4>1
    <3>. QED
      BY <1>6, <3>1
  <2>4. /\ SumFunctionOnSet(F, A) = 2 ^ (MaxSymbols - Depth(z))
        /\ SumFunctionOnSet(F, B) = 2 ^ (MaxSymbols - Depth(o))
    BY <2>2, <2>3
  <2>5. Depth(z) = Depth(m) + 1 /\ Depth(o) = Depth(m) + 1
    BY <2>1, <2>2, Depths
  <2>6. /\ MaxSymbols - Depth(z) = e - 1 /\ MaxSymbols - Depth(o) = e - 1
        /\ e - 1 \in Nat /\ (e - 1) + 1 = e
    BY <1>1, <1>4, <2>1, <2>2, <2>5
  <2>7. LeavesUnder[m] = A \cup B /\ A \cap B = {}
    BY <1>8, LeavesOccur, ChildrenApart
  <2>8. IsFiniteSet(A) /\ IsFiniteSet(B) /\ \A x \in A \cup B : F[x] \in Int
    BY <1>3, <1>5, <2>2
  <2>. HIDE DEF A, B, e, z, o
  <2>9. SumFunctionOnSet(F, A \cup B) = SumFunctionOnSet(F, A) + SumFunctionOnSet(F, B)
    BY <2>7, <2>8, SumUnion
  <2>10. 2 ^ ((e - 1) + 1) = 2 ^ (e - 1) + 2 ^ (e - 1)
    BY <2>6, PowerOfTwo
  <2>11. SumFunctionOnSet(F, LeavesUnder[m]) = 2 ^ e
    BY <2>4, <2>6, <2>7, <2>9, <2>10
  <2>. QED
    BY <1>6, <2>11 DEF e
<1>. QED
  BY <1>6, <1>7, <1>8 DEF Made

-------------------------------------------------------------------------------
(* The other steps. *)

(* The one root left stands first in the array, so the traversal from it     *)
(* reaches every symbol that occurs.                                         *)
LEMMA EncodeStep ==
  ASSUME Inv, BuildSymbolEncoder
  PROVE  Inv'
<1>1. /\ pc = "encode" /\ pc' = "done"
      /\ UNCHANGED <<table, n, i, roots, count, zero, one, parent>>
      /\ code' = [s \in UNION {LeavesUnder[r] : r \in Lightest(roots)} |-> CodeOf(s)]
  BY DEF BuildSymbolEncoder
<1>2. TypeInv /\ CountInv /\ ForestInv
  BY DEF Inv
<1>3. PICK root : roots = {root}
  <2>1. IsFiniteSet(roots) /\ Cardinality(roots) = n - i /\ n - i = 1
    BY <1>1, <1>2, Numbers DEF CountInv
  <2>. QED
    BY <2>1, FS_Singleton
<1>4. Lightest(roots) = {root}
  <2>1. root \in Nodes
    BY <1>2, <1>3, Numbers DEF ForestInv, Made
  <2>2. count[root] \in Nat
    BY <1>2, <2>1 DEF TypeInv
  <2>. QED
    BY <1>3, <2>2 DEF Lightest
<1>5. UNION {LeavesUnder[r] : r \in Lightest(roots)} = Occurring
  <2>1. LeavesUnder[root] = Occurring
    BY <1>2, <1>3, LeavesUnderRoot
  <2>. QED
    BY <1>4, <2>1
<1>6. TypeInv' /\ CountInv' /\ ForestInv'
  <2>1. Occurring' = Occurring /\ Inner' = Inner /\ Made' = Made
    BY <1>1 DEF Occurring, Inner, Made
  <2>2. TypeInv'
    BY <1>1, <1>2 DEF TypeInv
  <2>3. CountInv'
    BY <1>1, <1>2, <2>1 DEF CountInv
  <2>4. ForestInv'
    BY <1>1, <1>2, <2>1 DEF ForestInv
  <2>. QED
    BY <2>2, <2>3, <2>4
<1>7. CodeInv'
  <2>1. Occurring' = Occurring
    BY <1>1 DEF Occurring
  <2>2. ASSUME NEW s PROVE CodeOf(s)' = CodeOf(s)
    BY <1>1 DEF CodeOf, BitsUpwards
  <2>3. DOMAIN code' = Occurring /\ \A s \in Occurring : code'[s] = CodeOf(s)
    BY <1>1, <1>5
  <2>. QED
    BY <2>1, <2>2, <2>3 DEF CodeInv
<1>. QED
  BY <1>6, <1>7 DEF Inv

(* The steps that change the program counter only.                           *)
LEMMA OtherSteps ==
  ASSUME Inv, Crash \/ EndOfMerging \/ UNCHANGED vars
  PROVE  Inv'
<1>1. /\ UNCHANGED <<table, n, i, roots, count, zero, one, parent, code>>
      /\ \/ pc = "merge" /\ pc' = "crashed" /\ i < LoopBound /\ Cardinality(roots) < 2
         \/ pc = "merge" /\ pc' = "encode" /\ i >= LoopBound
         \/ pc' = pc
  BY DEF Crash, EndOfMerging, vars
<1>2. TypeInv /\ CountInv /\ ForestInv /\ CodeInv
  BY DEF Inv
<1>3. Occurring' = Occurring /\ Inner' = Inner /\ Made' = Made
  BY <1>1 DEF Occurring, Inner, Made
<1>4. TypeInv'
  BY <1>1, <1>2 DEF TypeInv
<1>5. ForestInv'
  BY <1>1, <1>2, <1>3 DEF ForestInv
<1>6. CountInv'
  <2>1. n \in Nat /\ i \in Nat /\ UIntMax \in Nat /\ UIntMax > MaxSymbols /\ MaxSymbols \in Nat
    BY <1>2, Numbers, UIntMaxAssumption
  <2>2. n = 0 => LoopBound = UIntMax
    BY DEF LoopBound
  <2>3. n # 0 => LoopBound = n - 1
    BY DEF LoopBound
  <2>4. CASE pc' = pc
    BY <1>1, <1>2, <1>3, <2>4 DEF CountInv
  <2>5. CASE pc = "merge" /\ pc' = "crashed" /\ i < LoopBound /\ Cardinality(roots) < 2
    <3>1. n = 0
      BY <1>2, <2>1, <2>3, <2>5 DEF CountInv
    <3>. QED
      BY <1>1, <1>2, <1>3, <2>5, <3>1 DEF CountInv
  <2>6. CASE pc = "merge" /\ pc' = "encode" /\ i >= LoopBound
    <3>1. n # 0
      BY <1>2, <2>1, <2>2, <2>6 DEF CountInv
    <3>2. i = n - 1
      BY <1>2, <2>1, <2>3, <2>6, <3>1 DEF CountInv
    <3>. QED
      BY <1>1, <1>2, <1>3, <2>6, <3>1, <3>2 DEF CountInv
  <2>. QED
    BY <1>1, <2>4, <2>5, <2>6
<1>7. CodeInv'
  <2>1. ASSUME NEW s PROVE CodeOf(s)' = CodeOf(s)
    BY <1>1 DEF CodeOf, BitsUpwards
  <2>2. pc' = "done" => pc = "done"
    BY <1>1
  <2>. QED
    BY <1>1, <1>2, <1>3, <2>1, <2>2 DEF CodeInv
<1>. QED
  BY <1>4, <1>5, <1>6, <1>7 DEF Inv

(* The invariant the theorems rest on.                                       *)
THEOREM InvAlways == Spec => []Inv
<1>1. Init => Inv
  BY InvInit
<1>2. Inv /\ [Next]_vars => Inv'
  <2>. SUFFICES ASSUME Inv, [Next]_vars PROVE Inv'
    OBVIOUS
  <2>1. ASSUME NEW m1 \in Nodes, NEW m2 \in Nodes, Merge(m1, m2) PROVE Inv'
    BY <2>1, MergeStep DEF Inv
  <2>2. CASE BuildSymbolEncoder
    BY <2>2, EncodeStep
  <2>3. CASE Crash \/ EndOfMerging \/ UNCHANGED vars
    BY <2>3, OtherSteps
  <2>4. CASE Terminated
    BY <2>4, OtherSteps DEF Terminated
  <2>. QED
    BY <2>1, <2>2, <2>3, <2>4 DEF Next
<1>. QED
  BY <1>1, <1>2, PTL DEF Spec

-------------------------------------------------------------------------------
(* The array of subtrees holds n - i of them before an iteration and the     *)
(* root alone at the end; a NULL entry is read for the table of an empty     *)
(* file only.                                                                *)
THEOREM OneTreeIsLeft == Spec => []SingleEntryLeft
<1>1. Inv => SingleEntryLeft
  <2>. SUFFICES ASSUME Inv PROVE SingleEntryLeft
    OBVIOUS
  <2>1. TypeInv /\ CountInv
    BY DEF Inv
  <2>2. pc = "merge" => Cardinality(roots) = n - i
    BY <2>1 DEF CountInv
  <2>3. pc \in {"encode", "done"} => Cardinality(roots) = 1
    BY <2>1, Numbers DEF CountInv
  <2>4. ASSUME pc = "crashed" PROVE Occurring = {}
    <3>1. IsFiniteSet(Occurring) /\ Cardinality(Occurring) = 0
      <4>1. IsFiniteSet(Symbols)
        BY FS_Interval, MaxSymbolsAssumption DEF Symbols
      <4>2. Occurring \in SUBSET Symbols
        BY DEF Occurring
      <4>. QED
        BY <2>1, <2>4, <4>1, <4>2, FS_Subset DEF CountInv
    <3>. QED
      BY <3>1, FS_EmptySet
  <2>. QED
    BY <2>2, <2>3, <2>4 DEF SingleEntryLeft
<1>. QED
  BY <1>1, InvAlways, PTL

(* A code is shorter than the number of symbols that occur, whatever the     *)
(* frequencies and however qsort orders equal ones: the byte that            *)
(* write_code_table gives to its length is enough.                           *)
THEOREM CodesAreShort == Spec => []LengthFitsByte
<1>1. Inv => LengthFitsByte
  <2>. SUFFICES ASSUME Inv, Done, NEW s \in Occurring PROVE Len(code[s]) < n
    BY DEF LengthFitsByte
  <2>1. TypeInv /\ CountInv /\ ForestInv /\ code[s] = CodeOf(s) /\ i = n - 1
    BY DEF Inv, Done, CodeInv, CountInv
  <2>2. /\ s \in Nodes /\ n \in Nat /\ n # 0 /\ MaxSymbols \in Nat
        /\ Inner \subseteq Nodes /\ \A p \in Inner : p >= MaxSymbols /\ p \in Nat
    <3>1. n # 0
      BY <2>1 DEF Done, CountInv
    <3>2. \A p \in Inner : p >= MaxSymbols /\ p \in Nat
      BY <2>1, Numbers DEF Inner
    <3>. QED
      BY <2>1, <3>1, <3>2, Numbers
  <2>3. CASE parent[s] = NULL
    BY <2>1, <2>2, <2>3, CodeOfDef
  <2>4. CASE parent[s] # NULL
    <3>. DEFINE p == parent[s]
                t == BitsUpwards[p]
                u == CodeOf(p)
                b == Bit(s)
    <3>1. p \in Inner
      BY <2>1, <2>2, <2>4 DEF ForestInv
    <3>2. t \in Seq({0, 1}) /\ Len(t) <= MaxSymbols + i - 1 - p /\ u = Reverse(t)
      BY <2>1, <2>2, <3>1, BitsBound DEF CodeOf
    <3>3. u \in Seq({0, 1}) /\ b \in {0, 1} /\ code[s] = Append(u, b)
      BY <2>1, <2>2, <2>4, CodeOfDef
    <3>. HIDE DEF p, t, u, b
    <3>4. Len(u) = Len(t) /\ Len(t) \in Nat
      BY <3>2, ReverseProperties
    <3>5. Len(Append(u, b)) = Len(u) + 1
      BY <3>3, AppendProperties
    <3>. QED
      BY <2>1, <2>2, <3>1, <3>2, <3>3, <3>4, <3>5
  <2>. QED
    BY <2>3, <2>4
<1>. QED
  BY <1>1, InvAlways, PTL

(* Every symbol that occurs gets a code, no code is a prefix of the code of  *)
(* another symbol, and the codes leave no gap: whatever follows in the       *)
(* compressed file, exactly one code begins it.                              *)
THEOREM CodesAreDecodable == Spec => []Decodable
<1>. DEFINE Facts == /\ TypeInv /\ CountInv /\ ForestInv
                     /\ DOMAIN code = Occurring /\ \A s \in Occurring : code[s] = CodeOf(s)
<1>1. ASSUME Inv, Done PROVE Facts /\ \E root \in Made : roots = {root}
  <2>1. Facts
    BY <1>1 DEF Inv, Done, CodeInv
  <2>2. IsFiniteSet(roots) /\ Cardinality(roots) = n - i /\ n - i = 1
    BY <1>1, <2>1, Numbers DEF Done, CountInv
  <2>3. PICK root : roots = {root}
    BY <2>2, FS_Singleton
  <2>4. root \in Made
    BY <2>1, <2>3 DEF ForestInv
  <2>. QED
    BY <2>1, <2>3, <2>4
<1>2. ASSUME Inv, Done, NEW s \in Occurring, NEW q \in Occurring, IsPrefix(code[s], code[q])
      PROVE  s = q
  <2>1. Facts
    BY <1>1, <1>2
  <2>2. PICK root : roots = {root}
    BY <1>1, <1>2
  <2>3. q \in Made /\ IsPrefix(CodeOf(s), CodeOf(q))
    BY <1>2, <2>1 DEF Made
  <2>. QED
    BY <2>1, <2>2, <2>3, LeafNoPrefix
<1>3. Inv => PrefixFree
  BY <1>1, <1>2 DEF PrefixFree
<1>4. ASSUME Inv, Done PROVE KraftSum(Lengths, Occurring) = 2 ^ MaxSymbols
  <2>. DEFINE F == [s \in Symbols |-> 2 ^ (MaxSymbols - Depth(s))]
              G == [s \in Occurring |-> 2 ^ (MaxSymbols - Lengths[s])]
  <2>1. Facts
    BY <1>1, <1>4
  <2>2. PICK root \in Made : roots = {root}
    BY <1>1, <1>4
  <2>3. Occurring \subseteq Symbols /\ MaxSymbols \in Nat
    BY <2>1, Numbers
  <2>4. IsFiniteSet(Occurring)
    <3>1. IsFiniteSet(Symbols)
      BY FS_Interval, MaxSymbolsAssumption DEF Symbols
    <3>. QED
      BY <2>3, <3>1, FS_Subset
  <2>5. \A s \in Occurring : G[s] = F[s]
    BY <2>1, <2>3 DEF Lengths, Depth
  <2>6. parent[root] = NULL
    <3>1. root \in Nodes
      BY <2>1, Numbers DEF Made
    <3>. QED
      BY <2>1, <2>2, <3>1 DEF ForestInv
  <2>7. Depth(root) = 0 /\ MaxSymbols - 0 = MaxSymbols
    BY <2>1, <2>3, <2>6, Depths
  <2>8. LeavesUnder[root] = Occurring
    BY <2>1, <2>2, LeavesUnderRoot
  <2>9. SumFunctionOnSet(F, Occurring) = 2 ^ MaxSymbols
    BY <2>1, <2>7, <2>8, KraftUnder
  <2>. HIDE DEF F, G
  <2>10. SumFunctionOnSet(G, Occurring) = SumFunctionOnSet(F, Occurring)
    BY <2>4, <2>5, SumSame
  <2>11. KraftSum(Lengths, Occurring) = SumFunctionOnSet(G, Occurring)
    BY DEF KraftSum, G
  <2>. QED
    BY <2>9, <2>10, <2>11
<1>5. Inv => Decodable
  BY <1>3, <1>4 DEF Decodable, NoGap
<1>. QED
  BY <1>5, InvAlways, PTL

-------------------------------------------------------------------------------
(* Lengths that a prefix code can have, and what they cost. *)

(* The lengths l for the elements of R satisfy Kraft's inequality.           *)
Feasible(l, R) == KraftSum(l, R) <= 2 ^ MaxSymbols

(* The bits that the elements of R take when element r occurs w[r] times.    *)
Cost(w, l, R) == SumFunctionOnSet([r \in R |-> w[r] * l[r]], R)

Lens(R) == [R -> 0 .. MaxSymbols]

(* The terms of the two sums.                                                *)
LEMMA Terms ==
  ASSUME NEW R, IsFiniteSet(R), NEW l \in Lens(R), NEW w, \A r \in R : w[r] \in Nat
  PROVE  /\ \A r \in R : /\ l[r] \in 0 .. MaxSymbols
                         /\ 2 ^ (MaxSymbols - l[r]) \in Nat \ {0}
                         /\ w[r] * l[r] \in Nat
         /\ KraftSum(l, R) \in Nat
         /\ Cost(w, l, R) \in Nat
<1>. DEFINE F == [r \in R |-> 2 ^ (MaxSymbols - l[r])]
            G == [r \in R |-> w[r] * l[r]]
<1>1. ASSUME NEW r \in R
      PROVE  /\ l[r] \in 0 .. MaxSymbols
             /\ 2 ^ (MaxSymbols - l[r]) \in Nat \ {0}
             /\ w[r] * l[r] \in Nat
  <2>1. l[r] \in 0 .. MaxSymbols /\ l[r] \in Nat /\ MaxSymbols - l[r] \in Nat
    BY MaxSymbolsAssumption DEF Lens
  <2>2. 2 ^ (MaxSymbols - l[r]) \in Nat \ {0}
    BY <2>1, PowersPositive
  <2>3. w[r] \in Nat
    OBVIOUS
  <2>4. w[r] * l[r] \in Nat
    BY <2>1, <2>3
  <2>. QED
    BY <2>1, <2>2, <2>4
<1>2. \A r \in R : F[r] \in Nat /\ G[r] \in Nat
  BY <1>1
<1>. HIDE DEF F, G
<1>3. SumFunctionOnSet(F, R) \in Nat /\ SumFunctionOnSet(G, R) \in Nat
  BY <1>2, SumIsNatural
<1>. QED
  BY <1>1, <1>3 DEF KraftSum, Cost, F, G

(* Another length for one element: what the sums become.                     *)
LEMMA OneLengthChanged ==
  ASSUME NEW R, IsFiniteSet(R), NEW l \in Lens(R), NEW w, \A r \in R : w[r] \in Nat,
         NEW e \in R, NEW x \in 0 .. MaxSymbols
  PROVE  LET q == [l EXCEPT ![e] = x]
         IN /\ q \in Lens(R)
            /\ KraftSum(q, R) = KraftSum(l, R) - 2 ^ (MaxSymbols - l[e]) + 2 ^ (MaxSymbols - x)
            /\ Cost(w, q, R) = Cost(w, l, R) - w[e] * l[e] + w[e] * x
<1>. DEFINE q == [l EXCEPT ![e] = x]
            F == [r \in R |-> 2 ^ (MaxSymbols - l[r])]
            G == [r \in R |-> w[r] * l[r]]
            F1 == [r \in R |-> 2 ^ (MaxSymbols - q[r])]
            G1 == [r \in R |-> w[r] * q[r]]
<1>1. q \in Lens(R) /\ q[e] = x /\ \A r \in R \ {e} : q[r] = l[r]
  BY DEF Lens
<1>. HIDE DEF q
<1>2. \A r \in R : F[r] \in Int /\ G[r] \in Int
  BY Terms
<1>3. \A r \in R : F1[r] \in Int /\ G1[r] \in Int
  BY <1>1, Terms
<1>4. \A r \in R \ {e} : F[r] = F1[r] /\ G[r] = G1[r]
  BY <1>1
<1>5. /\ F[e] = 2 ^ (MaxSymbols - l[e]) /\ F1[e] = 2 ^ (MaxSymbols - x)
      /\ G[e] = w[e] * l[e] /\ G1[e] = w[e] * x
  BY <1>1
<1>. HIDE DEF F, G, F1, G1
<1>6. SumFunctionOnSet(F1, R) = SumFunctionOnSet(F, R) - F[e] + F1[e]
  BY <1>2, <1>3, <1>4, SumReplaced
<1>7. SumFunctionOnSet(G1, R) = SumFunctionOnSet(G, R) - G[e] + G1[e]
  BY <1>2, <1>3, <1>4, SumReplaced
<1>8. /\ KraftSum(q, R) = SumFunctionOnSet(F1, R) /\ KraftSum(l, R) = SumFunctionOnSet(F, R)
      /\ Cost(w, q, R) = SumFunctionOnSet(G1, R) /\ Cost(w, l, R) = SumFunctionOnSet(G, R)
  BY DEF KraftSum, Cost, F, F1, G, G1
<1>. QED
  BY <1>1, <1>5, <1>6, <1>7, <1>8 DEF q

(* A single longest length can be one less: what the others leave in Kraft's *)
(* inequality is a multiple of twice its term.                               *)
LEMMA LongestIsShortened ==
  ASSUME NEW R, IsFiniteSet(R), NEW l \in Lens(R), Feasible(l, R),
         NEW B \in 1 .. MaxSymbols, NEW t \in R, l[t] = B, \A r \in R \ {t} : l[r] < B
  PROVE  Feasible([l EXCEPT ![t] = B - 1], R)
<1>. DEFINE F == [r \in R |-> 2 ^ (MaxSymbols - l[r])]
            d == 2 ^ (MaxSymbols - B)
            D == 2 ^ (MaxSymbols - B + 1)
            V == {D * k : k \in Nat}
            T == R \ {t}
            S == SumFunctionOnSet(F, T)
<1>1. /\ MaxSymbols \in Nat /\ MaxSymbols - B \in Nat /\ MaxSymbols - B + 1 \in Nat
      /\ B - 1 \in 0 .. MaxSymbols
  BY MaxSymbolsAssumption
<1>2. d \in Nat \ {0} /\ D = d + d /\ D \in Nat
  <2>. DEFINE e == MaxSymbols - B
  <2>1. e \in Nat
    BY <1>1
  <2>. HIDE DEF e
  <2>2. 2 ^ e \in Nat \ {0} /\ 2 ^ (e + 1) = 2 ^ e + 2 ^ e
    BY <2>1, PowerOfTwo, PowersPositive
  <2>. QED
    BY <2>2 DEF e
<1>3. ASSUME NEW r \in T PROVE F[r] \in V
  <2>. DEFINE a == MaxSymbols - B + 1
              b == B - 1 - l[r]
  <2>1. l[r] \in 0 .. MaxSymbols /\ l[r] < B
    BY DEF Lens
  <2>2. a \in Nat /\ b \in Nat /\ MaxSymbols - l[r] = a + b
    BY <1>1, <2>1
  <2>. HIDE DEF a, b
  <2>3. 2 ^ (a + b) = 2 ^ a * 2 ^ b /\ 2 ^ b \in Nat
    BY <2>2, PowerOfSum, PowerOfTwo
  <2>4. F[r] = 2 ^ (a + b)
    BY <2>2
  <2>. QED
    BY <2>3, <2>4 DEF a
<1>4. 2 ^ MaxSymbols \in V
  <2>. DEFINE a == MaxSymbols - B + 1
              b == B - 1
  <2>1. a \in Nat /\ b \in Nat /\ MaxSymbols = a + b
    BY <1>1
  <2>. HIDE DEF a, b
  <2>2. 2 ^ (a + b) = 2 ^ a * 2 ^ b /\ 2 ^ b \in Nat
    BY <2>1, PowerOfSum, PowerOfTwo
  <2>. QED
    BY <2>1, <2>2 DEF a
<1>5. F[t] = d
  OBVIOUS
<1>6. \A r \in R : F[r] \in Int
  <2>. DEFINE w == [r \in R |-> 0]
  <2>1. \A r \in R : w[r] \in Nat
    OBVIOUS
  <2>. HIDE DEF w
  <2>. QED
    BY <2>1, Terms
<1>7. SumFunctionOnSet(F, R) = F[t] + S
  BY <1>6, SumRemove
<1>8. KraftSum(l, R) = d + S
  BY <1>5, <1>7 DEF KraftSum
<1>. HIDE DEF F, d, D
<1>9. S \in V
  <2>1. IsFiniteSet(T)
    BY FS_Subset
  <2>2. 0 \in V
    BY <1>2
  <2>3. ASSUME NEW v \in V, NEW u \in V PROVE u + v \in V
    <3>1. PICK k \in Nat : v = D * k
      OBVIOUS
    <3>2. PICK j \in Nat : u = D * j
      OBVIOUS
    <3>3. u + v = D * (j + k) /\ j + k \in Nat
      BY <1>2, <3>1, <3>2
    <3>. QED
      BY <3>3
  <2>. HIDE DEF V, T
  <2>. QED
    BY <1>3, <2>1, <2>2, <2>3, SumInSet
<1>10. PICK k \in Nat : S = D * k
  BY <1>9
<1>11. PICK j \in Nat : 2 ^ MaxSymbols = D * j
  BY <1>4
<1>. HIDE DEF S, V
<1>12. d + D * k <= D * j
  BY <1>8, <1>10, <1>11 DEF Feasible
<1>13. k + 1 <= j
  <2>. SUFFICES ASSUME j <= k PROVE FALSE
    OBVIOUS
  <2>1. D * j <= D * k
    BY <1>2, ProductMonotonic
  <2>2. D * j \in Int /\ D * k \in Int /\ d > 0 /\ d \in Int
    BY <1>2
  <2>. QED
    BY <1>12, <2>1, <2>2
<1>14. D * (k + 1) <= D * j /\ D * (k + 1) = D * k + D
  <2>1. D * (k + 1) <= D * j
    BY <1>2, <1>13, ProductMonotonic
  <2>. QED
    BY <1>2, <2>1
<1>. DEFINE q == [l EXCEPT ![t] = B - 1]
            w == [r \in R |-> 0]
<1>15. \A r \in R : w[r] \in Nat
  OBVIOUS
<1>. HIDE DEF w
<1>16. KraftSum(q, R) = KraftSum(l, R) - 2 ^ (MaxSymbols - l[t]) + 2 ^ (MaxSymbols - (B - 1))
  BY <1>1, <1>15, OneLengthChanged
<1>17. KraftSum(q, R) = (d + S) - d + D
  <2>1. MaxSymbols - (B - 1) = MaxSymbols - B + 1
    BY <1>1
  <2>. QED
    BY <1>8, <1>16, <2>1 DEF d, D
<1>18. S \in Int /\ d \in Int /\ D \in Int
  BY <1>2, <1>10
<1>19. KraftSum(q, R) = S + D
  BY <1>17, <1>18
<1>. QED
  BY <1>10, <1>11, <1>14, <1>18, <1>19 DEF Feasible

(* With two elements or more some two of them can have the greatest length,  *)
(* at no greater cost.                                                       *)
LEMMA LongestTwice ==
  ASSUME NEW R, IsFiniteSet(R), NEW w, \A r \in R : w[r] \in Nat,
         NEW a \in R, NEW b \in R, a # b, NEW l \in Lens(R), Feasible(l, R)
  PROVE  \E q \in Lens(R), B \in 1 .. MaxSymbols, t \in R, u \in R :
           /\ Feasible(q, R) /\ Cost(w, q, R) <= Cost(w, l, R)
           /\ t # u /\ q[t] = B /\ q[u] = B /\ \A r \in R : q[r] <= B
<1>. DEFINE Good(q, B) == /\ Feasible(q, R) /\ Cost(w, q, R) <= Cost(w, l, R)
                          /\ \A r \in R : q[r] <= B
            U == {B \in Nat : \E q \in Lens(R) : Good(q, B)}
            B == Min(U)
<1>1. MaxSymbols \in Nat /\ \A q \in Lens(R) : \A r \in R : q[r] \in 0 .. MaxSymbols
  BY MaxSymbolsAssumption DEF Lens
<1>2. MaxSymbols \in U
  <2>1. Good(l, MaxSymbols)
    BY <1>1, Terms
  <2>. QED
    BY <1>1, <2>1
<1>3. B \in U /\ \A x \in U : B <= x
  BY <1>2, LeastElement
<1>. HIDE DEF B
<1>4. PICK q \in Lens(R) : Good(q, B)
  BY <1>3
<1>5. B \in 0 .. MaxSymbols
  BY <1>1, <1>2, <1>3
<1>6. B # 0
  <2>. SUFFICES ASSUME B = 0 PROVE FALSE
    OBVIOUS
  <2>. DEFINE F == [r \in R |-> 2 ^ (MaxSymbols - q[r])]
              T == R \ {a, b}
  <2>1. q[a] = 0 /\ q[b] = 0 /\ MaxSymbols - 0 = MaxSymbols
    BY <1>1, <1>4
  <2>2. F[a] = 2 ^ MaxSymbols /\ F[b] = 2 ^ MaxSymbols /\ 2 ^ MaxSymbols \in Nat \ {0}
    BY <1>1, <2>1, PowersPositive
  <2>3. \A r \in R : F[r] \in Nat
    BY Terms
  <2>4. IsFiniteSet(T)
    BY FS_Subset
  <2>5. SumFunctionOnSet(F, R) <= 2 ^ MaxSymbols
    BY <1>4 DEF Feasible, KraftSum
  <2>. HIDE DEF F
  <2>6. SumFunctionOnSet(F, R) = F[a] + F[b] + SumFunctionOnSet(F, T)
    BY <2>3, SumOfTwo
  <2>7. SumFunctionOnSet(F, T) \in Nat
    BY <2>3, <2>4, SumIsNatural
  <2>. QED
    BY <2>2, <2>5, <2>6, <2>7
<1>7. B \in 1 .. MaxSymbols /\ B - 1 \in Nat /\ B - 1 \in 0 .. MaxSymbols
  BY <1>1, <1>5, <1>6
<1>8. B - 1 \notin U
  BY <1>3, <1>7
<1>9. PICK t \in R : q[t] = B
  <2>. SUFFICES ASSUME \A r \in R : q[r] # B PROVE FALSE
    OBVIOUS
  <2>1. \A r \in R : q[r] <= B - 1
    BY <1>1, <1>4, <1>7
  <2>2. Good(q, B - 1)
    BY <1>4, <2>1
  <2>. QED
    BY <1>7, <1>8, <2>2
<1>10. PICK u \in R : u # t /\ q[u] = B
  <2>. SUFFICES ASSUME \A r \in R \ {t} : q[r] # B PROVE FALSE
    OBVIOUS
  <2>. DEFINE p == [q EXCEPT ![t] = B - 1]
  <2>1. \A r \in R \ {t} : q[r] < B /\ q[r] <= B - 1
    BY <1>1, <1>4, <1>7
  <2>2. Feasible(p, R)
    BY <1>4, <1>7, <1>9, <2>1, LongestIsShortened
  <2>3. p \in Lens(R) /\ Cost(w, p, R) = Cost(w, q, R) - w[t] * q[t] + w[t] * (B - 1)
    BY <1>7, OneLengthChanged
  <2>4. p[t] = B - 1 /\ \A r \in R \ {t} : p[r] = q[r]
    BY DEF Lens
  <2>. HIDE DEF p
  <2>5. \A r \in R : p[r] <= B - 1
    BY <1>7, <2>1, <2>4
  <2>6. w[t] * (B - 1) <= w[t] * q[t] /\ w[t] * (B - 1) \in Int /\ w[t] * q[t] \in Int
    <3>1. w[t] \in Nat /\ B - 1 \in Nat /\ B \in Nat /\ B - 1 <= B
      BY <1>7
    <3>2. w[t] * (B - 1) <= w[t] * B
      BY <3>1, ProductMonotonic
    <3>. QED
      BY <1>9, <3>1, <3>2
  <2>7. Cost(w, q, R) \in Nat /\ Cost(w, l, R) \in Nat /\ Cost(w, p, R) \in Nat
    BY <2>3, Terms
  <2>8. Cost(w, p, R) <= Cost(w, l, R)
    BY <1>4, <2>3, <2>6, <2>7
  <2>9. Good(p, B - 1)
    BY <2>2, <2>5, <2>8
  <2>. QED
    BY <1>7, <1>8, <2>3, <2>9
<1>. QED
  BY <1>4, <1>7, <1>9, <1>10

(* What is rarer may as well have the longer length.                         *)
LEMMA CrossProducts ==
  ASSUME NEW p \in Nat, NEW q \in Nat, NEW x \in Nat, NEW y \in Nat, p <= q, x <= y
  PROVE  p * y + q * x <= p * x + q * y
<1>1. PICK d \in Nat : q = p + d
  <2>1. q - p \in Nat /\ q = p + (q - p)
    OBVIOUS
  <2>. QED
    BY <2>1
<1>2. d * x <= d * y
  BY ProductMonotonic
<1>3. q * x = p * x + d * x /\ q * y = p * y + d * y
  BY <1>1
<1>4. p * x \in Nat /\ p * y \in Nat /\ d * x \in Nat /\ d * y \in Nat
  OBVIOUS
<1>. QED
  BY <1>2, <1>3, <1>4

(* Two elements exchange their lengths.                                      *)
LEMMA Exchanged ==
  ASSUME NEW R, IsFiniteSet(R), NEW w, \A r \in R : w[r] \in Nat,
         NEW a \in R, NEW t \in R, NEW l \in Lens(R), Feasible(l, R),
         w[a] <= w[t], l[a] <= l[t]
  PROVE  \E q \in Lens(R) :
           /\ q[a] = l[t] /\ q[t] = l[a] /\ \A r \in R \ {a, t} : q[r] = l[r]
           /\ Feasible(q, R) /\ Cost(w, q, R) <= Cost(w, l, R)
<1>. DEFINE h == [l EXCEPT ![a] = l[t]]
            q == [l EXCEPT ![a] = l[t], ![t] = l[a]]
<1>1. l[a] \in 0 .. MaxSymbols /\ l[t] \in 0 .. MaxSymbols /\ MaxSymbols \in Nat
  BY MaxSymbolsAssumption DEF Lens
<1>2. /\ q \in Lens(R) /\ q[a] = l[t] /\ q[t] = l[a] /\ \A r \in R \ {a, t} : q[r] = l[r]
  BY <1>1 DEF Lens
<1>3. CASE a = t
  <2>1. Cost(w, l, R) <= Cost(w, l, R)
    <3>1. Cost(w, l, R) \in Nat
      BY Terms
    <3>. QED
      BY <3>1
  <2>. QED
    BY <1>3, <2>1
<1>4. CASE a # t
  <2>1. h \in Lens(R) /\ h[t] = l[t] /\ q = [h EXCEPT ![t] = l[a]]
    BY <1>1, <1>4 DEF Lens
  <2>2. /\ KraftSum(h, R) = KraftSum(l, R) - 2 ^ (MaxSymbols - l[a]) + 2 ^ (MaxSymbols - l[t])
        /\ Cost(w, h, R) = Cost(w, l, R) - w[a] * l[a] + w[a] * l[t]
    BY <1>1, OneLengthChanged
  <2>. DEFINE g == [h EXCEPT ![t] = l[a]]
  <2>3. /\ KraftSum(g, R) = KraftSum(h, R) - 2 ^ (MaxSymbols - h[t]) + 2 ^ (MaxSymbols - l[a])
        /\ Cost(w, g, R) = Cost(w, h, R) - w[t] * h[t] + w[t] * l[a]
    <3>. HIDE DEF h
    <3>. QED
      BY <1>1, <2>1, OneLengthChanged
  <2>4. /\ KraftSum(l, R) \in Nat /\ Cost(w, l, R) \in Nat
        /\ 2 ^ (MaxSymbols - l[a]) \in Nat /\ 2 ^ (MaxSymbols - l[t]) \in Nat
    BY Terms
  <2>5. w[a] * l[t] + w[t] * l[a] <= w[a] * l[a] + w[t] * l[t]
    <3>1. w[a] \in Nat /\ w[t] \in Nat /\ l[a] \in Nat /\ l[t] \in Nat
      BY <1>1
    <3>. QED
      BY <3>1, CrossProducts
  <2>6. /\ w[a] * l[t] \in Nat /\ w[t] * l[a] \in Nat /\ w[a] * l[a] \in Nat /\ w[t] * l[t] \in Nat
    <3>1. w[a] \in Nat /\ w[t] \in Nat /\ l[a] \in Nat /\ l[t] \in Nat
      BY <1>1
    <3>. QED
      BY <3>1
  <2>7. KraftSum(g, R) = KraftSum(l, R)
    BY <2>1, <2>2, <2>3, <2>4
  <2>8. Cost(w, g, R) <= Cost(w, l, R)
    BY <2>1, <2>2, <2>3, <2>4, <2>5, <2>6
  <2>9. Feasible(g, R)
    BY <2>7 DEF Feasible
  <2>10. g = q
    BY <2>1
  <2>. HIDE DEF g, q
  <2>. QED
    BY <1>2, <2>8, <2>9, <2>10
<1>. QED
  BY <1>3, <1>4

(* The two rarest elements may as well have the greatest length.             *)
LEMMA RarestAreLongest ==
  ASSUME NEW R, IsFiniteSet(R), NEW w, \A r \in R : w[r] \in Nat,
         NEW a \in R, NEW b \in R, a # b, NEW l \in Lens(R), Feasible(l, R),
         \A r \in R : w[a] <= w[r], \A r \in R \ {a} : w[b] <= w[r]
  PROVE  \E q \in Lens(R), B \in 1 .. MaxSymbols :
           /\ Feasible(q, R) /\ Cost(w, q, R) <= Cost(w, l, R)
           /\ q[a] = B /\ q[b] = B
<1>1. PICK p \in Lens(R), B \in 1 .. MaxSymbols, t \in R, u \in R :
             /\ Feasible(p, R) /\ Cost(w, p, R) <= Cost(w, l, R)
             /\ t # u /\ p[t] = B /\ p[u] = B /\ \A r \in R : p[r] <= B
  BY LongestTwice
<1>2. PICK f \in Lens(R) :
        /\ f[a] = p[t] /\ f[t] = p[a] /\ \A r \in R \ {a, t} : f[r] = p[r]
        /\ Feasible(f, R) /\ Cost(w, f, R) <= Cost(w, p, R)
  <2>1. w[a] <= w[t] /\ p[a] <= p[t] /\ Feasible(p, R)
    BY <1>1
  <2>. QED
    BY <2>1, Exchanged
<1>3. PICK v \in R \ {a} : f[v] = B
  <2>1. CASE u = a
    BY <1>1, <1>2, <2>1
  <2>2. CASE u # a
    BY <1>1, <1>2, <2>2
  <2>. QED
    BY <2>1, <2>2
<1>4. f[a] = B /\ \A r \in R : f[r] <= B
  BY <1>1, <1>2
<1>5. PICK q \in Lens(R) :
        /\ q[b] = f[v] /\ \A r \in R \ {b, v} : q[r] = f[r]
        /\ Feasible(q, R) /\ Cost(w, q, R) <= Cost(w, f, R)
  <2>1. w[b] <= w[v] /\ f[b] <= f[v] /\ v \in R /\ Feasible(f, R)
    BY <1>2, <1>3, <1>4
  <2>. QED
    BY <2>1, Exchanged
<1>6. q[a] = B /\ q[b] = B
  BY <1>3, <1>4, <1>5
<1>7. Cost(w, q, R) <= Cost(w, l, R)
  <2>1. /\ Cost(w, q, R) \in Nat /\ Cost(w, f, R) \in Nat
        /\ Cost(w, p, R) \in Nat /\ Cost(w, l, R) \in Nat
    BY <1>2, <1>5, Terms
  <2>. QED
    BY <1>1, <1>2, <1>5, <2>1
<1>. QED
  BY <1>5, <1>6, <1>7

(* A merge of the two rarest elements loses nothing: they may as well have   *)
(* the same length, and the new element gets one that is one less.           *)
LEMMA MergeIsBest ==
  ASSUME NEW R, IsFiniteSet(R), NEW w, \A r \in R : w[r] \in Nat,
         NEW a \in R, NEW b \in R, a # b,
         \A r \in R : w[a] <= w[r], \A r \in R \ {a} : w[b] <= w[r],
         NEW c, c \notin R, NEW v, v[c] = w[a] + w[b], \A r \in R \ {a, b} : v[r] = w[r],
         NEW l \in Lens(R), Feasible(l, R)
  PROVE  LET Q == (R \ {a, b}) \cup {c}
         IN \E q \in Lens(Q) : Feasible(q, Q) /\ v[c] + Cost(v, q, Q) <= Cost(w, l, R)
<1>1. PICK g \in Lens(R), B \in 1 .. MaxSymbols :
          /\ Feasible(g, R) /\ Cost(w, g, R) <= Cost(w, l, R)
          /\ g[a] = B /\ g[b] = B
  BY RarestAreLongest
<1>. DEFINE T == R \ {a, b}
            Q == T \cup {c}
            q == [r \in Q |-> IF r = c THEN B - 1 ELSE g[r]]
            F == [r \in R |-> 2 ^ (MaxSymbols - g[r])]
            G == [r \in R |-> w[r] * g[r]]
            F1 == [r \in Q |-> 2 ^ (MaxSymbols - q[r])]
            G1 == [r \in Q |-> v[r] * q[r]]
<1>2. MaxSymbols \in Nat /\ MaxSymbols - B \in Nat /\ B - 1 \in 0 .. MaxSymbols /\ B \in Nat
      /\ B - 1 \in Nat /\ MaxSymbols - (B - 1) = (MaxSymbols - B) + 1
  BY MaxSymbolsAssumption
<1>3. q \in Lens(Q)
  BY <1>2 DEF Lens
<1>4. IsFiniteSet(T) /\ IsFiniteSet(Q) /\ c \in Q /\ Q \ {c} = T
  <2>1. IsFiniteSet(T)
    BY FS_Subset
  <2>2. IsFiniteSet(T \cup {c})
    <3>. HIDE DEF T
    <3>. QED
      BY <2>1, FS_AddElement
  <2>. QED
    BY <2>1, <2>2
<1>5. \A r \in Q : v[r] \in Nat
  <2>1. w[a] + w[b] \in Nat
    OBVIOUS
  <2>. QED
    BY <2>1
<1>6. q[c] = B - 1 /\ \A r \in T : q[r] = g[r] /\ v[r] = w[r] /\ r \in R /\ r \in Q
  OBVIOUS
<1>. HIDE DEF q, T, Q
<1>7. \A r \in R : F[r] \in Int /\ G[r] \in Int
  BY Terms
<1>8. \A r \in Q : F1[r] \in Int /\ G1[r] \in Int
  BY <1>3, <1>4, <1>5, Terms
<1>9. \A r \in T : F[r] = F1[r] /\ G[r] = G1[r]
  BY <1>6
<1>10. /\ F[a] = 2 ^ (MaxSymbols - B) /\ F[b] = 2 ^ (MaxSymbols - B)
       /\ F1[c] = 2 ^ (MaxSymbols - (B - 1))
       /\ G[a] = w[a] * B /\ G[b] = w[b] * B /\ G1[c] = (w[a] + w[b]) * (B - 1)
  BY <1>1, <1>4, <1>6
<1>11. /\ KraftSum(q, Q) = SumFunctionOnSet(F1, Q) /\ KraftSum(g, R) = SumFunctionOnSet(F, R)
       /\ Cost(v, q, Q) = SumFunctionOnSet(G1, Q) /\ Cost(w, g, R) = SumFunctionOnSet(G, R)
  BY DEF KraftSum, Cost
<1>. HIDE DEF F, G, F1, G1
<1>12. /\ SumFunctionOnSet(F, R) = F[a] + F[b] + SumFunctionOnSet(F, T)
       /\ SumFunctionOnSet(G, R) = G[a] + G[b] + SumFunctionOnSet(G, T)
       /\ SumFunctionOnSet(F, T) \in Int /\ SumFunctionOnSet(G, T) \in Int
  <2>. DEFINE R1 == R \ {a}
  <2>1. IsFiniteSet(R1) /\ b \in R1 /\ R1 \ {b} = T /\ R1 \subseteq R
    BY FS_Subset DEF T
  <2>2. /\ SumFunctionOnSet(F, R) = F[a] + SumFunctionOnSet(F, R1)
        /\ SumFunctionOnSet(G, R) = G[a] + SumFunctionOnSet(G, R1)
    BY <1>7, SumRemove
  <2>. HIDE DEF R1
  <2>3. /\ SumFunctionOnSet(F, R1) = F[b] + SumFunctionOnSet(F, T)
        /\ SumFunctionOnSet(G, R1) = G[b] + SumFunctionOnSet(G, T)
    BY <1>7, <2>1, SumRemove
  <2>4. SumFunctionOnSet(F, T) \in Int /\ SumFunctionOnSet(G, T) \in Int
    BY <1>4, <1>6, <1>7, SumIsInteger
  <2>5. F[a] \in Int /\ F[b] \in Int /\ G[a] \in Int /\ G[b] \in Int
    BY <1>7
  <2>. QED
    BY <2>2, <2>3, <2>4, <2>5
<1>13. /\ SumFunctionOnSet(F1, Q) = F1[c] + SumFunctionOnSet(F1, T)
       /\ SumFunctionOnSet(G1, Q) = G1[c] + SumFunctionOnSet(G1, T)
  BY <1>4, <1>8, SumRemove
<1>14. /\ SumFunctionOnSet(F, T) = SumFunctionOnSet(F1, T)
       /\ SumFunctionOnSet(G, T) = SumFunctionOnSet(G1, T)
  BY <1>4, <1>9, SumSame
<1>15. F1[c] = F[a] + F[b]
  <2>. DEFINE e == MaxSymbols - B
  <2>1. e \in Nat
    BY <1>2
  <2>. HIDE DEF e
  <2>2. 2 ^ (e + 1) = 2 ^ e + 2 ^ e
    BY <2>1, PowerOfTwo
  <2>. QED
    BY <1>2, <1>10, <2>2 DEF e
<1>16. G[a] + G[b] = v[c] + G1[c]
  <2>1. w[a] \in Nat /\ w[b] \in Nat /\ B \in Nat
    BY <1>2
  <2>2. w[a] * B + w[b] * B = (w[a] + w[b]) + (w[a] + w[b]) * (B - 1)
    BY <2>1
  <2>. QED
    BY <1>10, <2>2
<1>17. F[a] \in Int /\ F[b] \in Int /\ G[a] \in Int /\ G[b] \in Int /\ G1[c] \in Int /\ v[c] \in Int
  BY <1>4, <1>5, <1>7, <1>8
<1>18. KraftSum(q, Q) = KraftSum(g, R) /\ Cost(w, g, R) = v[c] + Cost(v, q, Q)
  BY <1>11, <1>12, <1>13, <1>14, <1>15, <1>16, <1>17
<1>19. v[c] + Cost(v, q, Q) <= Cost(w, l, R)
  BY <1>1, <1>18
<1>. QED
  BY <1>1, <1>3, <1>18, <1>19 DEF Feasible, Q, T

-------------------------------------------------------------------------------
(* The invariant of optimality. *)

(* A node counts what its children count, a leaf its symbol.                 *)
WeightInv ==
  /\ \A s \in Occurring : count[s] = table[s]
  /\ \A p \in Inner : count[p] = count[zero[p]] + count[one[p]]

(* What the merges so far cost: each adds a bit to the code of every symbol  *)
(* under the new node.                                                       *)
Merged == SumFunctionOnSet(count, Inner)

(* Whatever lengths the symbols could have, the roots can have lengths with  *)
(* which the tree is as good.                                                *)
AsGood(bits, C, w, R) ==
  \E q \in Lens(R) : Feasible(q, R) /\ C + Cost(w, q, R) <= bits
BestInv ==
  \A l \in Lens(Occurring) :
    Feasible(l, Occurring) => AsGood(Cost(table, l, Occurring), Merged, count, roots)

(* The roots and the counts are such that the sums are numbers.              *)
LEMMA Sums ==
  ASSUME TypeInv, CountInv, ForestInv
  PROVE  /\ IsFiniteSet(Occurring) /\ IsFiniteSet(Inner) /\ IsFiniteSet(Made) /\ IsFiniteSet(roots)
         /\ \A k \in Made : count[k] \in Nat
         /\ \A r \in roots : count[r] \in Nat
         /\ \A s \in Occurring : table[s] \in Nat
         /\ Merged \in Nat
<1>1. Occurring \subseteq Symbols /\ Symbols = 0 .. MaxSymbols - 1 /\ Made \subseteq Nodes
      /\ i \in Nat /\ MaxSymbols \in Nat /\ roots \subseteq Made
  BY Numbers DEF ForestInv, Made
<1>2. IsFiniteSet(Occurring)
  <2>1. IsFiniteSet(Symbols)
    BY <1>1, FS_Interval
  <2>. QED
    BY <1>1, <2>1, FS_Subset
<1>3. IsFiniteSet(Inner)
  <2>1. MaxSymbols \in Int /\ MaxSymbols + i - 1 \in Int
    BY <1>1
  <2>. QED
    BY <2>1, FS_Interval DEF Inner
<1>4. IsFiniteSet(Made)
  BY <1>2, <1>3, FS_Union DEF Made
<1>5. IsFiniteSet(roots)
  BY DEF CountInv
<1>6. \A k \in Made : count[k] \in Nat
  BY <1>1 DEF TypeInv
<1>7. \A s \in Occurring : table[s] \in Nat
  BY <1>1 DEF TypeInv
<1>8. Merged \in Nat
  <2>1. \A k \in Inner : count[k] \in Nat
    BY <1>6 DEF Made
  <2>. QED
    BY <1>3, <2>1, SumIsNatural DEF Merged
<1>. QED
  BY <1>1, <1>2, <1>3, <1>4, <1>5, <1>6, <1>7, <1>8

(* At first the roots are the symbols.                                       *)
LEMMA BestInit == Init => WeightInv /\ BestInv
<1>. SUFFICES ASSUME Init PROVE WeightInv /\ BestInv
  OBVIOUS
<1>1. TypeInv /\ CountInv /\ ForestInv
  BY InvInit DEF Inv
<1>2. Inner = {} /\ roots = Occurring /\ Occurring \subseteq Nodes
  <2>1. Inner = {}
    BY MaxSymbolsAssumption DEF Init, Inner
  <2>. QED
    BY <2>1 DEF Init, Occurring, Nodes
<1>3. \A s \in Occurring : count[s] = table[s]
  BY <1>2 DEF Init
<1>4. WeightInv
  BY <1>2, <1>3 DEF WeightInv
<1>5. Merged = 0
  BY <1>2, FS_EmptySet, SumChosen DEF Merged
<1>6. ASSUME NEW l \in Lens(Occurring), Feasible(l, Occurring)
      PROVE  AsGood(Cost(table, l, Occurring), Merged, count, roots)
  <2>. DEFINE F == [r \in Occurring |-> count[r] * l[r]]
              G == [r \in Occurring |-> table[r] * l[r]]
  <2>1. F = G
    BY <1>3
  <2>2. Cost(count, l, Occurring) = Cost(table, l, Occurring)
    BY <2>1 DEF Cost
  <2>3. Cost(table, l, Occurring) \in Nat
    BY <1>1, Sums, Terms
  <2>4. 0 + Cost(count, l, Occurring) <= Cost(table, l, Occurring)
    BY <2>2, <2>3
  <2>. QED
    BY <1>2, <1>5, <1>6, <2>4 DEF AsGood
<1>. QED
  BY <1>4, <1>6 DEF BestInv

(* A merge of two roots of least count loses nothing.                        *)
LEMMA BestMerge ==
  ASSUME TypeInv, CountInv, ForestInv, WeightInv, BestInv,
         NEW m1 \in Nodes, NEW m2 \in Nodes, Merge(m1, m2)
  PROVE  WeightInv' /\ BestInv'
<1>. DEFINE node == MaxSymbols + i
            Q == (roots \ {m1, m2}) \cup {node}
<1>1. /\ table' = table /\ Occurring' = Occurring /\ Inner' = Inner \cup {node}
      /\ m1 \in roots /\ m2 \in roots /\ m1 # m2
      /\ \A r \in roots : count[m1] <= count[r]
      /\ \A r \in roots \ {m1} : count[m2] <= count[r]
      /\ count' = [count EXCEPT ![node] = count[m1] + count[m2]]
      /\ zero' = [zero EXCEPT ![node] = m1]
      /\ one' = [one EXCEPT ![node] = m2]
      /\ roots' = Q
      /\ node \in InnerNodes /\ node \in Nodes /\ node \notin Made
  BY MergeFacts
<1>2. /\ count'[node] = count[m1] + count[m2]
      /\ \A k \in Nodes \ {node} : count'[k] = count[k]
      /\ zero'[node] = m1 /\ one'[node] = m2
      /\ \A p \in InnerNodes \ {node} : zero'[p] = zero[p] /\ one'[p] = one[p]
  BY <1>1 DEF TypeInv
<1>3. /\ Occurring \subseteq Made /\ Inner \subseteq Made /\ Made \subseteq Nodes
      /\ roots \subseteq Made /\ Inner \subseteq InnerNodes /\ NULL \notin InnerNodes
  BY Numbers DEF Made, ForestInv, NULL
<1>. HIDE DEF node
<1>4. WeightInv'
  <2>1. ASSUME NEW s \in Occurring PROVE count'[s] = table'[s]
    BY <1>1, <1>2, <1>3 DEF WeightInv
  <2>2. ASSUME NEW p \in Inner PROVE count'[p] = count'[zero'[p]] + count'[one'[p]]
    <3>1. p # node /\ p \in InnerNodes /\ p # NULL /\ p \in Nodes
      BY <1>1, <1>3
    <3>2. zero'[p] = zero[p] /\ one'[p] = one[p] /\ count'[p] = count[p]
      BY <1>2, <3>1
    <3>3. zero[p] \in Made /\ one[p] \in Made
      <4>1. zero[p] \in Nodes
        BY DEF ForestInv
      <4>2. zero[p] # NULL
        BY <4>1, Numbers DEF NULL
      <4>. QED
        BY <3>1, <4>2, Children
    <3>. QED
      BY <1>1, <1>2, <1>3, <3>2, <3>3 DEF WeightInv
  <2>3. count'[node] = count'[zero'[node]] + count'[one'[node]]
    BY <1>1, <1>2, <1>3
  <2>. QED
    BY <1>1, <2>1, <2>2, <2>3 DEF WeightInv
<1>5. Merged' = Merged + count'[node]
  <2>. DEFINE I == Inner \cup {node}
  <2>1. IsFiniteSet(I) /\ I \ {node} = Inner /\ node \in I
    BY <1>1, <1>3, Sums, FS_AddElement
  <2>2. \A x \in I : count'[x] \in Int
    BY <1>1, <1>2, <1>3, Sums
  <2>. HIDE DEF I
  <2>3. SumFunctionOnSet(count', I) = count'[node] + SumFunctionOnSet(count', Inner)
    BY <2>1, <2>2, SumRemove
  <2>4. SumFunctionOnSet(count', Inner) = SumFunctionOnSet(count, Inner)
    <3>1. \A x \in Inner : count'[x] = count[x]
      BY <1>1, <1>2, <1>3
    <3>. QED
      BY <3>1, Sums, SumSame
  <2>5. Merged' = SumFunctionOnSet(count', I)
    BY <1>1 DEF Merged, I
  <2>6. Merged \in Nat /\ count'[node] \in Int
    BY <2>1, <2>2, Sums
  <2>. QED
    BY <2>3, <2>4, <2>5, <2>6 DEF Merged
<1>6. ASSUME NEW l \in Lens(Occurring), Feasible(l, Occurring)
      PROVE  AsGood(Cost(table, l, Occurring), Merged', count', Q)
  <2>1. PICK f \in Lens(roots) :
          Feasible(f, roots) /\ Merged + Cost(count, f, roots) <= Cost(table, l, Occurring)
    BY <1>6 DEF BestInv, AsGood
  <2>2. IsFiniteSet(roots) /\ \A r \in roots : count[r] \in Nat
    BY Sums
  <2>. DEFINE w == count
              v == count'
  <2>3. /\ \A r \in roots : w[r] \in Nat
        /\ \A r \in roots : w[m1] <= w[r]
        /\ \A r \in roots \ {m1} : w[m2] <= w[r]
        /\ v[node] = w[m1] + w[m2] /\ \A r \in roots \ {m1, m2} : v[r] = w[r]
    BY <1>1, <1>2, <1>3, <2>2
  <2>4. node \notin roots
    BY <1>1, <1>3
  <2>. HIDE DEF v, w
  <2>5. PICK q \in Lens(Q) : Feasible(q, Q) /\ v[node] + Cost(v, q, Q) <= Cost(w, f, roots)
    BY <1>1, <2>1, <2>2, <2>3, <2>4, MergeIsBest
  <2>6. /\ Merged \in Nat /\ Cost(w, f, roots) \in Nat /\ Cost(table, l, Occurring) \in Nat
    BY <2>2, <2>3, Sums, Terms
  <2>7. v[node] \in Nat /\ Cost(v, q, Q) \in Nat
    <3>1. v[node] \in Nat
      BY <1>1, <2>3
    <3>2. IsFiniteSet(Q) /\ \A r \in Q : v[r] \in Nat
      <4>1. IsFiniteSet(roots \ {m1, m2})
        BY <2>2, FS_Subset
      <4>. QED
        BY <2>3, <3>1, <4>1, FS_AddElement
    <3>. HIDE DEF Q
    <3>. QED
      BY <3>1, <3>2, Terms
  <2>8. Merged' = Merged + v[node] /\ Merged + Cost(w, f, roots) <= Cost(table, l, Occurring)
    BY <1>5, <2>1 DEF v, w
  <2>9. Merged' + Cost(v, q, Q) <= Cost(table, l, Occurring)
    BY <2>5, <2>6, <2>7, <2>8
  <2>. QED
    BY <2>5, <2>9 DEF AsGood, v
<1>7. BestInv'
  <2>1. ASSUME NEW l \in Lens(Occurring), Feasible(l, Occurring)
        PROVE  AsGood(Cost(table', l, Occurring'), Merged', count', roots')
    BY <1>1, <1>6, <2>1
  <2>. QED
    BY <1>1, <2>1 DEF BestInv
<1>. QED
  BY <1>4, <1>7

(* The merges lose nothing, and the codes do not touch the tree.             *)
LEMMA BestAlways == Spec => [](WeightInv /\ BestInv)
<1>1. Init => WeightInv /\ BestInv
  BY BestInit
<1>2. Inv /\ WeightInv /\ BestInv /\ [Next]_vars => (WeightInv /\ BestInv)'
  <2>. SUFFICES ASSUME Inv, WeightInv, BestInv, [Next]_vars PROVE WeightInv' /\ BestInv'
    OBVIOUS
  <2>1. ASSUME NEW m1 \in Nodes, NEW m2 \in Nodes, Merge(m1, m2) PROVE WeightInv' /\ BestInv'
    BY <2>1, BestMerge DEF Inv
  <2>2. ASSUME UNCHANGED <<table, i, roots, count, zero, one>> PROVE WeightInv' /\ BestInv'
    <3>1. Occurring' = Occurring /\ Inner' = Inner
      BY <2>2 DEF Occurring, Inner
    <3>2. Merged' = Merged
      BY <2>2, <3>1 DEF Merged
    <3>3. WeightInv'
      BY <2>2, <3>1 DEF WeightInv
    <3>4. BestInv'
      BY <2>2, <3>1, <3>2 DEF BestInv
    <3>. QED
      BY <3>3, <3>4
  <2>3. CASE Crash \/ EndOfMerging \/ BuildSymbolEncoder \/ Terminated \/ UNCHANGED vars
    BY <2>2, <2>3 DEF Crash, EndOfMerging, BuildSymbolEncoder, Terminated, vars
  <2>. QED
    BY <2>1, <2>3 DEF Next
<1>. QED
  BY <1>1, <1>2, InvAlways, PTL DEF Spec

(* The roots there were before iteration j: the nodes of smaller numbers     *)
(* whose parents are not among them.                                         *)
RootsAt(j) == {k \in Made : /\ k < MaxSymbols + j
                            /\ parent[k] = NULL \/ parent[k] >= MaxSymbols + j}

(* What a merge took away: the root of iteration j - 1 and the children it   *)
(* got.                                                                      *)
LEMMA RootsBefore ==
  ASSUME TypeInv, CountInv, ForestInv, NEW j \in 1 .. i
  PROVE  LET p == MaxSymbols + j - 1
         IN /\ p \in Inner /\ p \in RootsAt(j)
            /\ zero[p] \in RootsAt(j - 1) /\ one[p] \in RootsAt(j - 1) /\ zero[p] # one[p]
            /\ parent[zero[p]] = p /\ parent[one[p]] = p
            /\ RootsAt(j - 1) \ {zero[p], one[p]} = RootsAt(j) \ {p}
<1>. DEFINE p == MaxSymbols + j - 1
            z == zero[p]
            o == one[p]
<1>1. /\ i \in Nat /\ MaxSymbols \in Nat \ {0} /\ j \in Nat /\ 1 <= j /\ j <= i
      /\ Made \subseteq Nodes /\ Nodes \subseteq Nat /\ NULL \notin Nat
      /\ Inner \subseteq InnerNodes
      /\ \A k \in Inner : k \in Nat /\ k >= MaxSymbols
      /\ \A k \in Occurring : k \in Nat /\ k < MaxSymbols
  <2>1. \A k \in Inner : k \in Nat /\ k >= MaxSymbols
    BY Numbers DEF Inner
  <2>2. \A k \in Occurring : k \in Nat /\ k < MaxSymbols
    BY Numbers
  <2>. QED
    BY <2>1, <2>2, Numbers DEF Made, NULL
<1>2. p \in Inner /\ p \in Made /\ p \in Nodes /\ p # NULL /\ p \in Nat
  BY <1>1 DEF Inner, Made
<1>3. /\ z \in Nodes /\ o \in Nodes /\ z # o /\ parent[z] = p /\ parent[o] = p
      /\ z \in Made /\ o \in Made /\ z < p /\ o < p
  <2>1. z \in Nodes /\ o \in Nodes /\ z # o /\ parent[z] = p /\ parent[o] = p
    BY <1>2 DEF ForestInv
  <2>2. zero[p] # NULL /\ p \in InnerNodes
    BY <1>1, <1>2, <2>1
  <2>. QED
    BY <2>1, <2>2, Children
<1>4. \A k \in Made : parent[k] # NULL => parent[k] \in Nat /\ k < parent[k]
  BY <1>1 DEF ForestInv
<1>5. \A k \in Nodes : parent[k] = p => k \in {z, o}
  BY <1>2 DEF ForestInv
<1>. HIDE DEF z, o
<1>6. p \in RootsAt(j)
  <2>1. p < MaxSymbols + j /\ (parent[p] # NULL => parent[p] >= MaxSymbols + j)
    BY <1>1, <1>2, <1>4
  <2>. QED
    BY <1>2, <2>1 DEF RootsAt
<1>7. z \in RootsAt(j - 1) /\ o \in RootsAt(j - 1)
  <2>1. MaxSymbols + (j - 1) = p
    BY <1>1
  <2>2. z < MaxSymbols + (j - 1) /\ o < MaxSymbols + (j - 1) /\ p >= MaxSymbols + (j - 1)
    BY <1>1, <1>2, <1>3, <2>1
  <2>. QED
    BY <1>3, <2>2 DEF RootsAt
<1>8. ASSUME NEW k \in RootsAt(j - 1), k \notin {z, o} PROVE k \in RootsAt(j) /\ k # p
  <2>1. /\ k \in Made /\ k \in Nat /\ k < MaxSymbols + (j - 1)
        /\ parent[k] = NULL \/ parent[k] >= MaxSymbols + (j - 1)
    BY <1>1 DEF RootsAt
  <2>2. k < MaxSymbols + j /\ k # p
    BY <1>1, <2>1
  <2>3. parent[k] # NULL => parent[k] >= MaxSymbols + j
    <3>1. parent[k] # p
      BY <1>1, <1>5, <1>8, <2>1
    <3>. QED
      BY <1>1, <1>4, <2>1, <3>1
  <2>. QED
    BY <2>1, <2>2, <2>3 DEF RootsAt
<1>9. ASSUME NEW k \in RootsAt(j), k # p PROVE k \in RootsAt(j - 1) /\ k \notin {z, o}
  <2>1. /\ k \in Made /\ k \in Nat /\ k < MaxSymbols + j
        /\ parent[k] = NULL \/ parent[k] >= MaxSymbols + j
    BY <1>1 DEF RootsAt
  <2>2. k < MaxSymbols + (j - 1)
    BY <1>1, <1>9, <2>1
  <2>3. parent[k] # NULL => parent[k] >= MaxSymbols + (j - 1)
    BY <1>1, <1>4, <2>1
  <2>4. k \notin {z, o}
    BY <1>1, <1>2, <1>3, <2>1
  <2>. QED
    BY <2>1, <2>2, <2>3, <2>4 DEF RootsAt
<1>10. RootsAt(j - 1) \ {z, o} = RootsAt(j) \ {p}
  BY <1>8, <1>9
<1>. QED
  BY <1>2, <1>3, <1>6, <1>7, <1>10 DEF z, o

(* The bits of all the codes are what the merges cost: each inner node adds  *)
(* one bit to the codes of the symbols under it.                             *)
LEMMA CostOfTree ==
  ASSUME TypeInv, CountInv, ForestInv, WeightInv, NEW root \in Made, roots = {root}
  PROVE  SumFunctionOnSet([s \in Occurring |-> table[s] * Depth(s)], Occurring) = Merged
<1>. DEFINE D == [k \in Made |-> count[k] * Depth(k)]
            From(j) == {p \in Inner : p >= MaxSymbols + j}
            T == {j \in 0 .. i : SumFunctionOnSet(D, RootsAt(j)) = SumFunctionOnSet(count, From(j))}
<1>1. /\ i \in Nat /\ MaxSymbols \in Nat /\ Made \subseteq Nodes
      /\ \A k \in Inner : k \in Nat /\ k >= MaxSymbols /\ k < MaxSymbols + i
      /\ \A k \in Occurring : k \in Nat /\ k < MaxSymbols
  <2>1. \A k \in Inner : k \in Nat /\ k >= MaxSymbols /\ k < MaxSymbols + i
    BY Numbers DEF Inner
  <2>2. \A k \in Occurring : k \in Nat /\ k < MaxSymbols
    BY Numbers
  <2>. QED
    BY <2>1, <2>2, Numbers DEF Made
<1>2. \A k \in Made : D[k] \in Int /\ count[k] \in Nat /\ Depth(k) \in Nat
  <2>1. ASSUME NEW k \in Made
        PROVE  count[k] * Depth(k) \in Int /\ count[k] \in Nat /\ Depth(k) \in Nat
    <3>1. count[k] \in Nat /\ Depth(k) \in Nat
      BY <1>1, Depths, Sums
    <3>. QED
      BY <3>1
  <2>. QED
    BY <2>1
<1>3. \A j : IsFiniteSet(RootsAt(j)) /\ RootsAt(j) \subseteq Made
  BY Sums, FS_Subset DEF RootsAt
<1>4. \A j : IsFiniteSet(From(j)) /\ From(j) \subseteq Made /\ From(j) \subseteq Inner
  <2>1. Inner \subseteq Made
    BY DEF Made
  <2>. QED
    BY <2>1, Sums, FS_Subset
<1>5. i \in T
  <2>1. RootsAt(i) = {root}
    <3>1. \A k \in Made : k < MaxSymbols + i
      BY <1>1 DEF Made
    <3>2. \A k \in Made : parent[k] # NULL => ~ (parent[k] >= MaxSymbols + i)
      BY <1>1 DEF ForestInv
    <3>3. \A k \in Made : parent[k] = NULL <=> k = root
      BY <1>1 DEF ForestInv
    <3>. QED
      BY <3>1, <3>2, <3>3 DEF RootsAt
  <2>2. From(i) = {}
    BY <1>1
  <2>3. Depth(root) = 0
    <3>1. parent[root] = NULL
      BY <1>1 DEF ForestInv
    <3>. QED
      BY <3>1, Depths
  <2>4. D[root] = 0
    BY <1>2, <2>3
  <2>. HIDE DEF D, From
  <2>5. SumFunctionOnSet(D, {root}) = D[root] + SumFunctionOnSet(D, {root} \ {root})
    BY <1>2, FS_Singleton, SumRemove
  <2>6. SumFunctionOnSet(D, {root} \ {root}) = 0 /\ SumFunctionOnSet(count, {}) = 0
    <3>1. {root} \ {root} = {}
      OBVIOUS
    <3>2. SumFunctionOnSet(D, {}) = 0 /\ SumFunctionOnSet(count, {}) = 0
      BY FS_EmptySet, SumChosen
    <3>. QED
      BY <3>1, <3>2
  <2>7. SumFunctionOnSet(D, RootsAt(i)) = SumFunctionOnSet(count, From(i))
    BY <2>1, <2>2, <2>4, <2>5, <2>6
  <2>8. i \in 0 .. i
    BY <1>1
  <2>. QED
    BY <2>7, <2>8
<1>6. ASSUME NEW j \in 1 .. i, j \in T PROVE j - 1 \in T
  <2>. DEFINE p == MaxSymbols + j - 1
              z == zero[p]
              o == one[p]
              R == RootsAt(j - 1)
              Rest == RootsAt(j) \ {p}
  <2>1. /\ p \in Inner /\ p \in RootsAt(j) /\ z \in R /\ o \in R /\ z # o
        /\ parent[z] = p /\ parent[o] = p /\ R \ {z, o} = Rest
    BY RootsBefore
  <2>2. p \in Made /\ z \in Made /\ o \in Made /\ p # NULL
    <3>1. NULL \notin Inner
      BY Numbers DEF NULL
    <3>. QED
      BY <1>3, <2>1, <3>1 DEF Made
  <2>3. Depth(z) = Depth(p) + 1 /\ Depth(o) = Depth(p) + 1 /\ count[p] = count[z] + count[o]
    BY <2>1, <2>2, Depths DEF WeightInv
  <2>4. From(j - 1) = From(j) \cup {p} /\ p \notin From(j)
    BY <1>1, <2>1
  <2>5. D[p] = count[p] * Depth(p) /\ D[z] = count[z] * Depth(z) /\ D[o] = count[o] * Depth(o)
    BY <2>2
  <2>6. D[z] + D[o] = D[p] + count[p]
    <3>1. count[z] \in Nat /\ count[o] \in Nat /\ Depth(p) \in Nat
      BY <1>2, <2>2
    <3>2. count[z] * (Depth(p) + 1) = count[z] * Depth(p) + count[z]
      BY <3>1
    <3>3. count[o] * (Depth(p) + 1) = count[o] * Depth(p) + count[o]
      BY <3>1
    <3>4. (count[z] + count[o]) * Depth(p) = count[z] * Depth(p) + count[o] * Depth(p)
      BY <3>1
    <3>5. count[z] * Depth(p) \in Nat /\ count[o] * Depth(p) \in Nat
      BY <3>1
    <3>. QED
      BY <2>3, <2>5, <3>1, <3>2, <3>3, <3>4, <3>5
  <2>7. SumFunctionOnSet(D, RootsAt(j)) = SumFunctionOnSet(count, From(j))
    BY <1>6
  <2>8. IsFiniteSet(From(j)) /\ \A x \in From(j) \cup {p} : count[x] \in Int
    <3>1. IsFiniteSet(From(j)) /\ From(j) \subseteq Made /\ p \in Made
      BY <1>4, <2>2
    <3>2. \A x \in Made : count[x] \in Int
      BY <1>2
    <3>. HIDE DEF From, p
    <3>. QED
      BY <3>1, <3>2
  <2>. HIDE DEF D, From, z, o, p
  <2>9. SumFunctionOnSet(D, RootsAt(j)) = D[p] + SumFunctionOnSet(D, Rest)
    <3>1. \A x \in RootsAt(j) : D[x] \in Int
      BY <1>2, <1>3
    <3>. QED
      BY <1>3, <2>1, <3>1, SumRemove
  <2>10. /\ SumFunctionOnSet(D, R) = D[z] + D[o] + SumFunctionOnSet(D, R \ {z, o})
         /\ SumFunctionOnSet(D, R \ {z, o}) \in Int
    <3>1. (\A x \in R : D[x] \in Int) /\ IsFiniteSet(R)
      BY <1>2, <1>3
    <3>. HIDE DEF R
    <3>. QED
      BY <2>1, <3>1, SumOfTwo
  <2>11. SumFunctionOnSet(count, From(j) \cup {p}) = count[p] + SumFunctionOnSet(count, From(j))
    <3>. DEFINE Q == From(j) \cup {p}
    <3>1. IsFiniteSet(Q) /\ p \in Q /\ Q \ {p} = From(j) /\ \A x \in Q : count[x] \in Int
      BY <2>4, <2>8, FS_AddElement
    <3>. HIDE DEF Q
    <3>2. SumFunctionOnSet(count, Q) = count[p] + SumFunctionOnSet(count, Q \ {p})
      BY <3>1, SumRemove
    <3>. QED
      BY <3>1, <3>2 DEF Q
  <2>12. /\ D[p] \in Int /\ D[z] \in Int /\ D[o] \in Int /\ count[p] \in Int
    BY <1>2, <2>2
  <2>13. SumFunctionOnSet(D, R) = SumFunctionOnSet(count, From(j - 1))
    <3>1. SumFunctionOnSet(D, R) = D[z] + D[o] + SumFunctionOnSet(D, Rest)
      BY <2>1, <2>10
    <3>2. SumFunctionOnSet(D, Rest) \in Int
      BY <2>1, <2>10
    <3>3. SumFunctionOnSet(count, From(j - 1)) = count[p] + (D[p] + SumFunctionOnSet(D, Rest))
      BY <2>4, <2>7, <2>9, <2>11
    <3>. HIDE DEF R, Rest
    <3>. QED
      BY <2>6, <2>12, <3>1, <3>2, <3>3
  <2>14. j - 1 \in 0 .. i
    BY <1>1
  <2>. QED
    BY <2>13, <2>14
<1>7. 0 \in T
  <2>. HIDE DEF T
  <2>. QED
    BY <1>1, <1>5, <1>6, NoLeastCounterexample
<1>8. RootsAt(0) = Occurring /\ From(0) = Inner
  <2>1. From(0) = Inner
    BY <1>1
  <2>2. \A k \in Occurring : k \in Made /\ k < MaxSymbols + 0
    BY <1>1 DEF Made
  <2>3. \A k \in Made : k < MaxSymbols + 0 => k \in Occurring
    BY <1>1 DEF Made
  <2>4. \A k \in Made : parent[k] # NULL => parent[k] >= MaxSymbols + 0
    BY <1>1 DEF ForestInv
  <2>. QED
    BY <2>1, <2>2, <2>3, <2>4 DEF RootsAt
<1>. DEFINE E == [s \in Occurring |-> table[s] * Depth(s)]
<1>9. \A s \in Occurring : E[s] = D[s]
  BY DEF WeightInv, Made
<1>10. SumFunctionOnSet(D, Occurring) = SumFunctionOnSet(count, Inner)
  BY <1>7, <1>8
<1>. HIDE DEF D, E
<1>11. SumFunctionOnSet(E, Occurring) = SumFunctionOnSet(D, Occurring)
  BY <1>9, Sums, SumSame
<1>. QED
  BY <1>10, <1>11 DEF Merged, E

(* No assignment of lengths that a prefix code can have encodes the input in *)
(* fewer bits than the codes of calculate_huffman_codes, whatever the        *)
(* frequencies and however qsort orders equal ones.                          *)
THEOREM CodesAreOptimal == Spec => []Optimal
<1>1. Inv /\ WeightInv /\ BestInv => Optimal
  <2>. SUFFICES ASSUME Inv, WeightInv, BestInv, Done,
                       NEW l \in [Occurring -> 0 .. n - 1],
                       KraftSum(l, Occurring) <= 2 ^ MaxSymbols
                PROVE  SumFunctionOnSet([s \in Occurring |-> table[s] * Lengths[s]], Occurring)
                         <= SumFunctionOnSet([s \in Occurring |-> table[s] * l[s]], Occurring)
    BY DEF Optimal
  <2>1. /\ TypeInv /\ CountInv /\ ForestInv
        /\ DOMAIN code = Occurring /\ \A s \in Occurring : code[s] = CodeOf(s)
    BY DEF Inv, Done, CodeInv
  <2>2. PICK root : roots = {root}
    <3>1. IsFiniteSet(roots) /\ Cardinality(roots) = n - i /\ n - i = 1
      BY <2>1, Numbers DEF Done, CountInv
    <3>. QED
      BY <3>1, FS_Singleton
  <2>3. root \in Made
    BY <2>1, <2>2 DEF ForestInv
  <2>4. l \in Lens(Occurring)
    <3>1. n \in 0 .. MaxSymbols /\ MaxSymbols \in Nat
      BY <2>1, Numbers
    <3>2. 0 .. n - 1 \subseteq 0 .. MaxSymbols
      BY <3>1
    <3>. QED
      BY <3>2 DEF Lens
  <2>5. PICK q \in Lens(roots) : Merged + Cost(count, q, roots) <= Cost(table, l, Occurring)
    BY <2>4 DEF BestInv, AsGood, Feasible
  <2>6. Merged <= Cost(table, l, Occurring)
    <3>1. Merged \in Nat /\ Cost(count, q, roots) \in Nat /\ Cost(table, l, Occurring) \in Nat
      BY <2>1, <2>4, Sums, Terms
    <3>. QED
      BY <2>5, <3>1
  <2>7. [s \in Occurring |-> table[s] * Lengths[s]] = [s \in Occurring |-> table[s] * Depth(s)]
    BY <2>1 DEF Lengths, Depth
  <2>8. SumFunctionOnSet([s \in Occurring |-> table[s] * Lengths[s]], Occurring) = Merged
    BY <2>1, <2>2, <2>3, <2>7, CostOfTree
  <2>. QED
    BY <2>6, <2>8 DEF Cost
<1>. QED
  BY <1>1, InvAlways, BestAlways, PTL
===============================================================================
