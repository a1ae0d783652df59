----------------------------- MODULE HuffmanCodes -----------------------------
(***************************************************************************)
(* calculate_huffman_codes of util.cpp and what it calls: from the table   *)
(* of symbol frequencies it builds the Huffman tree by merging, again and  *)
(* again, two subtrees of least count, and then the code of every symbol   *)
(* by walking from its leaf up to the root.                                *)
(*                                                                         *)
(* The array pSF is sorted by qsort before every merge.  Its order among   *)
(* equal counts is unspecified, and only its first two entries are used,   *)
(* so the array is a set of roots here and a merge takes any two of least  *)
(* count.  Leaves are numbered as their symbols; the inner node made by    *)
(* iteration i has the number MaxSymbols + i.                              *)
(***************************************************************************)
EXTENDS Integers, FiniteSets, SequencesExt

CONSTANTS MaxSymbols,  \* MAX_SYMBOLS
          UIntMax,     \* the greatest unsigned int, 2^32 - 1
          Tables       \* the tables of frequencies to consider

Symbols == 0 .. MaxSymbols - 1
InnerNodes == MaxSymbols .. 2 * MaxSymbols - 1
Nodes == Symbols \cup InnerNodes

ASSUME MaxSymbolsAssumption == MaxSymbols \in Nat \ {0}
ASSUME UIntMaxAssumption == UIntMax \in Nat /\ UIntMax > MaxSymbols
ASSUME TablesAssumption == Tables \subseteq [Symbols -> Nat]

NULL == -1

VARIABLES table,  \* the frequencies the function is called with
          pc,     \* "merge", "encode", "done", or "crashed"
          n,      \* the number of symbols that occur
          i,      \* the loop variable
          roots,  \* the entries of pSF that are not NULL
          count, zero, one, parent,  \* the fields of the nodes
          code    \* the resulting SymbolEncoder, its domain the entries set

vars == <<table, pc, n, i, roots, count, zero, one, parent, code>>

Occurring == {s \in Symbols : table[s] > 0}

(* The first qsort moves the NULL entries behind the leaves, which are then *)
(* counted.                                                                 *)
Init == /\ table \in Tables
        /\ pc = "merge"
        /\ n = Cardinality(Occurring)
        /\ i = 0
        /\ roots = Occurring
        /\ count = [k \in Nodes |-> IF k \in Occurring THEN table[k] ELSE 0]
        /\ zero = [k \in InnerNodes |-> NULL]
        /\ one = [k \in InnerNodes |-> NULL]
        /\ parent = [k \in Nodes |-> NULL]
        /\ code = << >>

(* Mutants of LoopBound: one iteration too many and one too few. *)
LoopBound_OneMore == n
LoopBound_OneLess == IF n < 2 THEN 0 ELSE n - 2

(* The bound n - 1 of the loop, in unsigned arithmetic. *)
LoopBound == IF n = 0 THEN UIntMax ELSE n - 1

(* Mutant of Lightest: the array is not sorted. *)
Lightest_Unsorted(R) == R

(* The roots that may stand first in the sorted array. *)
Lightest(R) == {r \in R : \A q \in R : count[r] <= count[q]}

MergedCount(m1, m2) == count[m1] + count[m2]

(* One iteration: m1 and m2 become the children of a new node that takes *)
(* their place in the array.                                             *)
Merge(m1, m2) ==
  /\ pc = "merge"
  /\ i < LoopBound
  /\ m1 \in Lightest(roots)
  /\ m2 \in Lightest(roots \ {m1})
  /\ LET node == MaxSymbols + i IN
       /\ count' = [count EXCEPT ![node] = MergedCount(m1, m2)]
       /\ zero' = [zero EXCEPT ![node] = m1]
       /\ one' = [one EXCEPT ![node] = m2]
       /\ parent' = [parent EXCEPT ![m1] = node, ![m2] = node]
       /\ roots' = (roots \ {m1, m2}) \cup {node}
  /\ i' = i + 1
  /\ UNCHANGED <<table, pc, n, code>>

(* An entry that is merged is NULL: m1->count is read through it. *)
Crash ==
  /\ pc = "merge"
  /\ i < LoopBound
  /\ Cardinality(roots) < 2
  /\ pc' = "crashed"
  /\ UNCHANGED <<table, n, i, roots, count, zero, one, parent, code>>

EndOfMerging ==
  /\ pc = "merge"
  /\ i >= LoopBound
  /\ pc' = "encode"
  /\ UNCHANGED <<table, n, i, roots, count, zero, one, parent, code>>

(* The leaves that build_symbol_encoder reaches from a node. *)
LeavesUnder ==
  LET leaves[k \in Nodes] ==
        IF k \in Symbols THEN {k}
        ELSE IF zero[k] = NULL THEN {}
        ELSE leaves[zero[k]] \cup leaves[one[k]]
  IN leaves

(* Mutant of BitsUpwards: the walk takes a bit for the root too. *)
BitsUpwards_RootToo ==
  LET bits[k \in Nodes] ==
        IF parent[k] = NULL THEN << 0 >>
        ELSE << IF one[parent[k]] = k THEN 1 ELSE 0 >> \o bits[parent[k]]
  IN bits

(* The bits that new_code collects on the way from a node up to the root, *)
(* before reverse_bits turns them round.                                  *)
BitsUpwards ==
  LET bits[k \in Nodes] ==
        IF parent[k] = NULL THEN << >>
        ELSE << IF one[parent[k]] = k THEN 1 ELSE 0 >> \o bits[parent[k]]
  IN bits

(* Mutant of CodeOf: reverse_bits is forgotten. *)
CodeOf_LeafFirst(s) == BitsUpwards[s]

CodeOf(s) == Reverse(BitsUpwards[s])

(* build_symbol_encoder on the first entry of pSF, which may be NULL. *)
BuildSymbolEncoder ==
  /\ pc = "encode"
  /\ LET reached == UNION {LeavesUnder[r] : r \in Lightest(roots)}
     IN code' = [s \in reached |-> CodeOf(s)]
  /\ pc' = "done"
  /\ UNCHANGED <<table, n, i, roots, count, zero, one, parent>>

Terminated == pc \in {"done", "crashed"} /\ UNCHANGED vars

Next == \/ \E m1, m2 \in Nodes : Merge(m1, m2)
        \/ Crash
        \/ EndOfMerging
        \/ BuildSymbolEncoder
        \/ Terminated

Spec == Init /\ [][Next]_vars /\ WF_vars(Next)

-------------------------------------------------------------------------------
Done == pc = "done"

(* "calculate_huffman_codes turns pSF into an array with a single entry     *)
(* that is the root": before an iteration n - i of its entries are not      *)
(* NULL, so that m1 and m2 are not, and one is left at the end.  A NULL     *)
(* entry is read for the table of an empty file only.                       *)
SingleEntryLeft == /\ pc = "merge" => Cardinality(roots) = n - i
                   /\ pc \in {"encode", "done"} => Cardinality(roots) = 1
                   /\ pc = "crashed" => Occurring = {}

(* Every symbol that occurs gets a code, and no code is a prefix of the    *)
(* code of another symbol: the decoder knows where a code ends.            *)
PrefixFree ==
  Done => /\ DOMAIN code = Occurring
          /\ \A s, q \in Occurring : s # q => ~ IsPrefix(code[s], code[q])

(* 2^MaxSymbols times the sum of 2^(-l) over the lengths l. *)
KraftSum(length, S) ==
  SumFunctionOnSet([s \in S |-> 2 ^ (MaxSymbols - length[s])], S)

Lengths == [s \in DOMAIN code |-> Len(code[s])]

(* The codes leave no gap: with two symbols or more, every sequence of     *)
(* bits leads the decoder to a leaf and never to a NULL child.             *)
NoGap == Done => KraftSum(Lengths, Occurring) = 2 ^ MaxSymbols

(* Whatever follows in the compressed file, exactly one code begins it.    *)
Decodable == PrefixFree /\ NoGap

(* A code has at most n - 1 bits, that is at most 255, so that the one     *)
(* byte that write_code_table gives to the length is enough.               *)
LengthFitsByte == Done => \A s \in Occurring : Len(code[s]) < n

(* Reference definition of Huffman's algorithm: no assignment of lengths   *)
(* that a prefix code can have encodes the input in fewer bits.            *)
Optimal ==
  LET Bits(length) ==
        SumFunctionOnSet([s \in Occurring |-> table[s] * length[s]], Occurring)
  IN Done => \A length \in [Occurring -> 0 .. n - 1] :
               KraftSum(length, Occurring) <= 2 ^ MaxSymbols
                 => Bits(Lengths) <= Bits(length)

(* For an input of at least one byte the loop and the traversals end. *)
Termination == Occurring # {} => <>Done
===============================================================================
