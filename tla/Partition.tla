------------------------------ MODULE Partition ------------------------------
(***************************************************************************)
(* The two ways in which the Huffman code cuts n items (the bytes of the   *)
(* input buffer, the bins of the histogram) into one piece per thread of   *)
(* an OpenMP team of p threads.                                            *)
(*                                                                         *)
(*   - The explicit cut: every place that computes its own bounds takes    *)
(*     pieces of UPDIV(n, p) items and clips the last one                  *)
(*     (get_symbol_frequencies_parallel, do_encode,                        *)
(*     huffman_decode_parallel, run_huffman).                              *)
(*   - The cut of "#pragma omp for schedule(static)" in get_out_size,      *)
(*     which is made by the OpenMP runtime and not by this repository.     *)
(*     libgomp gives the first n % p threads one item more than the rest.  *)
(*                                                                         *)
(* Items are numbered from 0, as in the source.                            *)
(***************************************************************************)
EXTENDS Integers

(* Mutant of UPDIV: the division without rounding up. *)
UPDIV_RoundedDown(n, p) == n \div p

(* The macro of util.h: n divided by p, rounded up. *)
UPDIV(n, p) == (n + p - 1) \div p

Least(x, y) == IF x <= y THEN x ELSE y

(* The explicit cut: thread t handles the items from ChunkStart up to and  *)
(* not including ChunkEnd. ChunkStart may lie beyond n; the loop of such a *)
(* thread runs zero times.                                                 *)
ChunkStart(n, p, t) == UPDIV(n, p) * t
ChunkEnd(n, p, t) == Least(ChunkStart(n, p, t) + UPDIV(n, p), n)

(* The cut of schedule(static): the first n % p threads take one item more. *)
StaticStart(n, p, t) == (n \div p) * t + Least(t, n % p)
StaticEnd(n, p, t) == StaticStart(n, p, t + 1)

(* The two cuts give every thread the same items.  (A thread beyond the    *)
(* last item has an empty piece in both.)                                  *)
SameCut(n, p) ==
  \A t \in 0 .. p - 1 :
    \A k \in 0 .. n - 1 :
      (ChunkStart(n, p, t) <= k /\ k < ChunkEnd(n, p, t))
        <=> (StaticStart(n, p, t) <= k /\ k < StaticEnd(n, p, t))
===============================================================================
