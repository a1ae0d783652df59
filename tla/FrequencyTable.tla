---------------------------- MODULE FrequencyTable ----------------------------
(***************************************************************************)
(* What the first pass of the compressor promises, whatever the number of  *)
(* threads that make it: every entry of the table pSF of symbol            *)
(* frequencies starts as NULL and is set at most once, from NULL to the    *)
(* number of times the symbol occurs in the input buffer.                  *)
(*                                                                         *)
(* An entry of pSF is a pointer to a leaf whose count is never 0, so the   *)
(* pointer and the count are one number here, and 0 stands for NULL.       *)
(***************************************************************************)
EXTENDS Integers, FiniteSets

CONSTANTS MaxSymbols  \* MAX_SYMBOLS, the number of different bytes

VARIABLES size,  \* buf.size
          data,  \* buf.data, from 0 to size - 1
          pSF    \* the symbol frequencies

Symbols == 0 .. MaxSymbols - 1

(* The positions of the buffer that hold symbol s. *)
Positions(s) == {k \in 0 .. size - 1 : data[k] = s}

Frequency(s) == Cardinality(Positions(s))

Init == /\ size \in Nat
        /\ data \in [0 .. size - 1 -> Symbols]
        /\ pSF = [s \in Symbols |-> 0]

Publish(s) == /\ pSF[s] = 0
              /\ pSF' = [pSF EXCEPT ![s] = Frequency(s)]
              /\ UNCHANGED <<size, data>>

Next == \E s \in Symbols : Publish(s)

Spec == Init /\ [][Next]_<<size, data, pSF>>
===============================================================================
