-------------------------------- MODULE Window --------------------------------
(***************************************************************************)
(* lzlocal.h: the sizes of the sliding window and of the lookahead, both   *)
(* of them rings, and what a match of the one in the other is.             *)
(***************************************************************************)
EXTENDS Integers

CONSTANTS OFFSET_BITS, LENGTH_BITS,  \* the bits of an offset and of a length
          MAX_UNCODED                \* the longest match that is not encoded

ASSUME WindowAssumption == {OFFSET_BITS, LENGTH_BITS, MAX_UNCODED} \subseteq Nat

WINDOW_SIZE == 2 ^ OFFSET_BITS
MAX_CODED == 2 ^ LENGTH_BITS + MAX_UNCODED

Indices == 0 .. WINDOW_SIZE - 1

(* Wrap subtracts the limit once: values are below twice the limit. *)
Wrap(value, limit) == IF value < limit THEN value ELSE value - limit

(* encoded_string_t *)
Match(offset, length) == [offset |-> offset, length |-> length]

(* The string at offset in the window and the one at head in the lookahead  *)
(* have the same first n bytes.                                             *)
SameBytes(window, offset, lookahead, head, n) ==
  \A j \in 0 .. n - 1 :
    window[Wrap(offset + j, WINDOW_SIZE)] = lookahead[Wrap(head + j, MAX_CODED)]
===============================================================================
