---------------------------- MODULE MCHuffmanCodes ----------------------------
(***************************************************************************)
(* HuffmanCodes over every table of frequencies up to MaxFrequency: with   *)
(* four symbols 1, 1, 2, 4 gives the deepest tree (a code of n - 1 bits)   *)
(* and equal frequencies give every way to resolve ties.                   *)
(***************************************************************************)
EXTENDS HuffmanCodes

CONSTANT MaxFrequency

AllTables == [Symbols -> 0 .. MaxFrequency]
===============================================================================
