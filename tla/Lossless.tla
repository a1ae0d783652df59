------------------------------- MODULE Lossless -------------------------------
(***************************************************************************)
(* What a compressor and its decompressor promise together: the output     *)
(* grows position by position, in any order, and each position receives,   *)
(* once, the byte the input has there.                                     *)
(***************************************************************************)
VARIABLES data,  \* the original, a function from positions to bytes
          out    \* the decompressed copy, defined where it was written

Init == out = << >>

Copy(x) == /\ x \notin DOMAIN out
           /\ out' = [y \in DOMAIN out \cup {x} |-> data[y]]
           /\ UNCHANGED data

Next == \E x \in DOMAIN data : Copy(x)

Spec == Init /\ [][Next]_<<data, out>>
===============================================================================
