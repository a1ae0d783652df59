------------------------------ MODULE MCHuffcode ------------------------------
(***************************************************************************)
(* Huffcode on every file of the given sizes that the codes allow, with a  *)
(* code of each depth that a tree of up to four leaves has; the symbols of *)
(* a code need not be the first ones.  Bytes have two bits, so that chunks *)
(* of two symbols fill bytes, end inside a byte and end at its boundary.   *)
(***************************************************************************)
EXTENDS Huffcode, TLC

OneLeaf     == 2 :> << >>
TwoLeaves   == 0 :> <<1>> @@ 3 :> <<0>>
ThreeLeaves == 1 :> <<0>> @@ 2 :> <<1, 0>> @@ 3 :> <<1, 1>>
FourLeaves  == 0 :> <<1>> @@ 1 :> <<0, 1>> @@ 2 :> <<0, 0, 1>> @@ 3 :> <<0, 0, 0>>

AllCodes == {OneLeaf, TwoLeaves, ThreeLeaves, FourLeaves}
LongCodes == {TwoLeaves, ThreeLeaves}
===============================================================================
