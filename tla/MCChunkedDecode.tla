--------------------------- MODULE MCChunkedDecode ---------------------------
(***************************************************************************)
(* ChunkedDecode on every file of the given sizes that the codes allow,    *)
(* with bytes of two bits.                                                 *)
(***************************************************************************)
EXTENDS ChunkedDecode

OneLeaf    == ("a" :> << >>)
TwoLeaves  == ("a" :> <<1>>) @@ ("b" :> <<0>>)
ThreeLeaves == ("a" :> <<0>>) @@ ("b" :> <<1, 0>>) @@ ("c" :> <<1, 1>>)
FourLeaves == ("a" :> <<1>>) @@ ("b" :> <<0, 1>>) @@ ("c" :> <<0, 0, 1>>)
                @@ ("d" :> <<0, 0, 0>>)

AllCodes == {OneLeaf, TwoLeaves, ThreeLeaves, FourLeaves}
===============================================================================
