---------------------------- MODULE MCLZSSProgram ----------------------------
(***************************************************************************)
(* LZSSProgram in the test mode and in two calls, one to encode and one to *)
(* decode, on files of all sizes; and with every command line of up to     *)
(* three words on short files.                                             *)
(***************************************************************************)
EXTENDS LZSSProgram

InputName == <<"F">>

Copying == {<< << <<"-", "i", "F">> >> >>,
            << << <<"-", "c">>, <<"-", "i">>, <<"F">>, <<"-", "o", "O">> >>,
               << <<"-", "d", "i">>, <<"O">>, <<"-", "o">>, <<"P">> >> >>}

Words == {<< >>, <<"-">>, <<"F">>, <<"X">>, <<"-", "c">>, <<"-", "t", "d">>,
          <<"-", "i">>, <<"-", "c", "i">>, <<"-", "i", "F">>, <<"-", "d", "o">>,
          <<"-", "o", "F">>, <<"-", "h">>}

CommandLines == {<< words >> : words \in UNION {[1 .. n -> Words] : n \in 0 .. 3}}
===============================================================================
