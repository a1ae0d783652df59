--------------------------------- MODULE LZSS ---------------------------------
(***************************************************************************)
(* EncodeLZSS and DecodeLZSS of lzss.cpp.  Both work on the global          *)
(* slidingWindow and uncodedLookahead, and on a bit file; LZSSProgram calls *)
(* one of them, or, as in the test mode, first one and then the other.      *)
(*                                                                         *)
(* FindMatch and ReplaceChar are what the encoder relies on in a matcher:  *)
(* FindMatch returns some string of the window that is also at the head of *)
(* the lookahead (lengths up to MAX_UNCODED stand for no match, as they do *)
(* for the encoder), and ReplaceChar stores a byte, if it returns at all.  *)
(* Matchers has the five matchers themselves, and says where they keep to  *)
(* this: kmp.cpp does not beyond what Wrap can handle, and ReplaceChar of    *)
(* tree.cpp does not return once the tree has been emptied.                  *)
(***************************************************************************)
EXTENDS BitFile, Window

CONSTANTS Space,         \* ' ', which fills the window
          Chars, Sizes,  \* the bytes and the sizes of the input
          Rooms          \* how much fits into the output file

ENCODED == 0
UNCODED == 1

(* A string fits into the window: 18 bytes and 4096 in lzlocal.h. *)
ASSUME LZSSAssumption ==
  /\ MAX_CODED <= WINDOW_SIZE
  /\ Space \in Byte
  /\ Chars \subseteq Byte
  /\ Sizes \subseteq Nat
  /\ Rooms \subseteq Nat

(* The token for a string is longer than the padding of the last byte, and  *)
(* not longer than two bytes for each byte of the string: 17 bits for 3     *)
(* bytes or more in lzlocal.h.                                              *)
ASSUME TokenAssumption ==
  LET bits == 1 + OFFSET_BITS + LENGTH_BITS
  IN ByteBits <= bits /\ bits <= 2 * ByteBits * (MAX_UNCODED + 1)

VARIABLES data,         \* the input file
          inPos,        \* the position of getc in it
          window,       \* slidingWindow
          lookahead,    \* uncodedLookahead
          windowHead, uncodedHead,  \* where they begin
          len,          \* the bytes of the input in the lookahead
          match,        \* matchData; in the decoder, code
          i,            \* the loop index
          bf,           \* the bit file
          pc,           \* where the program is
          result,       \* what EncodeLZSS returns
          nextChar,     \* where the decoder continues the window
          out           \* the decoded file, a function like data

encoder == <<inPos, windowHead, uncodedHead, len, result>>
buffers == <<window, lookahead>>
vars == <<data, encoder, buffers, match, i, bf, pc, nextChar, out>>

Spaces == [x \in Indices |-> Space]

(* The globals are zero before the program writes to them. *)
Init == /\ data \in UNION {[0 .. n - 1 -> Chars] : n \in Sizes}
        /\ inPos = 0
        /\ window = Spaces
        /\ lookahead = [x \in 0 .. MAX_CODED - 1 |-> 0]
        /\ windowHead = 0
        /\ uncodedHead = 0
        /\ len = 0
        /\ match = Match(0, 0)
        /\ i = 0
        /\ \E room \in Rooms : bf = MakeBitFile(<< >>, room)
        /\ pc = "fill"
        /\ result = -1
        /\ nextChar = 0
        /\ out = << >>

FileSize == Cardinality(DOMAIN data)
Written == Cardinality(DOMAIN out)

-------------------------------------------------------------------------------
(* EncodeLZSS *)

(* An empty file is done at once, without BitFileToFILE. *)
FillLookahead ==
  /\ pc = "fill"
  /\ len' = Min({MAX_CODED, FileSize})
  /\ inPos' = len'
  /\ lookahead' = [x \in DOMAIN lookahead |->
                     IF x < len' THEN data[x] ELSE lookahead[x]]
  /\ IF len' = 0 THEN pc' = "encoded" /\ result' = 0
     ELSE pc' = "match" /\ UNCHANGED result
  /\ UNCHANGED <<data, window, windowHead, uncodedHead, match, i, bf, nextChar, out>>

(* The strings of the window that the lookahead, with whatever follows the  *)
(* last byte of the input in it, begins with.                               *)
Matches ==
  {Match(0, 0)} \cup
  {m \in [offset : Indices, length : MAX_UNCODED + 1 .. MAX_CODED] :
     SameBytes(window, m.offset, lookahead, uncodedHead, m.length)}

FindMatch ==
  /\ pc = "match"
  /\ match' \in Matches
  /\ pc' = "token"
  /\ UNCHANGED <<data, encoder, buffers, i, bf, nextChar, out>>

MatchLength == Min({match.length, len})

(* The token for the head of the lookahead, and the bytes it stands for. *)
PutToken(length, after) ==
  /\ pc = "token"
  /\ len > 0
  /\ bf' = after
  /\ match' = [match EXCEPT !.length = length]
  /\ i' = 0
  /\ pc' = "replace"
  /\ UNCHANGED <<data, encoder, buffers, nextChar, out>>

PutUncoded ==
  /\ MatchLength <= MAX_UNCODED
  /\ \E flag \in {PutBit(UNCODED, bf)} :
       PutToken(1, PutChar(lookahead[uncodedHead], flag))

PutEncoded ==
  /\ MatchLength > MAX_UNCODED
  /\ \E flag \in {PutBit(ENCODED, bf)} :
     \E offset \in {PutBitsNum(match.offset, OFFSET_BITS, flag)} :
       PutToken(MatchLength,
                PutBitsNum(MatchLength - (MAX_UNCODED + 1), LENGTH_BITS, offset))

(* One byte moves from the lookahead to the window, when ReplaceChar returns. *)
Shift ==
  /\ pc = "replace"
  /\ i < match.length
  /\ window' = [window EXCEPT ![windowHead] = lookahead[uncodedHead]]
  /\ windowHead' = Wrap(windowHead + 1, WINDOW_SIZE)
  /\ uncodedHead' = Wrap(uncodedHead + 1, MAX_CODED)
  /\ i' = i + 1
  /\ UNCHANGED <<data, match, bf, pc, result, nextChar, out>>

ReplaceByNext ==
  /\ Shift
  /\ inPos < FileSize
  /\ lookahead' = [lookahead EXCEPT ![uncodedHead] = data[inPos]]
  /\ inPos' = inPos + 1
  /\ UNCHANGED len

(* Mutant of LenAtEOF: len is not decreased. *)
LenAtEOF_Kept == len

LenAtEOF == len - 1

ReplaceAtEOF ==
  /\ Shift
  /\ inPos = FileSize
  /\ len' = LenAtEOF
  /\ UNCHANGED <<lookahead, inPos>>

(* The encoder has called FindMatch or ReplaceChar and waits for its return. *)
InMatcher == \/ pc = "match"
             \/ pc = "replace" /\ i < match.length

EndOfReplacing ==
  /\ pc = "replace"
  /\ i = match.length
  /\ pc' = "match"
  /\ UNCHANGED <<data, encoder, buffers, match, i, bf, nextChar, out>>

EndOfEncoding ==
  /\ pc = "token"
  /\ len = 0
  /\ bf' = FlushOutput(0, bf)
  /\ result' = 0
  /\ pc' = "encoded"
  /\ UNCHANGED <<data, inPos, windowHead, uncodedHead, len, buffers, match, i,
                 nextChar, out>>

-------------------------------------------------------------------------------
(* DecodeLZSS *)

StartDecoding ==
  /\ pc = "encoded"
  /\ bf' = MakeBitFile(bf.file, bf.room)
  /\ window' = Spaces
  /\ nextChar' = 0
  /\ pc' = "flag"
  /\ UNCHANGED <<data, encoder, lookahead, match, i, out>>

PutOut(c) == out' = [x \in 0 .. Written |-> IF x < Written THEN out[x] ELSE c]

GetUncoded ==
  /\ pc = "flag"
  /\ \E flag \in {GetBit(bf)} :
       /\ flag.ok
       /\ flag.val = UNCODED
       /\ \E char \in {GetChar(flag)} :
            /\ bf' = char
            /\ IF char.ok
               THEN /\ PutOut(char.val)
                    /\ window' = [window EXCEPT ![nextChar] = char.val]
                    /\ nextChar' = Wrap(nextChar + 1, WINDOW_SIZE)
                    /\ UNCHANGED pc
               ELSE /\ pc' = "done"
                    /\ UNCHANGED <<out, window, nextChar>>
  /\ UNCHANGED <<data, encoder, lookahead, match, i>>

GetEncoded ==
  /\ pc = "flag"
  /\ \E flag \in {GetBit(bf)} :
       /\ flag.ok
       /\ flag.val # UNCODED
       /\ \E offset \in {GetBitsNum(OFFSET_BITS, flag)} :
          \E length \in {IF offset.ok THEN GetBitsNum(LENGTH_BITS, offset) ELSE offset} :
            /\ bf' = length
            /\ IF length.ok
               THEN /\ match' = Match(offset.val, length.val + MAX_UNCODED + 1)
                    /\ i' = 0
                    /\ pc' = "copy"
               ELSE /\ pc' = "done"
                    /\ UNCHANGED <<match, i>>
  /\ UNCHANGED <<data, encoder, buffers, nextChar, out>>

EndOfDecoding ==
  /\ pc = "flag"
  /\ ~ GetBit(bf).ok
  /\ pc' = "done"
  /\ UNCHANGED <<data, encoder, buffers, match, i, bf, nextChar, out>>

(* The string goes to the output and, for the time being, to the lookahead, *)
(* "we could end up overwriting the matching string".                       *)
CopyChar ==
  /\ pc = "copy"
  /\ i < match.length
  /\ LET c == window[Wrap(match.offset + i, WINDOW_SIZE)]
     IN PutOut(c) /\ lookahead' = [lookahead EXCEPT ![i] = c]
  /\ i' = i + 1
  /\ UNCHANGED <<data, encoder, window, match, bf, pc, nextChar>>

StoreString ==
  /\ pc = "copy"
  /\ i = match.length
  /\ window' = [x \in DOMAIN window |->
                  IF \E j \in 0 .. match.length - 1 : x = Wrap(nextChar + j, WINDOW_SIZE)
                  THEN lookahead[(x - nextChar) % WINDOW_SIZE]
                  ELSE window[x]]
  /\ nextChar' = Wrap(nextChar + match.length, WINDOW_SIZE)
  /\ pc' = "flag"
  /\ UNCHANGED <<data, encoder, lookahead, match, i, bf, out>>

Encode == \/ FillLookahead
          \/ FindMatch
          \/ PutUncoded
          \/ PutEncoded
          \/ ReplaceByNext
          \/ ReplaceAtEOF
          \/ EndOfReplacing
          \/ EndOfEncoding

Decode == \/ StartDecoding
          \/ GetUncoded
          \/ GetEncoded
          \/ CopyChar
          \/ StoreString
          \/ EndOfDecoding

-------------------------------------------------------------------------------
(* The last WINDOW_SIZE of the first n bytes of a file, each where a ring   *)
(* buffer has it that starts at index 0 and is full of spaces at first.     *)
History(text, n) ==
  [x \in Indices |->
     LET stored == {p \in 0 .. n - 1 : p % WINDOW_SIZE = x}
     IN IF stored = {} THEN Space ELSE text[Max(stored)]]

(* The bytes that have gone through the lookahead. *)
Consumed == inPos - len

(* "DecodeLZSS must use the same values": whenever a token is put or got,   *)
(* the window is what the text so far makes of it, in the encoder and in    *)
(* the decoder, and the lookahead holds the bytes that come next, also when *)
(* the two rings wrap at different lengths and when the input has ended.    *)
WindowIsHistory ==
  /\ pc \in {"match", "token"} =>
       /\ window = History(data, Consumed)
       /\ windowHead = Consumed % WINDOW_SIZE
       /\ \A j \in 0 .. len - 1 :
            lookahead[Wrap(uncodedHead + j, MAX_CODED)] = data[Consumed + j]
  /\ pc = "flag" =>
       /\ window = History(out, Written)
       /\ nextChar = Written % WINDOW_SIZE

(* A token takes less than two bytes for each byte that it stands for. *)
EnoughRoom == bf.room >= 2 * FileSize
===============================================================================
