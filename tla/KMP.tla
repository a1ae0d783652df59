--------------------------------- MODULE KMP ---------------------------------
(***************************************************************************)
(* kmp.cpp: the search of Knuth, Morris and Pratt for the longest prefix   *)
(* of the lookahead in the window.  A loop is a fold of its turns, in      *)
(* which nothing changes any more when the condition of the loop is false. *)
(***************************************************************************)
EXTENDS Window, SequencesExt

Positions == 0 .. MAX_CODED - 1

(* No loop has more turns than this. *)
Turns(n) == [turn \in 1 .. 2 * n + MAX_CODED |-> turn]

(* FillTable for uncoded, a function on the positions. *)
FillTable(uncoded) ==
  LET turn(s, n) ==
        IF s.i >= MAX_CODED THEN s
        ELSE IF uncoded[s.i - 1] = uncoded[s.j]
        THEN [i |-> s.i + 1, j |-> s.j + 1, table |-> [s.table EXCEPT ![s.i] = s.j + 1]]
        ELSE IF s.j > 0 THEN [s EXCEPT !.j = s.table[s.j]]
        ELSE [i |-> s.i + 1, j |-> s.j, table |-> [s.table EXCEPT ![s.i] = 0]]
      start == [i |-> 2, j |-> 0, table |-> [x \in Positions |-> IF x = 0 THEN -1 ELSE 0]]
  IN FoldLeft(turn, start, Turns(MAX_CODED)).table

(* slidingWindow at an index that was wrapped once.  Behind the array lies *)
(* whatever the compiler puts there.                                       *)
ByteAt(window, x, beyond) ==
  IF Wrap(x, WINDOW_SIZE) \in Indices THEN window[Wrap(x, WINDOW_SIZE)] ELSE beyond

(* Mutant of Skip: the search goes on behind all that matched. *)
Skip_All(i, border) == IF i = 0 THEN 1 ELSE i

(* How far the start of the search moves on after a mismatch at i: to the  *)
(* longest prefix of the lookahead that ends there.                        *)
Skip(i, border) == i - border

KMPSearch(window, head, uncoded, beyond) ==
  LET table == FillTable(uncoded)
      at(m, i) == Match(Wrap(m + head, WINDOW_SIZE), i)
      turn(s, n) ==
        IF s.m >= WINDOW_SIZE \/ s.match.length = MAX_CODED THEN s
        ELSE IF uncoded[s.i] = ByteAt(window, s.m + s.i + head, beyond)
        THEN [m |-> s.m, i |-> s.i + 1,
              match |-> IF s.i + 1 = MAX_CODED THEN at(s.m, MAX_CODED) ELSE s.match]
        ELSE [m |-> s.m + Skip(s.i, table[s.i]),
              i |-> IF table[s.i] > 0 THEN table[s.i] ELSE 0,
              match |-> IF s.i > s.match.length THEN at(s.m, s.i) ELSE s.match]
  IN FoldLeft(turn, [m |-> 0, i |-> 0, match |-> Match(0, 0)], Turns(WINDOW_SIZE)).match
===============================================================================
