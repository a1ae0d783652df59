-------------------------------- MODULE Chains --------------------------------
(***************************************************************************)
(* The linked lists of list.cpp and of hash.cpp, which have the same code  *)
(* but for the key: the first byte of a string, or its hash.  A record     *)
(* has the heads of the lists and, for each index of the window, the next  *)
(* one in its list.                                                        *)
(***************************************************************************)
EXTENDS Window, SequencesExt

NULL_INDEX == WINDOW_SIZE + 1

(* The indices of a list, from its head to the NULL_INDEX. *)
Chain(key, s) ==
  LET longer(list, n) == IF s.next[Last(list)] = NULL_INDEX THEN list
                         ELSE Append(list, s.next[Last(list)])
  IN IF s.heads[key] = NULL_INDEX THEN << >>
     ELSE FoldLeft(longer, <<s.heads[key]>>, [n \in 1 .. WINDOW_SIZE - 1 |-> n])

(* InitializeSearchStructures: all strings of the window have one key. *)
OneChain(key, keys) ==
  [heads |-> [q \in keys |-> IF q = key THEN 0 ELSE NULL_INDEX],
   next |-> [i \in Indices |-> IF i < WINDOW_SIZE - 1 THEN i + 1 ELSE NULL_INDEX]]

(* AddChar, AddString: the index goes to the end of the list. *)
Added(i, key, s) ==
  LET ended == [s EXCEPT !.next[i] = NULL_INDEX]
  IN IF s.heads[key] = NULL_INDEX
     THEN [ended EXCEPT !.heads[key] = i]
     ELSE [ended EXCEPT !.next[Last(Chain(key, ended))] = i]

(* RemoveChar, RemoveString: the one that points to the index, in the list  *)
(* of the key, is made to point behind it.                                  *)
Removed(i, key, s) ==
  IF s.heads[key] = i
  THEN [s EXCEPT !.heads[key] = s.next[i], !.next[i] = NULL_INDEX]
  ELSE [s EXCEPT !.next =
          [x \in Indices |->
             IF x = i THEN NULL_INDEX
             ELSE IF @[x] = i /\ x \in Range(Chain(key, s)) THEN @[i] ELSE @[x]]]
===============================================================================
