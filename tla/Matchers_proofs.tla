---------------------------- MODULE Matchers_proofs ----------------------------
(***************************************************************************)
(* What the matchers keep about the window.                                *)
(*                                                                         *)
(* The linked lists are followed by a sequence of indices for each key     *)
(* (Linked): no index is twice in them (Apart), and the sequence of a key  *)
(* has the indices of the strings with that key (HoldsIn).  ReplaceChar is *)
(* two loops over the strings that contain the byte; the first takes them  *)
(* out of their lists, the second puts them in again by their new keys,    *)
(* and all other strings keep their keys (OthersKeepKey).                  *)
(*                                                                         *)
(* The tree is followed by a set for each node: the node with all nodes    *)
(* under it (Nested), those on its left before it and those on its right   *)
(* after it in the order of CompareString (Sorted), which is an order as   *)
(* long as the window keeps its bytes.  ReplaceChar takes the strings that *)
(* contain the byte out of the tree, then puts them in again; Phase says   *)
(* which of them are out, and what the loops of RemoveString, AddString    *)
(* and FindMatch know of the node they have come to.                       *)
(***************************************************************************)
EXTENDS Matchers, OperatorLemmas

(* The lists: heads and links hold an index, or the index that ends a list. *)
NULL == List!NULL_INDEX
Ends == Indices \cup {NULL}
Links == [heads : [Keys -> Ends], next : [Indices -> Ends]]

(* The sequence q is what the links lead to from the head h. *)
Linked(h, next, q) ==
  /\ h = IF q = << >> THEN NULL ELSE q[1]
  /\ \A x \in 1 .. Len(q) : next[q[x]] = IF x < Len(q) THEN q[x + 1] ELSE NULL

(* No index is twice in the sequences f. *)
Apart(f) == \A a, b \in Keys : \A x \in 1 .. Len(f[a]), y \in 1 .. Len(f[b]) :
              f[a][x] = f[b][y] => a = b /\ x = y

(* The lists are these sequences. *)
Lists(s, f) ==
  /\ s \in Links
  /\ f \in [Keys -> Seq(Indices)]
  /\ \A key \in Keys : Linked(s.heads[key], s.next, f[key])
  /\ Apart(f)

(* They hold the indices in S, each in the list of its key. *)
HoldsIn(f, ring, S) ==
  /\ \A key \in Keys : Range(f[key]) = {i \in S : Key(ring, i, WINDOW_SIZE) = key}

Holding(s, ring, S) == \E f \in [Keys -> Seq(Indices)] : Lists(s, f) /\ HoldsIn(f, ring, S)

(* What the functions of the lists keep. *)
ChainsInv ==
  /\ window \in [Indices -> Chars]
  /\ windowHead \in Indices
  /\ replacement \in Chars
  /\ method # "tree" => pc \in {"ready", "found"}
  /\ method \in {"list", "hash"} => Holding(chains, window, Indices)

-------------------------------------------------------------------------------
(* The rings. *)

(* The sizes of the window and of the lookahead. *)
LEMMA RingSizes ==
  /\ WINDOW_SIZE \in Nat \ {0} /\ MAX_CODED \in Nat \ {0}
  /\ MAX_CODED + 2 <= WINDOW_SIZE
  /\ MAX_UNCODED \in Nat /\ MAX_UNCODED < MAX_CODED
  /\ NULL = WINDOW_SIZE + 1 /\ NULL \notin Indices
<1>1. OFFSET_BITS \in Nat /\ LENGTH_BITS \in Nat /\ MAX_UNCODED \in Nat
  BY WindowAssumption
<1>2. 2 ^ OFFSET_BITS \in Nat \ {0} /\ 2 ^ LENGTH_BITS \in Nat \ {0}
  BY <1>1, PowersPositive
<1>3. WINDOW_SIZE \in Nat \ {0}
  BY <1>2 DEF WINDOW_SIZE
<1>4. MAX_CODED \in Nat \ {0} /\ MAX_UNCODED < MAX_CODED
  BY <1>1, <1>2 DEF MAX_CODED
<1>5. NULL = WINDOW_SIZE + 1
  BY DEF NULL, List!NULL_INDEX, List!WINDOW_SIZE, WINDOW_SIZE
<1>. QED
  BY <1>1, <1>3, <1>4, <1>5, MatchersAssumption DEF Indices

(* The operators of a list's module are those of the window.                 *)
LEMMA ListWindow ==
  List!WINDOW_SIZE = WINDOW_SIZE /\ List!Indices = Indices
BY DEF List!WINDOW_SIZE, WINDOW_SIZE, List!Indices, Indices

(* A sequence of different indices is not longer than the window.            *)
LEMMA DifferentIndices ==
  ASSUME NEW q \in Seq(Indices),
         \A x, y \in 1 .. Len(q) : q[x] = q[y] => x = y
  PROVE  Len(q) \in 0 .. WINDOW_SIZE
<1>. DEFINE n == Len(q)
            g == [x \in 1 .. n |-> q[x]]
<1>1. n \in Nat /\ \A x \in 1 .. n : q[x] \in Indices
  OBVIOUS
<1>2. g \in Injection(1 .. n, Indices)
  BY <1>1 DEF Injection, IsInjective
<1>3. IsFiniteSet(Indices) /\ Cardinality(Indices) = WINDOW_SIZE
  <2>1. 0 \in Int /\ WINDOW_SIZE - 1 \in Int /\ WINDOW_SIZE \in Nat \ {0}
    BY RingSizes
  <2>2. /\ IsFiniteSet(0 .. WINDOW_SIZE - 1)
        /\ Cardinality(0 .. WINDOW_SIZE - 1)
             = IF 0 > WINDOW_SIZE - 1 THEN 0 ELSE (WINDOW_SIZE - 1) - 0 + 1
    BY <2>1, FS_Interval
  <2>. QED
    BY <2>1, <2>2 DEF Indices
<1>4. Cardinality(1 .. n) = n
  <2>1. 1 \in Int /\ n \in Int
    BY <1>1
  <2>2. Cardinality(1 .. n) = IF 1 > n THEN 0 ELSE n - 1 + 1
    BY <2>1, FS_Interval
  <2>. QED
    BY <1>1, <2>2
<1>. HIDE DEF g
<1>5. Cardinality(1 .. n) <= Cardinality(Indices)
  BY <1>2, <1>3, FS_Injection
<1>. QED
  BY <1>1, <1>3, <1>4, <1>5

-------------------------------------------------------------------------------
(* The walk through a list. *)

(* One turn of it: the next index is appended, if there is one.              *)
Walked(s, list) ==
  IF s.next[Last(list)] = NULL THEN list ELSE Append(list, s.next[Last(list)])

(* Its turns, one after the other.                                           *)
WalkOf(s, base, seq) == FoldLeft(LAMBDA list, x : Walked(s, list), base, seq)

LEMMA WalkFrom ==
  ASSUME NEW s, NEW n \in Nat, NEW seq, DOMAIN seq = 1 .. n, NEW V, NEW base \in V,
         NEW W, base \in W[0],
         \A m \in 1 .. n : \A t \in V : Walked(s, t) \in V,
         \A m \in 1 .. n : \A t \in V \cap W[m - 1] : Walked(s, t) \in W[m]
  PROVE  WalkOf(s, base, seq) \in V \cap W[n]
<1>. DEFINE T == 1 .. n
            op(x, t) == Walked(s, t)
            Is(h) == h = [S \in SUBSET T |-> IF S = {} THEN base
                                             ELSE op(Max(S), h[S \ {Max(S)}])]
            g == [p \in T \X V |-> op(p[1], p[2])]
            H == CHOOSE x : Is(x)
            U == [m \in 0 .. n |-> V \cap W[m]]
<1>1. WalkOf(s, base, seq) = H[T]
  BY DEF WalkOf, FoldLeft, MapThenFoldSet
<1>2. \A x \in T, t \in V : op(x, t) \in V
  OBVIOUS
<1>3. \A m \in 1 .. n : \A t \in V \cap W[m - 1] : op(m, t) \in W[m]
  OBVIOUS
<1>. HIDE DEF op
<1>4. \A x \in T, t \in V : g[<<x, t>>] = op(x, t) /\ g[<<x, t>>] \in V
  BY <1>2
<1>. HIDE DEF g
<1>5. \E h : Is(h)
  <2>1. PICK h \in [SUBSET T -> V] : IsLeftFold(h, g, base, n)
    <3>1. \A x \in 1 .. n, t \in V : g[<<x, t>>] \in V
      BY <1>4
    <3>. QED
      BY <3>1, LeftFoldExists
  <2>2. ASSUME NEW S \in SUBSET T, S # {} PROVE Max(S) \in T
    <3>1. S \in SUBSET (0 .. n)
      OBVIOUS
    <3>. QED
      BY <2>2, <3>1, MaxIn
  <2>3. ASSUME NEW S \in SUBSET T, S # {}
        PROVE  h[S] = op(Max(S), h[S \ {Max(S)}])
    BY <1>4, <2>1, <2>2, <2>3 DEF IsLeftFold
  <2>4. Is(h)
    BY <2>1, <2>3 DEF IsLeftFold
  <2>. QED
    BY <2>4
<1>6. Is(H)
  BY <1>5
<1>7. \A S \in SUBSET T : H[S] = IF S = {} THEN base ELSE op(Max(S), H[S \ {Max(S)}])
  BY <1>6
<1>. HIDE DEF H
<1>8. H[1 .. 0] \in U[0]
  <2>1. 1 .. 0 = {} /\ {} \in SUBSET T
    OBVIOUS
  <2>2. H[1 .. 0] = base
    BY <1>7, <2>1
  <2>. QED
    BY <2>2
<1>9. ASSUME NEW m \in 1 .. n, H[1 .. (m - 1)] \in U[m - 1] PROVE H[1 .. m] \in U[m]
  <2>1. /\ 1 .. m \in SUBSET T /\ 1 .. m # {}
        /\ Max(1 .. m) = m /\ (1 .. m) \ {m} = 1 .. (m - 1)
    BY PrefixSteps
  <2>2. H[1 .. m] = op(Max(1 .. m), H[(1 .. m) \ {Max(1 .. m)}])
    BY <1>7, <2>1
  <2>3. H[1 .. m] = op(m, H[1 .. (m - 1)])
    BY <2>1, <2>2
  <2>4. m \in 0 .. n /\ m - 1 \in 0 .. n /\ m \in T
    OBVIOUS
  <2>5. H[1 .. (m - 1)] \in V \cap W[m - 1]
    BY <1>9, <2>4
  <2>6. H[1 .. m] \in V /\ H[1 .. m] \in W[m]
    BY <1>2, <1>3, <2>3, <2>4, <2>5
  <2>. QED
    BY <2>4, <2>6
<1>. HIDE DEF U
<1>10. H[T] \in U[n]
  BY <1>8, <1>9, PrefixInduction
<1>11. H[T] \in V \cap W[n]
  BY <1>10 DEF U
<1>. QED
  BY <1>1, <1>11


(* The beginning of a sequence. *)
FirstOf(q, m) == [x \in 1 .. (IF m < Len(q) THEN m ELSE Len(q)) |-> q[x]]

(* The walk finds the whole list.                                            *)
LEMMA ChainIs ==
  ASSUME NEW s, NEW f, Lists(s, f), NEW key \in Keys
  PROVE  List!Chain(key, s) = f[key]
<1>. DEFINE q == f[key]
            n == WINDOW_SIZE - 1
            walk == [x \in 1 .. n |-> x]
            V == Seq(Indices) \ {<< >>}
            W == [m \in 0 .. n |-> {FirstOf(q, m + 1)}]
            base == <<s.heads[key]>>
<1>1. /\ q \in Seq(Indices) /\ Linked(s.heads[key], s.next, q)
      /\ \A x, y \in 1 .. Len(q) : q[x] = q[y] => x = y
  BY DEF Lists, Apart
<1>2. n \in Nat /\ Len(q) \in 0 .. n + 1
  BY <1>1, DifferentIndices, RingSizes
<1>3. List!Chain(key, s) = IF s.heads[key] = NULL THEN << >>
                           ELSE WalkOf(s, base, walk)
  BY ListWindow DEF List!Chain, Walked, NULL, WalkOf, FoldLeft, MapThenFoldSet,
                    List!FoldLeft, List!MapThenFoldSet, List!Max, Max, List!Last, Last
<1>. HIDE DEF q, n
<1>4. CASE q = << >>
  BY <1>1, <1>3, <1>4 DEF Linked, q
<1>5. CASE q # << >>
  <2>1. Len(q) \in Nat \ {0} /\ \A x \in 1 .. Len(q) : q[x] \in Indices
    BY <1>1, <1>5, EmptySeq
  <2>2. s.heads[key] = q[1] /\ q[1] \in Indices /\ s.heads[key] # NULL
    BY <1>1, <1>5, <2>1, RingSizes DEF Linked
  <2>3. base \in V /\ base \in W[0]
    <3>1. base = FirstOf(q, 1)
      BY <2>1, <2>2 DEF FirstOf
    <3>2. base \in V
      BY <2>2
    <3>. QED
      BY <1>2, <3>1, <3>2
  <2>4. ASSUME NEW m \in 1 .. n PROVE Walked(s, FirstOf(q, m)) = FirstOf(q, m + 1)
    <3>. DEFINE p == FirstOf(q, m)
    <3>1. p \in Seq(Indices) /\ Len(p) = (IF m < Len(q) THEN m ELSE Len(q))
          /\ p # << >> /\ \A x \in 1 .. Len(p) : p[x] = q[x]
      BY <1>2, <2>1 DEF FirstOf
    <3>. HIDE DEF p
    <3>2. Last(p) = p[Len(p)] /\ Len(p) \in 1 .. Len(q)
      <4>1. Last(p) = p[Len(p)]
        BY <3>1, LastFront
      <4>2. Len(p) \in 1 .. Len(q)
        BY <1>2, <2>1, <3>1
      <4>. QED
        BY <4>1, <4>2
    <3>. USE DEF p
    <3>3. s.next[Last(p)] = IF Len(p) < Len(q) THEN q[Len(p) + 1] ELSE NULL
      BY <1>1, <3>1, <3>2 DEF Linked
    <3>4. CASE m < Len(q)
      <4>1. s.next[Last(p)] = q[m + 1] /\ q[m + 1] \in Indices
        BY <1>2, <2>1, <3>1, <3>3, <3>4
      <4>2. Walked(s, p) = Append(p, q[m + 1])
        BY <4>1, RingSizes DEF Walked
      <4>3. Append(p, q[m + 1]) = FirstOf(q, m + 1)
        <5>1. Append(p, q[m + 1]) \in Seq(Indices) /\ Len(Append(p, q[m + 1])) = m + 1
          BY <3>1, <3>4, <4>1
        <5>2. FirstOf(q, m + 1) \in Seq(Indices) /\ Len(FirstOf(q, m + 1)) = m + 1
          BY <1>2, <2>1, <3>4 DEF FirstOf
        <5>3. ASSUME NEW x \in 1 .. m + 1
              PROVE  Append(p, q[m + 1])[x] = FirstOf(q, m + 1)[x]
          <6>1. FirstOf(q, m + 1)[x] = q[x]
            BY <1>2, <2>1, <3>4 DEF FirstOf
          <6>2. Append(p, q[m + 1])[x] = q[x]
            BY <3>1, <3>4, <4>1
          <6>. QED
            BY <6>1, <6>2
        <5>. QED
          BY <5>1, <5>2, <5>3, SeqEqual
      <4>. QED
        BY <4>2, <4>3
    <3>5. CASE ~ (m < Len(q))
      <4>1. s.next[Last(p)] = NULL
        BY <3>1, <3>3, <3>5
      <4>2. FirstOf(q, m + 1) = FirstOf(q, m)
        BY <1>2, <3>5 DEF FirstOf
      <4>. QED
        BY <4>1, <4>2 DEF Walked
    <3>. QED
      BY <3>4, <3>5
  <2>5. ASSUME NEW t \in V PROVE Walked(s, t) \in V
    <3>1. t \in Seq(Indices) /\ t # << >> /\ Last(t) \in Indices
      BY LastFront
    <3>2. s.next[Last(t)] = NULL \/ s.next[Last(t)] \in Indices
      BY <3>1 DEF Lists, Links, Ends
    <3>. QED
      BY <3>1, <3>2, EmptySeq DEF Walked
  <2>6. \A m \in 1 .. n : \A t \in V \cap W[m - 1] : Walked(s, t) \in W[m]
    <3>1. \A m \in 1 .. n : W[m - 1] = {FirstOf(q, m)} /\ W[m] = {FirstOf(q, m + 1)}
      BY <1>2
    <3>. QED
      BY <2>4, <3>1
  <2>. HIDE DEF base, V, W
  <2>7. DOMAIN walk = 1 .. n /\ \A m \in 1 .. n : walk[m] = m
    OBVIOUS
  <2>. HIDE DEF walk
  <2>8. WalkOf(s, base, walk) \in V \cap W[n]
    BY <1>2, <2>3, <2>5, <2>6, <2>7, WalkFrom
  <2>9. W[n] = {FirstOf(q, n + 1)}
    BY <1>2 DEF W
  <2>10. FirstOf(q, n + 1) = q
    <3>1. FirstOf(q, n + 1) \in Seq(Indices) /\ Len(FirstOf(q, n + 1)) = Len(q)
          /\ \A x \in 1 .. Len(q) : FirstOf(q, n + 1)[x] = q[x]
      BY <1>2, <2>1 DEF FirstOf
    <3>. QED
      BY <1>1, <3>1, SeqEqual
  <2>. QED
    BY <1>3, <2>2, <2>8, <2>9, <2>10 DEF q
<1>. QED
  BY <1>4, <1>5

-------------------------------------------------------------------------------
(* Changes of a list. *)

(* A sequence without its element p. *)
Without(q, p) == [x \in 1 .. Len(q) - 1 |-> IF x < p THEN q[x] ELSE q[x + 1]]

(* It is a sequence of the other elements.                                   *)
LEMMA WithoutOne ==
  ASSUME NEW q \in Seq(Indices), NEW p \in 1 .. Len(q),
         \A x, y \in 1 .. Len(q) : q[x] = q[y] => x = y
  PROVE  /\ Without(q, p) \in Seq(Indices) /\ Len(Without(q, p)) = Len(q) - 1
         /\ \A x \in 1 .. Len(q) - 1 : Without(q, p)[x] = IF x < p THEN q[x] ELSE q[x + 1]
         /\ Range(Without(q, p)) = Range(q) \ {q[p]}
<1>. DEFINE n == Len(q)
            c == Without(q, p)
<1>1. n \in Nat /\ p \in 1 .. n /\ \A x \in 1 .. n : q[x] \in Indices
  OBVIOUS
<1>2. \A x \in 1 .. n - 1 : (IF x < p THEN q[x] ELSE q[x + 1]) \in Indices
  BY <1>1
<1>3. /\ c \in Seq(Indices) /\ Len(c) = n - 1
      /\ \A x \in 1 .. n - 1 : c[x] = IF x < p THEN q[x] ELSE q[x + 1]
  BY <1>1, <1>2 DEF Without
<1>4. Range(c) = Range(q) \ {q[p]}
  <2>. HIDE DEF c, n
  <2>1. ASSUME NEW x \in 1 .. n - 1 PROVE \E y \in 1 .. n : y # p /\ c[x] = q[y]
    <3>1. CASE x < p
      BY <1>1, <1>3, <3>1
    <3>2. CASE ~ (x < p)
      <4>1. x + 1 \in 1 .. n /\ x + 1 # p /\ c[x] = q[x + 1]
        BY <1>1, <1>3, <3>2
      <4>. QED
        BY <4>1
    <3>. QED
      BY <3>1, <3>2
  <2>2. ASSUME NEW y \in 1 .. n, y # p PROVE \E x \in 1 .. n - 1 : c[x] = q[y]
    <3>1. CASE y < p
      <4>1. y \in 1 .. n - 1 /\ c[y] = q[y]
        BY <1>1, <1>3, <3>1
      <4>. QED
        BY <4>1
    <3>2. CASE ~ (y < p)
      <4>1. y - 1 \in 1 .. n - 1 /\ ~ (y - 1 < p) /\ (y - 1) + 1 = y
        BY <1>1, <2>2, <3>2
      <4>2. c[y - 1] = q[y]
        BY <1>3, <4>1
      <4>. QED
        BY <4>1, <4>2
    <3>. QED
      BY <3>1, <3>2
  <2>3. DOMAIN c = 1 .. n - 1 /\ DOMAIN q = 1 .. n
    BY <1>1, <1>3 DEF n
  <2>4. Range(c) = {c[x] : x \in 1 .. n - 1} /\ Range(q) = {q[x] : x \in 1 .. n}
    BY <2>3 DEF Range
  <2>5. \A y \in 1 .. n : q[y] = q[p] => y = p
    BY <1>1 DEF n
  <2>6. ASSUME NEW v \in Range(c) PROVE v \in Range(q) \ {q[p]}
    BY <2>1, <2>4, <2>5
  <2>7. ASSUME NEW v \in Range(q) \ {q[p]} PROVE v \in Range(c)
    BY <2>2, <2>4
  <2>. QED
    BY <2>6, <2>7
<1>. QED
  BY <1>3, <1>4

(* RemoveChar, RemoveString.                                                 *)
LEMMA RemovedIs ==
  ASSUME NEW s, NEW f, Lists(s, f), NEW key \in Keys, NEW p \in 1 .. Len(f[key])
  PROVE  Lists(List!Removed(f[key][p], key, s),
               [f EXCEPT ![key] = Without(f[key], p)])
<1>. DEFINE q == f[key]
            n == Len(q)
            i == q[p]
            t == List!Removed(i, key, s)
            c == Without(q, p)
            g == [f EXCEPT ![key] = c]
<1>1. /\ s \in Links /\ f \in [Keys -> Seq(Indices)]
      /\ \A a \in Keys : f[a] \in Seq(Indices) /\ Len(f[a]) \in Nat
                         /\ Linked(s.heads[a], s.next, f[a])
                         /\ \A x \in 1 .. Len(f[a]) : f[a][x] \in Indices
  BY DEF Lists
<1>0. /\ q \in Seq(Indices) /\ n \in Nat /\ p \in 1 .. n /\ p \in Nat
      /\ \A x, y \in 1 .. n : q[x] = q[y] => x = y
      /\ \A x \in 1 .. n : q[x] \in Indices
  BY <1>1 DEF Lists, Apart
<1>2. /\ c \in Seq(Indices) /\ Len(c) = n - 1
      /\ \A x \in 1 .. n - 1 : c[x] = IF x < p THEN q[x] ELSE q[x + 1]
  BY <1>0, WithoutOne
<1>3. List!Chain(key, s) = q
  BY ChainIs
<1>4. /\ g \in [Keys -> Seq(Indices)] /\ g[key] = c
      /\ \A a \in Keys : a # key => g[a] = f[a]
  BY <1>1, <1>2
<1>5. i \in Indices /\ s.heads[key] \in Ends /\ s.next \in [Indices -> Ends]
      /\ s.heads \in [Keys -> Ends]
  BY <1>0, <1>1 DEF Links
<1>6. q # << >> /\ s.heads[key] = q[1]
  BY <1>0, <1>1, EmptySeq DEF Linked
<1>7. \A x \in 1 .. n : s.next[q[x]] = IF x < n THEN q[x + 1] ELSE NULL
  BY <1>1 DEF Linked
<1>8. Range(q) = {q[x] : x \in 1 .. n}
  BY <1>0 DEF Range
<1>9. \A a \in Keys : a # key => \A x \in 1 .. Len(f[a]) : f[a][x] \notin Range(q)
  BY <1>8 DEF Lists, Apart
<1>10. t = IF s.heads[key] = i
           THEN [s EXCEPT !.heads[key] = s.next[i], !.next[i] = NULL]
           ELSE [s EXCEPT !.next = [x \in Indices |->
                   IF x = i THEN NULL
                   ELSE IF s.next[x] = i /\ x \in Range(q) THEN s.next[i] ELSE s.next[x]]]
  BY <1>3, ListWindow DEF List!Removed, NULL, List!Range, Range
<1>. HIDE DEF t, c, g, n, q
<1>11. s = [heads |-> s.heads, next |-> s.next]
  BY <1>1 DEF Links
<1>12. ASSUME s.heads[key] = i
       PROVE  t \in Links /\ \A a \in Keys : Linked(t.heads[a], t.next, g[a])
  <2>1. p = 1
    <3>1. 1 \in 1 .. n /\ q[1] = q[p]
      BY <1>0, <1>6, <1>12
    <3>. QED
      BY <1>0, <3>1
  <2>2. t = [heads |-> [s.heads EXCEPT ![key] = s.next[i]],
             next |-> [s.next EXCEPT ![i] = NULL]]
    BY <1>10, <1>11, <1>12
  <2>3. t \in Links
    BY <1>5, <2>2 DEF Links, Ends
  <2>4. t.heads[key] = s.next[i] /\ \A a \in Keys : a # key => t.heads[a] = s.heads[a]
    BY <1>5, <2>2
  <2>5. \A x \in Indices : x # i => t.next[x] = s.next[x]
    BY <1>5, <2>2
  <2>6. Linked(t.heads[key], t.next, c)
    <3>1. t.heads[key] = IF n > 1 THEN q[2] ELSE NULL
      BY <1>0, <1>7, <2>1, <2>4
    <3>2. \A x \in 1 .. n - 1 : c[x] = q[x + 1]
      BY <1>0, <1>2, <2>1
    <3>3. t.heads[key] = IF c = << >> THEN NULL ELSE c[1]
      BY <1>0, <1>2, <3>1, <3>2, EmptySeq
    <3>4. ASSUME NEW x \in 1 .. n - 1
          PROVE  t.next[c[x]] = IF x < n - 1 THEN c[x + 1] ELSE NULL
      <4>1. x + 1 \in 1 .. n /\ x + 1 # p /\ q[x + 1] # i
        BY <1>0, <2>1
      <4>2. t.next[c[x]] = s.next[q[x + 1]]
        BY <1>0, <2>5, <3>2, <4>1
      <4>3. s.next[q[x + 1]] = IF x + 1 < n THEN q[x + 2] ELSE NULL
        BY <1>0, <1>7, <4>1
      <4>4. x < n - 1 => c[x + 1] = q[x + 2]
        BY <1>0, <3>2
      <4>. QED
        BY <1>0, <4>2, <4>3, <4>4
    <3>. QED
      BY <1>2, <3>3, <3>4 DEF Linked
  <2>7. \A a \in Keys : a # key => Linked(t.heads[a], t.next, f[a])
    <3>. SUFFICES ASSUME NEW a \in Keys, a # key PROVE Linked(t.heads[a], t.next, f[a])
      OBVIOUS
    <3>1. \A x \in 1 .. Len(f[a]) : f[a][x] # i /\ t.next[f[a][x]] = s.next[f[a][x]]
      BY <1>0, <1>1, <1>8, <1>9, <2>5
    <3>. QED
      BY <1>1, <2>4, <3>1 DEF Linked
  <2>. QED
    BY <1>4, <2>3, <2>6, <2>7
<1>13. ASSUME s.heads[key] # i
       PROVE  t \in Links /\ \A a \in Keys : Linked(t.heads[a], t.next, g[a])
  <2>1. p > 1
    BY <1>0, <1>6, <1>13
  <2>. DEFINE nx == [x \in Indices |-> IF x = i THEN NULL
                      ELSE IF s.next[x] = i /\ x \in Range(q) THEN s.next[i] ELSE s.next[x]]
  <2>2. t = [heads |-> s.heads, next |-> nx]
    BY <1>10, <1>11, <1>13
  <2>3. nx \in [Indices -> Ends]
    BY <1>5 DEF Ends
  <2>4. \A x \in Indices : x # i => nx[x] = IF s.next[x] = i /\ x \in Range(q)
                                            THEN s.next[i] ELSE s.next[x]
    OBVIOUS
  <2>. HIDE DEF nx
  <2>5. t \in Links /\ t.heads = s.heads /\ t.next = nx
    BY <1>5, <2>2, <2>3 DEF Links
  <2>6. Linked(t.heads[key], t.next, c)
    <3>1. t.heads[key] = IF c = << >> THEN NULL ELSE c[1]
      <4>1. n - 1 >= 1 /\ c # << >> /\ c[1] = q[1]
        BY <1>0, <1>2, <2>1, EmptySeq
      <4>. QED
        BY <1>6, <2>5, <4>1
    <3>2. ASSUME NEW x \in 1 .. n - 1
          PROVE  nx[c[x]] = IF x < n - 1 THEN c[x + 1] ELSE NULL
      <4>1. CASE x < p - 1
        <5>1. c[x] = q[x] /\ c[x + 1] = q[x + 1] /\ x < n - 1 /\ x \in 1 .. n /\ x + 1 \in 1 .. n
          BY <1>0, <1>2, <4>1
        <5>2. s.next[q[x]] = q[x + 1] /\ q[x + 1] # i /\ q[x] # i
          BY <1>0, <1>7, <4>1, <5>1
        <5>3. nx[q[x]] = q[x + 1]
          BY <1>0, <2>4, <5>1, <5>2
        <5>. QED
          BY <5>1, <5>3
      <4>2. CASE x = p - 1
        <5>1. c[x] = q[x] /\ x \in 1 .. n /\ x + 1 = p /\ x < n
          BY <1>0, <1>2, <4>2
        <5>2. s.next[q[x]] = i /\ q[x] # i /\ q[x] \in Range(q)
          BY <1>0, <1>7, <1>8, <5>1
        <5>3. nx[q[x]] = s.next[i]
          BY <1>0, <2>4, <5>1, <5>2
        <5>4. s.next[i] = IF p < n THEN q[p + 1] ELSE NULL
          BY <1>0, <1>7
        <5>5. p < n => c[p] = q[p + 1]
          BY <1>0, <1>2
        <5>. QED
          BY <1>0, <5>1, <5>3, <5>4, <5>5
      <4>3. CASE x > p - 1
        <5>1. c[x] = q[x + 1] /\ x + 1 \in 1 .. n /\ x + 1 # p /\ (x < n - 1 => c[x + 1] = q[x + 2])
          BY <1>0, <1>2, <4>3
        <5>2. s.next[q[x + 1]] = (IF x + 1 < n THEN q[x + 2] ELSE NULL) /\ q[x + 1] # i
          BY <1>0, <1>7, <5>1
        <5>3. s.next[q[x + 1]] # i
          <6>1. x + 1 < n => x + 2 \in 1 .. n /\ x + 2 # p
            BY <1>0, <4>3
          <6>2. x + 1 < n => q[x + 2] # i
            BY <1>0, <6>1
          <6>. QED
            BY <1>5, <5>2, <6>2, RingSizes
        <5>4. nx[q[x + 1]] = s.next[q[x + 1]]
          BY <1>0, <2>4, <5>1, <5>2, <5>3
        <5>. QED
          BY <1>0, <5>1, <5>2, <5>4
      <4>. QED
        BY <1>0, <4>1, <4>2, <4>3
    <3>. QED
      BY <1>2, <2>5, <3>1, <3>2 DEF Linked
  <2>7. \A a \in Keys : a # key => Linked(t.heads[a], t.next, f[a])
    <3>. SUFFICES ASSUME NEW a \in Keys, a # key PROVE Linked(t.heads[a], t.next, f[a])
      OBVIOUS
    <3>1. \A x \in 1 .. Len(f[a]) : f[a][x] # i /\ nx[f[a][x]] = s.next[f[a][x]]
      BY <1>0, <1>1, <1>8, <1>9, <2>4
    <3>. QED
      BY <1>1, <2>5, <3>1 DEF Linked
  <2>. QED
    BY <1>4, <2>5, <2>6, <2>7
<1>14. Apart(g)
  <2>1. \A a \in Keys : \A x \in 1 .. Len(g[a]) : \E y \in 1 .. Len(f[a]) :
          /\ g[a][x] = f[a][y]
          /\ y = IF a = key /\ ~ (x < p) THEN x + 1 ELSE x
    <3>. SUFFICES ASSUME NEW a \in Keys, NEW x \in 1 .. Len(g[a])
                  PROVE  \E y \in 1 .. Len(f[a]) :
                           /\ g[a][x] = f[a][y]
                           /\ y = IF a = key /\ ~ (x < p) THEN x + 1 ELSE x
      OBVIOUS
    <3>1. CASE a # key
      BY <1>4, <3>1
    <3>2. CASE a = key
      <4>1. x \in 1 .. n - 1
        BY <1>2, <1>4, <3>2
      <4>2. CASE x < p
        <5>1. x \in 1 .. n /\ c[x] = q[x]
          BY <1>0, <1>2, <4>1, <4>2
        <5>. QED
          BY <1>4, <3>2, <4>2, <5>1 DEF q, n
      <4>3. CASE ~ (x < p)
        <5>1. x + 1 \in 1 .. n /\ c[x] = q[x + 1]
          BY <1>0, <1>2, <4>1, <4>3
        <5>. QED
          BY <1>4, <3>2, <4>3, <5>1 DEF q, n
      <4>. QED
        BY <4>2, <4>3
    <3>. QED
      BY <3>1, <3>2
  <2>2. Apart(f)
    BY DEF Lists
  <2>3. ASSUME NEW a \in Keys, NEW b \in Keys, NEW x \in 1 .. Len(g[a]),
               NEW y \in 1 .. Len(g[b]), g[a][x] = g[b][y]
        PROVE  a = b /\ x = y
    <3>1. PICK x2 \in 1 .. Len(f[a]) : /\ g[a][x] = f[a][x2]
                                       /\ x2 = IF a = key /\ ~ (x < p) THEN x + 1 ELSE x
      BY <2>1
    <3>2. PICK y2 \in 1 .. Len(f[b]) : /\ g[b][y] = f[b][y2]
                                       /\ y2 = IF b = key /\ ~ (y < p) THEN y + 1 ELSE y
      BY <2>1
    <3>3. a = b /\ x2 = y2
      <4>1. f[a][x2] = f[b][y2]
        BY <2>3, <3>1, <3>2
      <4>. QED
        BY <2>2, <4>1 DEF Apart
    <3>4. Len(g[a]) \in Nat /\ Len(g[b]) \in Nat
      BY <1>4
    <3>. QED
      BY <1>0, <3>1, <3>2, <3>3, <3>4
  <2>. QED
    BY <2>3 DEF Apart
<1>15. t \in Links /\ \A a \in Keys : Linked(t.heads[a], t.next, g[a])
  BY <1>4, <1>12, <1>13
<1>. QED
  BY <1>4, <1>14, <1>15 DEF Lists, t, g, c, q

(* AddChar, AddString.                                                       *)
LEMMA AddedIs ==
  ASSUME NEW s, NEW f, Lists(s, f), NEW key \in Keys, NEW i \in Indices,
         \A a \in Keys : \A x \in 1 .. Len(f[a]) : f[a][x] # i
  PROVE  Lists(List!Added(i, key, s), [f EXCEPT ![key] = Append(f[key], i)])
<1>. DEFINE q == f[key]
            n == Len(q)
            e == [s EXCEPT !.next[i] = NULL]
            t == List!Added(i, key, s)
            c == Append(q, i)
            g == [f EXCEPT ![key] = c]
<1>1. /\ s \in Links /\ f \in [Keys -> Seq(Indices)]
      /\ \A a \in Keys : f[a] \in Seq(Indices) /\ Len(f[a]) \in Nat
                         /\ Linked(s.heads[a], s.next, f[a])
                         /\ \A x \in 1 .. Len(f[a]) : f[a][x] \in Indices
  BY DEF Lists
<1>2. /\ q \in Seq(Indices) /\ n \in Nat
      /\ \A x, y \in 1 .. n : q[x] = q[y] => x = y
      /\ \A x \in 1 .. n : q[x] \in Indices
  BY <1>1 DEF Lists, Apart
<1>3. /\ c \in Seq(Indices) /\ Len(c) = n + 1 /\ c[n + 1] = i
      /\ \A x \in 1 .. n : c[x] = q[x]
  BY <1>2
<1>4. /\ g \in [Keys -> Seq(Indices)] /\ g[key] = c
      /\ \A a \in Keys : a # key => g[a] = f[a]
  BY <1>1, <1>3
<1>5. /\ s.heads \in [Keys -> Ends] /\ s.next \in [Indices -> Ends]
      /\ s = [heads |-> s.heads, next |-> s.next]
  BY <1>1 DEF Links
<1>. DEFINE ex == [s.next EXCEPT ![i] = NULL]
<1>6. /\ ex \in [Indices -> Ends] /\ ex[i] = NULL
      /\ \A x \in Indices : x # i => ex[x] = s.next[x]
  BY <1>5 DEF Ends
<1>7. e = [heads |-> s.heads, next |-> ex]
  BY <1>5
<1>. HIDE DEF ex, c, g
<1>8. \A a \in Keys : Linked(s.heads[a], ex, f[a])
  <2>. SUFFICES ASSUME NEW a \in Keys PROVE Linked(s.heads[a], ex, f[a])
    OBVIOUS
  <2>1. \A x \in 1 .. Len(f[a]) : ex[f[a][x]] = s.next[f[a][x]]
    BY <1>1, <1>6
  <2>. QED
    BY <1>1, <2>1 DEF Linked
<1>9. Lists(e, f)
  <2>1. e \in Links /\ e.heads = s.heads /\ e.next = ex
    BY <1>5, <1>6, <1>7 DEF Links
  <2>. QED
    BY <1>1, <1>8, <2>1 DEF Lists
<1>10. List!Chain(key, e) = q
  BY <1>9, ChainIs
<1>. HIDE DEF q, n
<1>11. t = IF s.heads[key] = NULL THEN [e EXCEPT !.heads[key] = i]
           ELSE [e EXCEPT !.next[Last(q)] = i]
  BY <1>10 DEF List!Added, NULL, List!Last, Last
<1>12. Linked(s.heads[key], ex, q)
  BY <1>8 DEF q
<1>. HIDE DEF t, e
<1>13. ASSUME q = << >>
       PROVE  t \in Links /\ \A a \in Keys : Linked(t.heads[a], t.next, g[a])
  <2>1. s.heads[key] = NULL
    BY <1>12, <1>13 DEF Linked
  <2>2. t = [heads |-> [s.heads EXCEPT ![key] = i], next |-> ex]
    BY <1>7, <1>11, <2>1
  <2>3. t \in Links
    BY <1>5, <1>6, <2>2 DEF Links, Ends
  <2>4. /\ t.heads[key] = i /\ t.next = ex
        /\ \A a \in Keys : a # key => t.heads[a] = s.heads[a]
    BY <1>5, <2>2
  <2>5. Linked(t.heads[key], t.next, c)
    <3>1. n = 0
      BY <1>13 DEF n
    <3>2. Len(c) = 1 /\ c[1] = i /\ c # << >>
      BY <1>3, <3>1, EmptySeq
    <3>. QED
      BY <1>6, <2>4, <3>2 DEF Linked
  <2>6. \A a \in Keys : a # key => Linked(t.heads[a], t.next, f[a])
    BY <1>8, <2>4
  <2>. QED
    BY <1>4, <2>3, <2>5, <2>6
<1>14. ASSUME q # << >>
       PROVE  t \in Links /\ \A a \in Keys : Linked(t.heads[a], t.next, g[a])
  <2>1. n \in Nat \ {0} /\ Last(q) = q[n] /\ q[n] \in Indices
    BY <1>2, <1>14, LastFront DEF n
  <2>2. 1 \in 1 .. n /\ n \in 1 .. n
    BY <2>1
  <2>3. s.heads[key] = q[1] /\ s.heads[key] # NULL
    BY <1>2, <1>12, <1>14, <2>2, RingSizes DEF Linked
  <2>. DEFINE nx == [ex EXCEPT ![q[n]] = i]
  <2>4. t = [heads |-> s.heads, next |-> nx]
    BY <1>7, <1>11, <2>1, <2>3
  <2>5. /\ nx \in [Indices -> Ends] /\ nx[q[n]] = i
        /\ \A x \in Indices : x # q[n] => nx[x] = ex[x]
    BY <1>6, <2>1 DEF Ends
  <2>. HIDE DEF nx
  <2>6. t \in Links /\ t.heads = s.heads /\ t.next = nx
    BY <1>5, <2>4, <2>5 DEF Links
  <2>7. Linked(t.heads[key], nx, c)
    <3>1. t.heads[key] = IF c = << >> THEN NULL ELSE c[1]
      BY <1>2, <1>3, <2>2, <2>3, <2>6, EmptySeq
    <3>2. ASSUME NEW x \in 1 .. n + 1
          PROVE  nx[c[x]] = IF x < n + 1 THEN c[x + 1] ELSE NULL
      <4>1. CASE x < n
        <5>1. x \in 1 .. n /\ x + 1 \in 1 .. n /\ c[x] = q[x] /\ c[x + 1] = q[x + 1]
          BY <1>2, <1>3, <4>1
        <5>2. q[x] # q[n] /\ q[x] \in Indices
          BY <1>2, <2>2, <4>1, <5>1
        <5>3. ex[q[x]] = q[x + 1]
          BY <1>12, <4>1, <5>1 DEF Linked, n
        <5>. QED
          BY <1>2, <2>5, <5>1, <5>2, <5>3
      <4>2. CASE x = n
        BY <1>2, <1>3, <2>2, <2>5, <4>2
      <4>3. CASE x = n + 1
        <5>1. c[x] = i /\ i # q[n]
          BY <1>3, <2>2, <4>3 DEF q, n
        <5>. QED
          BY <1>2, <1>6, <2>5, <4>3, <5>1
      <4>. QED
        BY <1>2, <4>1, <4>2, <4>3
    <3>. QED
      BY <1>3, <3>1, <3>2 DEF Linked
  <2>8. \A a \in Keys : a # key => Linked(t.heads[a], nx, f[a])
    <3>. SUFFICES ASSUME NEW a \in Keys, a # key PROVE Linked(t.heads[a], nx, f[a])
      OBVIOUS
    <3>1. \A x \in 1 .. Len(f[a]) : f[a][x] # q[n]
      <4>1. \A x \in 1 .. Len(f[a]) : \A y \in 1 .. Len(f[key]) : f[a][x] # f[key][y]
        BY DEF Lists, Apart
      <4>. QED
        BY <2>2, <4>1 DEF q, n
    <3>2. \A x \in 1 .. Len(f[a]) : nx[f[a][x]] = ex[f[a][x]]
      BY <1>1, <2>5, <3>1
    <3>. QED
      BY <1>8, <2>6, <3>2 DEF Linked
  <2>. QED
    BY <1>4, <2>6, <2>7, <2>8
<1>15. Apart(g)
  <2>1. Apart(f) /\ \A a \in Keys : \A x \in 1 .. Len(f[a]) : f[a][x] # i
    BY DEF Lists
  <2>2. \A a \in Keys : \A x \in 1 .. Len(g[a]) :
          \/ x \in 1 .. Len(f[a]) /\ g[a][x] = f[a][x]
          \/ a = key /\ x = n + 1 /\ g[a][x] = i
    <3>. SUFFICES ASSUME NEW a \in Keys, NEW x \in 1 .. Len(g[a])
                  PROVE  \/ x \in 1 .. Len(f[a]) /\ g[a][x] = f[a][x]
                         \/ a = key /\ x = n + 1 /\ g[a][x] = i
      OBVIOUS
    <3>1. CASE a # key
      BY <1>4, <3>1
    <3>2. CASE a = key
      <4>1. x \in 1 .. n \/ x = n + 1
        BY <1>2, <1>3, <1>4, <3>2
      <4>. QED
        BY <1>3, <1>4, <3>2, <4>1 DEF q, n
    <3>. QED
      BY <3>1, <3>2
  <2>3. ASSUME NEW a \in Keys, NEW b \in Keys, NEW x \in 1 .. Len(g[a]),
               NEW y \in 1 .. Len(g[b]), g[a][x] = g[b][y]
        PROVE  a = b /\ x = y
    <3>1. CASE x \in 1 .. Len(f[a]) /\ g[a][x] = f[a][x] /\ y \in 1 .. Len(f[b]) /\ g[b][y] = f[b][y]
      <4>1. f[a][x] = f[b][y]
        BY <2>3, <3>1
      <4>. QED
        BY <2>1, <3>1, <4>1 DEF Apart
    <3>2. CASE g[a][x] = i \/ g[b][y] = i
      BY <2>1, <2>2, <2>3, <3>2
    <3>. QED
      BY <2>2, <3>1, <3>2
  <2>. QED
    BY <2>3 DEF Apart
<1>. QED
  BY <1>4, <1>13, <1>14, <1>15 DEF Lists, t, g, c, q

-------------------------------------------------------------------------------
(* Positions in the rings. *)

(* The remainder of a number between minus the divisor and the divisor.      *)
LEMMA RemainderAround ==
  ASSUME NEW d \in Nat \ {0}, NEW y \in Int, - d <= y, y < d
  PROVE  y % d = IF y < 0 THEN y + d ELSE y
<1>1. CASE y >= 0
  <2>1. y \in 0 .. d - 1 /\ d * 0 + y = y
    BY <1>1
  <2>2. (d * 0 + y) % d = y
    BY <2>1, Remainder
  <2>. QED
    BY <1>1, <2>1, <2>2
<1>2. CASE y < 0
  <2>. DEFINE q == y \div d
              r == y % d
  <2>1. q \in Int /\ r \in 0 .. d - 1 /\ y = d * q + r
    BY SMT
  <2>. HIDE DEF q, r
  <2>2. ~ (q >= 0)
    <3>. SUFFICES ASSUME q >= 0 PROVE FALSE
      OBVIOUS
    <3>1. d * q >= 0
      BY <2>1
    <3>. QED
      BY <1>2, <2>1, <3>1
  <2>3. ~ (q <= -2)
    <3>. SUFFICES ASSUME q <= -2 PROVE FALSE
      OBVIOUS
    <3>. DEFINE e == -2 - q
    <3>1. e \in Nat /\ q = -2 - e
      BY <2>1
    <3>. HIDE DEF e
    <3>2. d * q = -2 * d - d * e /\ d * e \in Nat
      BY <3>1
    <3>. QED
      BY <2>1, <3>2
  <2>4. q = -1
    BY <2>1, <2>2, <2>3
  <2>5. y = r - d
    BY <2>1, <2>4
  <2>. QED
    BY <1>2, <2>1, <2>5 DEF r
<1>. QED
  BY <1>1, <1>2

(* Positions of the window that are wrapped are in the window.               *)
LEMMA WrapInside ==
  ASSUME NEW i \in Indices, NEW n \in 0 .. WINDOW_SIZE
  PROVE  Wrap(i + n, WINDOW_SIZE) \in Indices
BY RingSizes DEF Wrap, Indices

(* The strings that contain the byte that is replaced.                       *)
LEMMA BehindIs ==
  ASSUME NEW n \in 0 .. MAX_CODED, windowHead \in Indices
  PROVE  /\ Behind(n) \in Seq(Indices) /\ Len(Behind(n)) = n + 1
         /\ \A x, y \in 1 .. n + 1 : Behind(n)[x] = Behind(n)[y] => x = y
         /\ \A i \in Indices, j \in 0 .. n :
              Wrap(i + j, WINDOW_SIZE) = windowHead => i = Behind(n)[n + 1 - j]
<1>. DEFINE d == WINDOW_SIZE
            h == windowHead
            B(x) == IF h + x - 1 - n < 0 THEN h + x - 1 - n + d ELSE h + x - 1 - n
<1>1. d \in Nat \ {0} /\ n \in Nat /\ n + 2 <= d /\ h \in 0 .. d - 1
  BY RingSizes DEF Indices
<1>2. \A x \in 1 .. n + 1 : (h + x - 1 - n) % d = B(x)
  <2>. SUFFICES ASSUME NEW x \in 1 .. n + 1 PROVE (h + x - 1 - n) % d = B(x)
    OBVIOUS
  <2>. DEFINE y == h + x - 1 - n
  <2>1. y \in Int /\ - d <= y /\ y < d
    BY <1>1
  <2>. HIDE DEF y, d
  <2>2. y % d = IF y < 0 THEN y + d ELSE y
    BY <1>1, <2>1, RemainderAround
  <2>. QED
    BY <2>2 DEF y
<1>3. Behind(n) = [x \in 1 .. n + 1 |-> (h + x - 1 - n) % d]
  BY DEF Behind
<1>. HIDE DEF d, h
<1>4. \A x \in 1 .. n + 1 : B(x) \in 0 .. d - 1
  BY <1>1
<1>5. /\ DOMAIN Behind(n) = 1 .. n + 1
      /\ \A x \in 1 .. n + 1 : Behind(n)[x] = B(x) /\ Behind(n)[x] \in 0 .. d - 1
  BY <1>2, <1>3, <1>4
<1>6. Behind(n) \in Seq(0 .. d - 1) /\ Len(Behind(n)) = n + 1
  <2>1. \A x \in 1 .. n + 1 : (h + x - 1 - n) % d \in 0 .. d - 1
    BY <1>2, <1>4
  <2>. QED
    BY <1>1, <1>3, <2>1
<1>7. \A x, y \in 1 .. n + 1 : B(x) = B(y) => x = y
  BY <1>1
<1>8. \A i \in 0 .. d - 1, j \in 0 .. n : Wrap(i + j, d) = h => i = B(n + 1 - j)
  BY <1>1 DEF Wrap
<1>9. Indices = 0 .. d - 1 /\ WINDOW_SIZE = d /\ windowHead = h
  BY DEF Indices, d, h
<1>10. \A j \in 0 .. n : n + 1 - j \in 1 .. n + 1
  BY <1>1
<1>. HIDE DEF B
<1>. QED
  BY <1>5, <1>6, <1>7, <1>8, <1>9, <1>10

-------------------------------------------------------------------------------
(* The lists hold indices. *)

(* The exclusive or of two numbers is a number.                              *)
LEMMA XorIsInteger ==
  ASSUME NEW a \in Nat, NEW b \in Nat
  PROVE  Xor(a, b) \in Int
<1>. DEFINE T == 0 .. 30
            bit == [x \in T |-> (((a \div 2 ^ x) + (b \div 2 ^ x)) % 2) * 2 ^ x]
<1>1. IsFiniteSet(T)
  <2>1. 0 \in Int /\ 30 \in Int
    OBVIOUS
  <2>. QED
    BY <2>1, FS_Interval, Zenon
<1>2. ASSUME NEW x \in T PROVE bit[x] \in Int
  <2>. DEFINE p == 2 ^ x
  <2>1. p \in Nat \ {0}
    BY PowersPositive
  <2>2. bit[x] = (((a \div p) + (b \div p)) % 2) * p
    OBVIOUS
  <2>. HIDE DEF p, bit
  <2>3. a \div p \in Int /\ b \div p \in Int
    BY <2>1, Remainder
  <2>4. ((a \div p) + (b \div p)) % 2 \in Int
    BY <2>3
  <2>. QED
    BY <2>1, <2>2, <2>4
<1>3. DOMAIN bit = T /\ Xor(a, b) = SumFunctionOnSet(bit, DOMAIN bit)
  BY DEF Xor, SumFunction
<1>. HIDE DEF bit, T
<1>. QED
  BY <1>1, <1>2, <1>3, SumIsInteger

(* One turn of the loop of HashKey. *)
Mixed(key, c) == Xor(key * 2 ^ HASH_SHIFT, c) % HASH_SIZE

(* Its turns, one after the other.                                           *)
LEMMA HashFrom ==
  ASSUME NEW n \in Nat, NEW seq, DOMAIN seq = 1 .. n, NEW V, NEW base \in V,
         NEW W, base \in W[0],
         \A m \in 1 .. n : \A t \in V : Mixed(t, seq[m]) \in V,
         \A m \in 1 .. n : \A t \in V \cap W[m - 1] : Mixed(t, seq[m]) \in W[m]
  PROVE  FoldLeft(Mixed, base, seq) \in V \cap W[n]
<1>. DEFINE T == 1 .. n
            op(x, t) == Mixed(t, seq[x])
            Is(h) == h = [S \in SUBSET T |-> IF S = {} THEN base
                                             ELSE op(Max(S), h[S \ {Max(S)}])]
            g == [p \in T \X V |-> op(p[1], p[2])]
            H == CHOOSE x : Is(x)
            U == [m \in 0 .. n |-> V \cap W[m]]
<1>1. FoldLeft(Mixed, base, seq) = H[T]
  BY DEF FoldLeft, FoldLeft, MapThenFoldSet
<1>2. \A x \in T, t \in V : op(x, t) \in V
  OBVIOUS
<1>3. \A m \in 1 .. n : \A t \in V \cap W[m - 1] : op(m, t) \in W[m]
  OBVIOUS
<1>. HIDE DEF op
<1>4. \A x \in T, t \in V : g[<<x, t>>] = op(x, t) /\ g[<<x, t>>] \in V
  BY <1>2
<1>. HIDE DEF g
<1>5. \E h : Is(h)
  <2>1. PICK h \in [SUBSET T -> V] : IsLeftFold(h, g, base, n)
    <3>1. \A x \in 1 .. n, t \in V : g[<<x, t>>] \in V
      BY <1>4
    <3>. QED
      BY <3>1, LeftFoldExists
  <2>2. ASSUME NEW S \in SUBSET T, S # {} PROVE Max(S) \in T
    <3>1. S \in SUBSET (0 .. n)
      OBVIOUS
    <3>. QED
      BY <2>2, <3>1, MaxIn
  <2>3. ASSUME NEW S \in SUBSET T, S # {}
        PROVE  h[S] = op(Max(S), h[S \ {Max(S)}])
    BY <1>4, <2>1, <2>2, <2>3 DEF IsLeftFold
  <2>4. Is(h)
    BY <2>1, <2>3 DEF IsLeftFold
  <2>. QED
    BY <2>4
<1>6. Is(H)
  BY <1>5
<1>7. \A S \in SUBSET T : H[S] = IF S = {} THEN base ELSE op(Max(S), H[S \ {Max(S)}])
  BY <1>6
<1>. HIDE DEF H
<1>8. H[1 .. 0] \in U[0]
  <2>1. 1 .. 0 = {} /\ {} \in SUBSET T
    OBVIOUS
  <2>2. H[1 .. 0] = base
    BY <1>7, <2>1
  <2>. QED
    BY <2>2
<1>9. ASSUME NEW m \in 1 .. n, H[1 .. (m - 1)] \in U[m - 1] PROVE H[1 .. m] \in U[m]
  <2>1. /\ 1 .. m \in SUBSET T /\ 1 .. m # {}
        /\ Max(1 .. m) = m /\ (1 .. m) \ {m} = 1 .. (m - 1)
    BY PrefixSteps
  <2>2. H[1 .. m] = op(Max(1 .. m), H[(1 .. m) \ {Max(1 .. m)}])
    BY <1>7, <2>1
  <2>3. H[1 .. m] = op(m, H[1 .. (m - 1)])
    BY <2>1, <2>2
  <2>4. m \in 0 .. n /\ m - 1 \in 0 .. n /\ m \in T
    OBVIOUS
  <2>5. H[1 .. (m - 1)] \in V \cap W[m - 1]
    BY <1>9, <2>4
  <2>6. H[1 .. m] \in V /\ H[1 .. m] \in W[m]
    BY <1>2, <1>3, <2>3, <2>4, <2>5
  <2>. QED
    BY <2>4, <2>6
<1>. HIDE DEF U
<1>10. H[T] \in U[n]
  BY <1>8, <1>9, PrefixInduction
<1>11. H[T] \in V \cap W[n]
  BY <1>10 DEF U
<1>. QED
  BY <1>1, <1>11


(* The string of MAX_UNCODED + 1 bytes of a ring. *)
Hashed(ring, offset, limit) ==
  [n \in 1 .. MAX_UNCODED + 1 |-> ring[Wrap(offset + n - 1, limit)]]

(* HashKey is this loop, and its result is the number of a list.             *)
LEMMA HashRange ==
  ASSUME NEW ring, NEW offset, NEW limit,
         \A n \in 1 .. MAX_UNCODED + 1 : ring[Wrap(offset + n - 1, limit)] \in Nat
  PROVE  HashKey(ring, offset, limit) \in 0 .. HASH_SIZE - 1
<1>. DEFINE V == 0 .. HASH_SIZE - 1
            n == MAX_UNCODED + 1
            W == [m \in 0 .. n |-> V]
            seq == Hashed(ring, offset, limit)
<1>1. MAX_UNCODED \in Nat /\ n \in Nat
  BY RingSizes
<1>2. HASH_SIZE \in Nat \ {0} /\ HASH_SHIFT \in Nat /\ 2 ^ HASH_SHIFT \in Nat \ {0}
  BY MatchersAssumption, PowersPositive
<1>3. HashKey(ring, offset, limit) = FoldLeft(Mixed, 0, seq)
  BY DEF HashKey, Mixed, Hashed, FoldLeft, MapThenFoldSet
<1>4. DOMAIN seq = 1 .. n /\ \A m \in 1 .. n : seq[m] \in Nat
  BY DEF Hashed
<1>. HIDE DEF seq
<1>5. \A m \in 1 .. n : \A t \in V : Mixed(t, seq[m]) \in V
  <2>. SUFFICES ASSUME NEW m \in 1 .. n, NEW t \in V
                PROVE  Mixed(t, seq[m]) \in V
    OBVIOUS
  <2>1. t * 2 ^ HASH_SHIFT \in Nat
    BY <1>2
  <2>2. Xor(t * 2 ^ HASH_SHIFT, seq[m]) \in Int
    BY <1>4, <2>1, XorIsInteger
  <2>. QED
    BY <1>2, <2>2 DEF Mixed
<1>6. 0 \in V
  BY <1>2
<1>. HIDE DEF V, n
<1>7. 0 \in W[0] /\ \A m \in 1 .. n : W[m] = V
  BY <1>1, <1>6
<1>. HIDE DEF W
<1>8. FoldLeft(Mixed, 0, seq) \in V \cap W[n]
  <2>1. \A m \in 1 .. n : \A t \in V \cap W[m - 1] : Mixed(t, seq[m]) \in W[m]
    BY <1>5, <1>7
  <2>. QED
    BY <1>1, <1>4, <1>5, <1>6, <1>7, <2>1, HashFrom
<1>. QED
  BY <1>3, <1>8 DEF V

(* The key depends on the bytes of the string only.                          *)
LEMMA SameHash ==
  ASSUME NEW ring, NEW offset, NEW limit, NEW ring2, NEW offset2, NEW limit2,
         \A n \in 1 .. MAX_UNCODED + 1 :
           ring[Wrap(offset + n - 1, limit)] = ring2[Wrap(offset2 + n - 1, limit2)]
  PROVE  HashKey(ring, offset, limit) = HashKey(ring2, offset2, limit2)
<1>1. Hashed(ring, offset, limit) = Hashed(ring2, offset2, limit2)
  BY DEF Hashed
<1>2. /\ HashKey(ring, offset, limit) = FoldLeft(Mixed, 0, Hashed(ring, offset, limit))
      /\ HashKey(ring2, offset2, limit2) = FoldLeft(Mixed, 0, Hashed(ring2, offset2, limit2))
  BY DEF HashKey, Mixed, Hashed, FoldLeft, MapThenFoldSet
<1>. QED
  BY <1>1, <1>2

(* The key of a string of the window is that of a list.                      *)
LEMMA KeyRange ==
  ASSUME method \in {"list", "hash"}, NEW ring \in [Indices -> Chars], NEW i \in Indices
  PROVE  Key(ring, i, WINDOW_SIZE) \in Keys
<1>1. CASE method = "list"
  BY <1>1 DEF Key, Keys
<1>2. CASE method = "hash"
  <2>1. ASSUME NEW n \in 1 .. MAX_UNCODED + 1
        PROVE  ring[Wrap(i + n - 1, WINDOW_SIZE)] \in Nat
    <3>1. n - 1 \in 0 .. WINDOW_SIZE /\ i + n - 1 = i + (n - 1)
      BY RingSizes DEF Indices
    <3>2. Wrap(i + n - 1, WINDOW_SIZE) \in Indices
      BY <3>1, WrapInside
    <3>. QED
      BY <3>2, MatchersAssumption
  <2>2. HashKey(ring, i, WINDOW_SIZE) \in 0 .. HASH_SIZE - 1
    BY <2>1, HashRange
  <2>. QED
    BY <1>2, <2>2 DEF Key, Keys
<1>. QED
  BY <1>1, <1>2

(* The strings that ReplaceChar moves. *)
Moved == IF method = "list" THEN Behind(0) ELSE Behind(MAX_UNCODED)

(* The other ones keep their keys.                                           *)
LEMMA OthersKeepKey ==
  ASSUME method \in {"list", "hash"}, window \in [Indices -> Chars],
         windowHead \in Indices, NEW ring \in [Indices -> Chars],
         \A x \in Indices : x # windowHead => ring[x] = window[x],
         NEW i \in Indices \ Range(Moved)
  PROVE  Key(ring, i, WINDOW_SIZE) = Key(window, i, WINDOW_SIZE)
<1>. DEFINE n == IF method = "list" THEN 0 ELSE MAX_UNCODED
<1>1. n \in 0 .. MAX_CODED /\ Moved = Behind(n)
  BY RingSizes DEF Moved
<1>2. Range(Behind(n)) = {Behind(n)[x] : x \in 1 .. n + 1}
  BY <1>1, BehindIs DEF Range
<1>3. \A j \in 0 .. n : Wrap(i + j, WINDOW_SIZE) # windowHead
  <2>. SUFFICES ASSUME NEW j \in 0 .. n, Wrap(i + j, WINDOW_SIZE) = windowHead PROVE FALSE
    OBVIOUS
  <2>. HIDE DEF n
  <2>1. i = Behind(n)[n + 1 - j]
    BY <1>1, BehindIs
  <2>2. n + 1 - j \in 1 .. n + 1
    BY <1>1
  <2>. QED
    BY <1>1, <1>2, <2>1, <2>2
<1>4. \A j \in 0 .. n : Wrap(i + j, WINDOW_SIZE) \in Indices
  <2>1. \A j \in 0 .. n : j \in 0 .. WINDOW_SIZE
    BY <1>1, RingSizes
  <2>. QED
    BY <2>1, WrapInside
<1>5. \A j \in 0 .. n : ring[Wrap(i + j, WINDOW_SIZE)] = window[Wrap(i + j, WINDOW_SIZE)]
  BY <1>3, <1>4
<1>6. CASE method = "list"
  <2>1. 0 \in 0 .. n /\ Wrap(i + 0, WINDOW_SIZE) = i
    BY <1>6, RingSizes DEF Wrap, Indices
  <2>2. ring[i] = window[i]
    BY <1>5, <2>1
  <2>. QED
    BY <1>6, <2>2 DEF Key
<1>7. CASE method = "hash"
  <2>1. ASSUME NEW x \in 1 .. MAX_UNCODED + 1
        PROVE  ring[Wrap(i + x - 1, WINDOW_SIZE)] = window[Wrap(i + x - 1, WINDOW_SIZE)]
    <3>1. x - 1 \in 0 .. n /\ i + x - 1 = i + (x - 1)
      BY <1>7, RingSizes DEF Indices
    <3>. QED
      BY <1>5, <3>1
  <2>2. HashKey(ring, i, WINDOW_SIZE) = HashKey(window, i, WINDOW_SIZE)
    BY <2>1, SameHash
  <2>. QED
    BY <1>7, <2>2 DEF Key
<1>. QED
  BY <1>6, <1>7

(* The removal of one string.                                                *)
LEMMA OneRemoved ==
  ASSUME method \in {"list", "hash"}, NEW ring \in [Indices -> Chars],
         NEW S \in SUBSET Indices, NEW s, Holding(s, ring, S), NEW i \in S
  PROVE  Holding(List!Removed(i, Key(ring, i, WINDOW_SIZE), s), ring, S \ {i})
<1>. DEFINE key == Key(ring, i, WINDOW_SIZE)
<1>1. key \in Keys
  BY KeyRange
<1>2. PICK f \in [Keys -> Seq(Indices)] : Lists(s, f) /\ HoldsIn(f, ring, S)
  BY DEF Holding
<1>. HIDE DEF key
<1>3. \A a \in Keys : f[a] \in Seq(Indices) /\ Len(f[a]) \in Nat
                      /\ Range(f[a]) = {x \in S : Key(ring, x, WINDOW_SIZE) = a}
  BY <1>2 DEF HoldsIn
<1>4. i \in Range(f[key])
  BY <1>1, <1>3 DEF key
<1>5. PICK p \in 1 .. Len(f[key]) : f[key][p] = i
  BY <1>1, <1>3, <1>4 DEF Range
<1>. DEFINE q == f[key]
            c == Without(q, p)
            g == [f EXCEPT ![key] = c]
<1>6. Lists(List!Removed(i, key, s), g)
  BY <1>1, <1>2, <1>5, RemovedIs
<1>7. \A x, y \in 1 .. Len(q) : q[x] = q[y] => x = y
  BY <1>1, <1>2 DEF Lists, Apart
<1>8. c \in Seq(Indices) /\ Range(c) = Range(q) \ {i}
  BY <1>1, <1>3, <1>5, <1>7, WithoutOne
<1>. HIDE DEF c
<1>9. g \in [Keys -> Seq(Indices)] /\ g[key] = c /\ \A a \in Keys : a # key => g[a] = f[a]
  BY <1>1, <1>2, <1>8
<1>. HIDE DEF g
<1>10. ASSUME NEW a \in Keys
       PROVE  Range(g[a]) = {x \in S \ {i} : Key(ring, x, WINDOW_SIZE) = a}
  <2>1. CASE a = key
    BY <1>1, <1>3, <1>8, <1>9, <2>1
  <2>2. CASE a # key
    <3>1. Key(ring, i, WINDOW_SIZE) # a
      BY <2>2 DEF key
    <3>. QED
      BY <1>3, <1>9, <2>2, <3>1
  <2>. QED
    BY <2>1, <2>2
<1>. QED
  BY <1>6, <1>9, <1>10 DEF Holding, HoldsIn, key

(* The addition of one string.                                               *)
LEMMA OneAdded ==
  ASSUME method \in {"list", "hash"}, NEW ring \in [Indices -> Chars],
         NEW S \in SUBSET Indices, NEW s, Holding(s, ring, S), NEW i \in Indices \ S
  PROVE  Holding(List!Added(i, Key(ring, i, WINDOW_SIZE), s), ring, S \cup {i})
<1>. DEFINE key == Key(ring, i, WINDOW_SIZE)
<1>1. key \in Keys
  BY KeyRange
<1>2. PICK f \in [Keys -> Seq(Indices)] : Lists(s, f) /\ HoldsIn(f, ring, S)
  BY DEF Holding
<1>. HIDE DEF key
<1>3. \A a \in Keys : f[a] \in Seq(Indices) /\ Len(f[a]) \in Nat
                      /\ Range(f[a]) = {x \in S : Key(ring, x, WINDOW_SIZE) = a}
  BY <1>2 DEF HoldsIn
<1>4. \A a \in Keys : \A x \in 1 .. Len(f[a]) : f[a][x] # i
  <2>. SUFFICES ASSUME NEW a \in Keys, NEW x \in 1 .. Len(f[a]), f[a][x] = i PROVE FALSE
    OBVIOUS
  <2>1. f[a][x] \in Range(f[a])
    BY <1>3 DEF Range
  <2>. QED
    BY <1>3, <2>1
<1>. DEFINE q == f[key]
            c == Append(q, i)
            g == [f EXCEPT ![key] = c]
<1>5. Lists(List!Added(i, key, s), g)
  BY <1>1, <1>2, <1>4, AddedIs
<1>6. c \in Seq(Indices) /\ Range(c) = Range(q) \cup {i}
  <2>1. q \in Seq(Indices)
    BY <1>1, <1>3
  <2>. HIDE DEF q
  <2>2. /\ c \in Seq(Indices) /\ Len(c) = Len(q) + 1 /\ c[Len(q) + 1] = i
        /\ \A x \in 1 .. Len(q) : c[x] = q[x]
        /\ Len(q) \in Nat
    BY <2>1
  <2>. HIDE DEF c
  <2>3. Range(c) = {c[x] : x \in 1 .. Len(q) + 1} /\ Range(q) = {q[x] : x \in 1 .. Len(q)}
    BY <2>1, <2>2 DEF Range
  <2>4. \A x \in 1 .. Len(q) + 1 : x \in 1 .. Len(q) \/ x = Len(q) + 1
    BY <2>2
  <2>5. \A x \in 1 .. Len(q) : x \in 1 .. Len(q) + 1
    BY <2>2
  <2>6. Len(q) + 1 \in 1 .. Len(q) + 1
    BY <2>2
  <2>7. ASSUME NEW v \in Range(c) PROVE v \in Range(q) \cup {i}
    BY <2>2, <2>3, <2>4
  <2>8. ASSUME NEW v \in Range(q) \cup {i} PROVE v \in Range(c)
    BY <2>2, <2>3, <2>5, <2>6
  <2>. QED
    BY <2>2, <2>7, <2>8
<1>. HIDE DEF c
<1>7. g \in [Keys -> Seq(Indices)] /\ g[key] = c /\ \A a \in Keys : a # key => g[a] = f[a]
  BY <1>1, <1>2, <1>6
<1>. HIDE DEF g
<1>8. ASSUME NEW a \in Keys
      PROVE  Range(g[a]) = {x \in S \cup {i} : Key(ring, x, WINDOW_SIZE) = a}
  <2>1. CASE a = key
    <3>1. Key(ring, i, WINDOW_SIZE) = a
      BY <2>1 DEF key
    <3>. QED
      BY <1>1, <1>3, <1>6, <1>7, <2>1, <3>1
  <2>2. CASE a # key
    <3>1. Key(ring, i, WINDOW_SIZE) # a
      BY <2>2 DEF key
    <3>. QED
      BY <1>3, <1>7, <2>2, <3>1
  <2>. QED
    BY <2>1, <2>2
<1>. QED
  BY <1>5, <1>7, <1>8 DEF Holding, HoldsIn, key

(* All of them are removed, one after the other.                             *)
Taken(ring, s, i) == List!Removed(i, Key(ring, i, WINDOW_SIZE), s)
TakenAll(ring, base, seq) == FoldLeft(LAMBDA s, i : Taken(ring, s, i), base, seq)

LEMMA TakenFrom ==
  ASSUME NEW ring, NEW n \in Nat, NEW seq, DOMAIN seq = 1 .. n, NEW V, NEW base \in V,
         NEW W, base \in W[0],
         \A m \in 1 .. n : \A t \in V : Taken(ring, t, seq[m]) \in V,
         \A m \in 1 .. n : \A t \in V \cap W[m - 1] : Taken(ring, t, seq[m]) \in W[m]
  PROVE  TakenAll(ring, base, seq) \in V \cap W[n]
<1>. DEFINE T == 1 .. n
            op(x, t) == Taken(ring, t, seq[x])
            Is(h) == h = [S \in SUBSET T |-> IF S = {} THEN base
                                             ELSE op(Max(S), h[S \ {Max(S)}])]
            g == [p \in T \X V |-> op(p[1], p[2])]
            H == CHOOSE x : Is(x)
            U == [m \in 0 .. n |-> V \cap W[m]]
<1>1. TakenAll(ring, base, seq) = H[T]
  BY DEF TakenAll, FoldLeft, MapThenFoldSet
<1>2. \A x \in T, t \in V : op(x, t) \in V
  OBVIOUS
<1>3. \A m \in 1 .. n : \A t \in V \cap W[m - 1] : op(m, t) \in W[m]
  OBVIOUS
<1>. HIDE DEF op
<1>4. \A x \in T, t \in V : g[<<x, t>>] = op(x, t) /\ g[<<x, t>>] \in V
  BY <1>2
<1>. HIDE DEF g
<1>5. \E h : Is(h)
  <2>1. PICK h \in [SUBSET T -> V] : IsLeftFold(h, g, base, n)
    <3>1. \A x \in 1 .. n, t \in V : g[<<x, t>>] \in V
      BY <1>4
    <3>. QED
      BY <3>1, LeftFoldExists
  <2>2. ASSUME NEW S \in SUBSET T, S # {} PROVE Max(S) \in T
    <3>1. S \in SUBSET (0 .. n)
      OBVIOUS
    <3>. QED
      BY <2>2, <3>1, MaxIn
  <2>3. ASSUME NEW S \in SUBSET T, S # {}
        PROVE  h[S] = op(Max(S), h[S \ {Max(S)}])
    BY <1>4, <2>1, <2>2, <2>3 DEF IsLeftFold
  <2>4. Is(h)
    BY <2>1, <2>3 DEF IsLeftFold
  <2>. QED
    BY <2>4
<1>6. Is(H)
  BY <1>5
<1>7. \A S \in SUBSET T : H[S] = IF S = {} THEN base ELSE op(Max(S), H[S \ {Max(S)}])
  BY <1>6
<1>. HIDE DEF H
<1>8. H[1 .. 0] \in U[0]
  <2>1. 1 .. 0 = {} /\ {} \in SUBSET T
    OBVIOUS
  <2>2. H[1 .. 0] = base
    BY <1>7, <2>1
  <2>. QED
    BY <2>2
<1>9. ASSUME NEW m \in 1 .. n, H[1 .. (m - 1)] \in U[m - 1] PROVE H[1 .. m] \in U[m]
  <2>1. /\ 1 .. m \in SUBSET T /\ 1 .. m # {}
        /\ Max(1 .. m) = m /\ (1 .. m) \ {m} = 1 .. (m - 1)
    BY PrefixSteps
  <2>2. H[1 .. m] = op(Max(1 .. m), H[(1 .. m) \ {Max(1 .. m)}])
    BY <1>7, <2>1
  <2>3. H[1 .. m] = op(m, H[1 .. (m - 1)])
    BY <2>1, <2>2
  <2>4. m \in 0 .. n /\ m - 1 \in 0 .. n /\ m \in T
    OBVIOUS
  <2>5. H[1 .. (m - 1)] \in V \cap W[m - 1]
    BY <1>9, <2>4
  <2>6. H[1 .. m] \in V /\ H[1 .. m] \in W[m]
    BY <1>2, <1>3, <2>3, <2>4, <2>5
  <2>. QED
    BY <2>4, <2>6
<1>. HIDE DEF U
<1>10. H[T] \in U[n]
  BY <1>8, <1>9, PrefixInduction
<1>11. H[T] \in V \cap W[n]
  BY <1>10 DEF U
<1>. QED
  BY <1>1, <1>11


(* And added again.                                                          *)
Given(ring, s, i) == List!Added(i, Key(ring, i, WINDOW_SIZE), s)
GivenAll(ring, base, seq) == FoldLeft(LAMBDA s, i : Given(ring, s, i), base, seq)

LEMMA GivenFrom ==
  ASSUME NEW ring, NEW n \in Nat, NEW seq, DOMAIN seq = 1 .. n, NEW V, NEW base \in V,
         NEW W, base \in W[0],
         \A m \in 1 .. n : \A t \in V : Given(ring, t, seq[m]) \in V,
         \A m \in 1 .. n : \A t \in V \cap W[m - 1] : Given(ring, t, seq[m]) \in W[m]
  PROVE  GivenAll(ring, base, seq) \in V \cap W[n]
<1>. DEFINE T == 1 .. n
            op(x, t) == Given(ring, t, seq[x])
            Is(h) == h = [S \in SUBSET T |-> IF S = {} THEN base
                                             ELSE op(Max(S), h[S \ {Max(S)}])]
            g == [p \in T \X V |-> op(p[1], p[2])]
            H == CHOOSE x : Is(x)
            U == [m \in 0 .. n |-> V \cap W[m]]
<1>1. GivenAll(ring, base, seq) = H[T]
  BY DEF GivenAll, FoldLeft, MapThenFoldSet
<1>2. \A x \in T, t \in V : op(x, t) \in V
  OBVIOUS
<1>3. \A m \in 1 .. n : \A t \in V \cap W[m - 1] : op(m, t) \in W[m]
  OBVIOUS
<1>. HIDE DEF op
<1>4. \A x \in T, t \in V : g[<<x, t>>] = op(x, t) /\ g[<<x, t>>] \in V
  BY <1>2
<1>. HIDE DEF g
<1>5. \E h : Is(h)
  <2>1. PICK h \in [SUBSET T -> V] : IsLeftFold(h, g, base, n)
    <3>1. \A x \in 1 .. n, t \in V : g[<<x, t>>] \in V
      BY <1>4
    <3>. QED
      BY <3>1, LeftFoldExists
  <2>2. ASSUME NEW S \in SUBSET T, S # {} PROVE Max(S) \in T
    <3>1. S \in SUBSET (0 .. n)
      OBVIOUS
    <3>. QED
      BY <2>2, <3>1, MaxIn
  <2>3. ASSUME NEW S \in SUBSET T, S # {}
        PROVE  h[S] = op(Max(S), h[S \ {Max(S)}])
    BY <1>4, <2>1, <2>2, <2>3 DEF IsLeftFold
  <2>4. Is(h)
    BY <2>1, <2>3 DEF IsLeftFold
  <2>. QED
    BY <2>4
<1>6. Is(H)
  BY <1>5
<1>7. \A S \in SUBSET T : H[S] = IF S = {} THEN base ELSE op(Max(S), H[S \ {Max(S)}])
  BY <1>6
<1>. HIDE DEF H
<1>8. H[1 .. 0] \in U[0]
  <2>1. 1 .. 0 = {} /\ {} \in SUBSET T
    OBVIOUS
  <2>2. H[1 .. 0] = base
    BY <1>7, <2>1
  <2>. QED
    BY <2>2
<1>9. ASSUME NEW m \in 1 .. n, H[1 .. (m - 1)] \in U[m - 1] PROVE H[1 .. m] \in U[m]
  <2>1. /\ 1 .. m \in SUBSET T /\ 1 .. m # {}
        /\ Max(1 .. m) = m /\ (1 .. m) \ {m} = 1 .. (m - 1)
    BY PrefixSteps
  <2>2. H[1 .. m] = op(Max(1 .. m), H[(1 .. m) \ {Max(1 .. m)}])
    BY <1>7, <2>1
  <2>3. H[1 .. m] = op(m, H[1 .. (m - 1)])
    BY <2>1, <2>2
  <2>4. m \in 0 .. n /\ m - 1 \in 0 .. n /\ m \in T
    OBVIOUS
  <2>5. H[1 .. (m - 1)] \in V \cap W[m - 1]
    BY <1>9, <2>4
  <2>6. H[1 .. m] \in V /\ H[1 .. m] \in W[m]
    BY <1>2, <1>3, <2>3, <2>4, <2>5
  <2>. QED
    BY <2>4, <2>6
<1>. HIDE DEF U
<1>10. H[T] \in U[n]
  BY <1>8, <1>9, PrefixInduction
<1>11. H[T] \in V \cap W[n]
  BY <1>10 DEF U
<1>. QED
  BY <1>1, <1>11


(* The first elements of a sequence. *)
Firsts(q, m) == {q[x] : x \in 1 .. m}

(* After the removals the lists hold the other indices.                      *)
LEMMA AllRemoved ==
  ASSUME method \in {"list", "hash"}, NEW ring \in [Indices -> Chars],
         NEW s, Holding(s, ring, Indices), NEW q \in Seq(Indices),
         \A x, y \in 1 .. Len(q) : q[x] = q[y] => x = y
  PROVE  Holding(TakenAll(ring, s, q), ring, Indices \ Range(q))
<1>. DEFINE n == Len(q)
            V == {t \in Links : TRUE}
            W == [m \in 0 .. n |-> {t \in Links : Holding(t, ring, Indices \ Firsts(q, m))}]
<1>1. n \in Nat /\ DOMAIN q = 1 .. n /\ \A x \in 1 .. n : q[x] \in Indices
  OBVIOUS
<1>2. \A t, S : Holding(t, ring, S) => t \in Links
  BY DEF Holding, Lists
<1>3. s \in Links /\ s \in W[0]
  <2>1. Firsts(q, 0) = {}
    BY DEF Firsts
  <2>2. Holding(s, ring, Indices \ Firsts(q, 0))
    BY <2>1
  <2>. QED
    BY <1>1, <1>2, <2>2
<1>4. ASSUME NEW m \in 1 .. n, NEW t, Holding(t, ring, Indices \ Firsts(q, m - 1))
      PROVE  Holding(Taken(ring, t, q[m]), ring, Indices \ Firsts(q, m))
  <2>1. q[m] \in Indices /\ q[m] \notin Firsts(q, m - 1)
    <3>1. \A x \in 1 .. m - 1 : x \in 1 .. n /\ x # m
      BY <1>1
    <3>. QED
      BY <1>1, <3>1 DEF Firsts
  <2>2. (Indices \ Firsts(q, m - 1)) \ {q[m]} = Indices \ Firsts(q, m)
    <3>1. \A x \in 1 .. m : x \in 1 .. m - 1 \/ x = m
      OBVIOUS
    <3>2. \A x \in 1 .. m - 1 : x \in 1 .. m
      OBVIOUS
    <3>3. Firsts(q, m) = Firsts(q, m - 1) \cup {q[m]}
      BY <3>1, <3>2 DEF Firsts
    <3>. QED
      BY <3>3
  <2>3. q[m] \in Indices \ Firsts(q, m - 1) /\ Indices \ Firsts(q, m - 1) \in SUBSET Indices
    BY <2>1
  <2>4. Holding(Taken(ring, t, q[m]), ring, (Indices \ Firsts(q, m - 1)) \ {q[m]})
    BY <1>4, <2>3, OneRemoved DEF Taken
  <2>. QED
    BY <2>2, <2>4
<1>5. \A m \in 1 .. n : W[m - 1] \subseteq {t \in Links : Holding(t, ring, Indices \ Firsts(q, m - 1))}
                        /\ W[m] = {t \in Links : Holding(t, ring, Indices \ Firsts(q, m))}
  BY <1>1
<1>6. \A m \in 1 .. n : \A t \in Links \cap W[m - 1] : Taken(ring, t, q[m]) \in W[m]
  BY <1>2, <1>4, <1>5
<1>7. \A m \in 1 .. n : \A t \in Links : Taken(ring, t, q[m]) \in Links
  <2>. SUFFICES ASSUME NEW m \in 1 .. n, NEW t \in Links PROVE Taken(ring, t, q[m]) \in Links
    OBVIOUS
  <2>. DEFINE key == Key(ring, q[m], WINDOW_SIZE)
              i == q[m]
  <2>1. key \in Keys /\ i \in Indices
    BY <1>1, KeyRange
  <2>2. t = [heads |-> t.heads, next |-> t.next] /\ t.heads \in [Keys -> Ends]
        /\ t.next \in [Indices -> Ends] /\ NULL \in Ends
    BY DEF Links, Ends
  <2>3. Taken(ring, t, i) =
          IF t.heads[key] = i
          THEN [t EXCEPT !.heads[key] = t.next[i], !.next[i] = NULL]
          ELSE [t EXCEPT !.next = [x \in Indices |->
                  IF x = i THEN NULL
                  ELSE IF t.next[x] = i /\ x \in Range(List!Chain(key, t))
                       THEN t.next[i] ELSE t.next[x]]]
    BY ListWindow DEF Taken, List!Removed, NULL, List!Range, Range
  <2>. HIDE DEF key, i
  <2>4. CASE t.heads[key] = i
    <3>1. Taken(ring, t, i) = [heads |-> [t.heads EXCEPT ![key] = t.next[i]],
                               next |-> [t.next EXCEPT ![i] = NULL]]
      BY <2>2, <2>3, <2>4
    <3>. QED
      BY <2>1, <2>2, <3>1 DEF Links, i
  <2>5. CASE t.heads[key] # i
    <3>. DEFINE nx == [x \in Indices |-> IF x = i THEN NULL
                         ELSE IF t.next[x] = i /\ x \in Range(List!Chain(key, t))
                              THEN t.next[i] ELSE t.next[x]]
    <3>1. Taken(ring, t, i) = [heads |-> t.heads, next |-> nx]
      BY <2>2, <2>3, <2>5
    <3>2. nx \in [Indices -> Ends]
      BY <2>1, <2>2
    <3>. HIDE DEF nx
    <3>. QED
      BY <2>2, <3>1, <3>2 DEF Links, i
  <2>. QED
    BY <2>4, <2>5
<1>. HIDE DEF W
<1>8. TakenAll(ring, s, q) \in Links \cap W[n]
  BY <1>1, <1>3, <1>6, <1>7, TakenFrom
<1>9. Firsts(q, n) = Range(q)
  BY <1>1 DEF Firsts, Range
<1>10. W[n] = {t \in Links : Holding(t, ring, Indices \ Firsts(q, n))}
  BY <1>1 DEF W
<1>. QED
  BY <1>8, <1>9, <1>10

(* After the additions they hold them all.                                   *)
LEMMA AllAdded ==
  ASSUME method \in {"list", "hash"}, NEW ring \in [Indices -> Chars],
         NEW q \in Seq(Indices), NEW s, Holding(s, ring, Indices \ Range(q)),
         \A x, y \in 1 .. Len(q) : q[x] = q[y] => x = y
  PROVE  Holding(GivenAll(ring, s, q), ring, Indices)
<1>. DEFINE n == Len(q)
            S(m) == (Indices \ Range(q)) \cup Firsts(q, m)
            W == [m \in 0 .. n |-> {t \in Links : Holding(t, ring, S(m))}]
<1>1. n \in Nat /\ DOMAIN q = 1 .. n /\ \A x \in 1 .. n : q[x] \in Indices
  OBVIOUS
<1>2. \A t, T : Holding(t, ring, T) => t \in Links
  BY DEF Holding, Lists
<1>3. s \in Links /\ s \in W[0]
  <2>1. S(0) = Indices \ Range(q)
    BY DEF Firsts
  <2>2. Holding(s, ring, S(0))
    BY <2>1
  <2>3. s \in Links
    BY <1>2
  <2>. HIDE DEF S
  <2>. QED
    BY <1>1, <2>2, <2>3
<1>4. ASSUME NEW m \in 1 .. n, NEW t, Holding(t, ring, S(m - 1))
      PROVE  Holding(Given(ring, t, q[m]), ring, S(m))
  <2>1. q[m] \in Indices /\ q[m] \in Range(q) /\ q[m] \notin Firsts(q, m - 1)
    <3>1. \A x \in 1 .. m - 1 : x \in 1 .. n /\ x # m
      BY <1>1
    <3>. QED
      BY <1>1, <3>1 DEF Firsts, Range
  <2>2. S(m - 1) \cup {q[m]} = S(m)
    <3>1. \A x \in 1 .. m : x \in 1 .. m - 1 \/ x = m
      OBVIOUS
    <3>2. \A x \in 1 .. m - 1 : x \in 1 .. m
      OBVIOUS
    <3>3. Firsts(q, m) = Firsts(q, m - 1) \cup {q[m]}
      BY <3>1, <3>2 DEF Firsts
    <3>. QED
      BY <3>3
  <2>3. q[m] \in Indices \ S(m - 1) /\ S(m - 1) \in SUBSET Indices
    <3>1. Firsts(q, m - 1) \subseteq Indices
      BY <1>1 DEF Firsts
    <3>. QED
      BY <2>1, <3>1
  <2>. HIDE DEF S
  <2>4. Holding(Given(ring, t, q[m]), ring, S(m - 1) \cup {q[m]})
    BY <1>4, <2>3, OneAdded DEF Given
  <2>. QED
    BY <2>2, <2>4
<1>. HIDE DEF S
<1>5. \A m \in 1 .. n : W[m - 1] \subseteq {t \in Links : Holding(t, ring, S(m - 1))}
                        /\ W[m] = {t \in Links : Holding(t, ring, S(m))}
  BY <1>1
<1>6. \A m \in 1 .. n : \A t \in Links \cap W[m - 1] : Given(ring, t, q[m]) \in W[m]
  BY <1>2, <1>4, <1>5
<1>7. \A m \in 1 .. n : \A t \in Links : Given(ring, t, q[m]) \in Links
  <2>. SUFFICES ASSUME NEW m \in 1 .. n, NEW t \in Links PROVE Given(ring, t, q[m]) \in Links
    OBVIOUS
  <2>. DEFINE key == Key(ring, q[m], WINDOW_SIZE)
              i == q[m]
              e == [t EXCEPT !.next[i] = NULL]
              l == List!Last(List!Chain(key, e))
  <2>1. key \in Keys /\ i \in Indices
    BY <1>1, KeyRange
  <2>2. t = [heads |-> t.heads, next |-> t.next] /\ t.heads \in [Keys -> Ends]
        /\ t.next \in [Indices -> Ends] /\ NULL \in Ends
    BY DEF Links, Ends
  <2>3. e = [heads |-> t.heads, next |-> [t.next EXCEPT ![i] = NULL]]
    BY <2>2
  <2>4. Given(ring, t, i) = IF t.heads[key] = NULL THEN [e EXCEPT !.heads[key] = i]
                            ELSE [e EXCEPT !.next[l] = i]
    BY DEF Given, List!Added, NULL
  <2>. HIDE DEF key, i, e, l
  <2>5. Given(ring, t, i) =
          IF t.heads[key] = NULL
          THEN [heads |-> [t.heads EXCEPT ![key] = i], next |-> [t.next EXCEPT ![i] = NULL]]
          ELSE [heads |-> t.heads, next |-> [[t.next EXCEPT ![i] = NULL] EXCEPT ![l] = i]]
    BY <2>3, <2>4
  <2>6. [t.heads EXCEPT ![key] = i] \in [Keys -> Ends]
    BY <2>1, <2>2 DEF Ends
  <2>7. [t.next EXCEPT ![i] = NULL] \in [Indices -> Ends]
    BY <2>1, <2>2
  <2>8. [[t.next EXCEPT ![i] = NULL] EXCEPT ![l] = i] \in [Indices -> Ends]
    <3>. DEFINE nx == [t.next EXCEPT ![i] = NULL]
    <3>1. nx \in [Indices -> Ends] /\ i \in Ends
      BY <2>1, <2>7 DEF Ends
    <3>. HIDE DEF nx
    <3>2. [nx EXCEPT ![l] = i] = [x \in Indices |-> IF x = l THEN i ELSE nx[x]]
      BY <3>1
    <3>3. \A x \in Indices : (IF x = l THEN i ELSE nx[x]) \in Ends
      BY <3>1
    <3>4. [nx EXCEPT ![l] = i] \in [Indices -> Ends]
      BY <3>2, <3>3
    <3>. QED
      BY <3>4 DEF nx
  <2>. QED
    BY <2>2, <2>5, <2>6, <2>7, <2>8 DEF Links, i
<1>. HIDE DEF W
<1>8. GivenAll(ring, s, q) \in Links \cap W[n]
  BY <1>1, <1>3, <1>6, <1>7, GivenFrom
<1>9. S(n) = Indices
  <2>1. Firsts(q, n) = Range(q) /\ Range(q) \subseteq Indices
    BY <1>1 DEF Firsts, Range
  <2>. QED
    BY <2>1 DEF S
<1>10. W[n] = {t \in Links : Holding(t, ring, S(n))}
  BY <1>1 DEF W
<1>. QED
  BY <1>8, <1>9, <1>10

-------------------------------------------------------------------------------
(* The lists while the matcher works. *)

(* All indices are in the first list, in their order.                        *)
LEMMA OneChainHolds ==
  ASSUME method \in {"list", "hash"}
  PROVE  LET ring == [x \in Indices |-> Space]
         IN Holding(List!OneChain(Key(ring, 0, WINDOW_SIZE), Keys), ring, Indices)
<1>. DEFINE ring == [x \in Indices |-> Space]
            key == Key(ring, 0, WINDOW_SIZE)
            n == WINDOW_SIZE
            q == [x \in 1 .. n |-> x - 1]
            f == [a \in Keys |-> IF a = key THEN q ELSE << >>]
            s == List!OneChain(key, Keys)
<1>1. n \in Nat \ {0} /\ Indices = 0 .. n - 1 /\ NULL = n + 1 /\ 0 \in Indices
  BY RingSizes DEF Indices
<1>2. ring \in [Indices -> Chars]
  BY MatchersAssumption
<1>3. key \in Keys
  BY <1>1, <1>2, KeyRange
<1>4. ASSUME NEW i \in Indices PROVE Key(ring, i, WINDOW_SIZE) = key
  <2>1. CASE method = "list"
    BY <1>1, <2>1 DEF Key
  <2>2. CASE method = "hash"
    <3>1. ASSUME NEW x \in 1 .. MAX_UNCODED + 1
          PROVE  ring[Wrap(i + x - 1, n)] = ring[Wrap(0 + x - 1, n)]
      <4>1. x - 1 \in 0 .. n /\ i + x - 1 = i + (x - 1) /\ 0 + x - 1 = 0 + (x - 1)
        BY <1>1, RingSizes
      <4>2. Wrap(i + (x - 1), WINDOW_SIZE) \in Indices /\ Wrap(0 + (x - 1), WINDOW_SIZE) \in Indices
        BY <1>1, <4>1, WrapInside
      <4>. QED
        BY <4>1, <4>2
    <3>2. HashKey(ring, i, n) = HashKey(ring, 0, n)
      BY <3>1, SameHash
    <3>. QED
      BY <2>2, <3>2 DEF Key
  <2>. QED
    BY <2>1, <2>2
<1>5. s = [heads |-> [a \in Keys |-> IF a = key THEN 0 ELSE NULL],
           next |-> [i \in Indices |-> IF i < n - 1 THEN i + 1 ELSE NULL]]
  BY ListWindow DEF List!OneChain, NULL
<1>. HIDE DEF ring, key, n, s
<1>6. s \in Links
  <2>1. \A i \in Indices : (IF i < n - 1 THEN i + 1 ELSE NULL) \in Ends
    BY <1>1 DEF Ends
  <2>2. \A a \in Keys : (IF a = key THEN 0 ELSE NULL) \in Ends
    BY <1>1 DEF Ends
  <2>. QED
    BY <1>5, <2>1, <2>2 DEF Links
<1>7. q \in Seq(Indices) /\ Len(q) = n /\ \A x \in 1 .. n : q[x] = x - 1
  BY <1>1
<1>. HIDE DEF q
<1>8. /\ f \in [Keys -> Seq(Indices)] /\ f[key] = q
      /\ \A a \in Keys : a # key => f[a] = << >>
  BY <1>3, <1>7
<1>9. \A a \in Keys : Linked(s.heads[a], s.next, f[a])
  <2>. SUFFICES ASSUME NEW a \in Keys PROVE Linked(s.heads[a], s.next, f[a])
    OBVIOUS
  <2>1. CASE a = key
    <3>1. s.heads[a] = 0 /\ q # << >> /\ q[1] = 0
      BY <1>1, <1>5, <1>7, <2>1, EmptySeq
    <3>2. ASSUME NEW x \in 1 .. n
          PROVE  s.next[q[x]] = IF x < n THEN q[x + 1] ELSE NULL
      <4>1. q[x] = x - 1 /\ x - 1 \in Indices /\ (x < n => q[x + 1] = x)
        BY <1>1, <1>7
      <4>. QED
        BY <1>1, <1>5, <4>1
    <3>. QED
      BY <1>7, <1>8, <2>1, <3>1, <3>2 DEF Linked
  <2>2. CASE a # key
    <3>1. s.heads[a] = NULL /\ f[a] = << >> /\ Len(f[a]) = 0
      BY <1>5, <1>8, <2>2
    <3>. QED
      BY <3>1 DEF Linked
  <2>. QED
    BY <2>1, <2>2
<1>10. \A a \in Keys : \A x \in 1 .. Len(f[a]) : a = key /\ x \in 1 .. n /\ f[a][x] = x - 1
  <2>1. \A a \in Keys : a # key => Len(f[a]) = 0
    BY <1>8
  <2>. QED
    BY <1>7, <1>8, <2>1
<1>11. Apart(f)
  BY <1>1, <1>10 DEF Apart
<1>12. ASSUME NEW a \in Keys
       PROVE  Range(f[a]) = {i \in Indices : Key(ring, i, WINDOW_SIZE) = a}
  <2>1. CASE a = key
    <3>1. Range(q) = {q[x] : x \in 1 .. n}
      BY <1>7 DEF Range
    <3>2. ASSUME NEW i \in Indices PROVE i \in Range(q)
      <4>1. i + 1 \in 1 .. n /\ q[i + 1] = i
        BY <1>1, <1>7
      <4>. QED
        BY <3>1, <4>1
    <3>3. Range(q) = Indices
      <4>1. \A x \in 1 .. n : q[x] \in Indices
        BY <1>1, <1>7
      <4>. QED
        BY <3>1, <3>2, <4>1
    <3>. QED
      BY <1>4, <1>8, <2>1, <3>3
  <2>2. CASE a # key
    <3>1. f[a] = << >> /\ Range(<< >>) = {}
      BY <1>8, <2>2 DEF Range
    <3>. QED
      BY <1>4, <2>2, <3>1
  <2>. QED
    BY <2>1, <2>2
<1>13. Holding(s, ring, Indices)
  BY <1>6, <1>8, <1>9, <1>11, <1>12 DEF Holding, HoldsIn, Lists
<1>. QED
  BY <1>13 DEF s, key, ring

(* The strings with the byte are moved to the lists of their new keys.       *)
LEMMA MoveStep ==
  ASSUME method \in {"list", "hash"}, window \in [Indices -> Chars],
         windowHead \in Indices, Holding(chains, window, Indices),
         window' \in [Indices -> Chars],
         \A x \in Indices : x # windowHead => window'[x] = window[x],
         MoveStrings(Moved)
  PROVE  Holding(chains', window', Indices)
<1>. DEFINE q == Moved
            out == TakenAll(window, chains, q)
<1>1. /\ q \in Seq(Indices)
      /\ \A x, y \in 1 .. Len(q) : q[x] = q[y] => x = y
  <2>1. 0 \in 0 .. MAX_CODED /\ MAX_UNCODED \in 0 .. MAX_CODED
    BY RingSizes
  <2>. QED
    BY <2>1, BehindIs DEF Moved
<1>2. chains' = GivenAll(window', out, q)
  BY DEF MoveStrings, TakenAll, GivenAll, Taken, Given, FoldLeft, MapThenFoldSet
<1>. HIDE DEF q
<1>3. Holding(out, window, Indices \ Range(q))
  BY <1>1, AllRemoved
<1>. HIDE DEF out
<1>4. Holding(out, window', Indices \ Range(q))
  <2>1. \A i \in Indices \ Range(q) : Key(window', i, WINDOW_SIZE) = Key(window, i, WINDOW_SIZE)
    BY OthersKeepKey DEF q
  <2>2. PICK f \in [Keys -> Seq(Indices)] :
          Lists(out, f) /\ HoldsIn(f, window, Indices \ Range(q))
    BY <1>3 DEF Holding
  <2>3. HoldsIn(f, window', Indices \ Range(q))
    BY <2>1, <2>2 DEF HoldsIn
  <2>. QED
    BY <2>2, <2>3 DEF Holding
<1>5. Holding(GivenAll(window', out, q), window', Indices)
  BY <1>1, <1>4, AllAdded
<1>. QED
  BY <1>2, <1>5

(* What the lists hold in the next state: the matcher remains the same.      *)
LEMMA HoldingNext ==
  ASSUME method' = method, Holding(chains', window', Indices)
  PROVE  Holding(chains, window, Indices)'
<1>1. Keys' = Keys
  BY DEF Keys
<1>2. PICK f \in [Keys -> Seq(Indices)] :
        Lists(chains', f) /\ HoldsIn(f, window', Indices)
  BY DEF Holding
<1>3. Links' = Links
  BY <1>1 DEF Links
<1>4. Lists(chains, f)'
  BY <1>1, <1>2, <1>3 DEF Lists, Apart
<1>5. \A i \in Indices : Key(window, i, WINDOW_SIZE)' = Key(window', i, WINDOW_SIZE)
  BY DEF Key
<1>6. HoldsIn(f, window, Indices)'
  <2>. SUFFICES ASSUME NEW key \in Keys
                PROVE  Range(f[key]) = {i \in Indices : Key(window, i, WINDOW_SIZE)' = key}
    BY <1>1 DEF HoldsIn
  <2>1. Range(f[key]) = {i \in Indices : Key(window', i, WINDOW_SIZE) = key}
    BY <1>2 DEF HoldsIn
  <2>. QED
    BY <1>5, <2>1
<1>. QED
  BY <1>1, <1>2, <1>4, <1>6 DEF Holding

(* Calls of ReplaceChar keep the lists in order, and no other step changes   *)
(* them.                                                                     *)
LEMMA ChainsInvStep == ChainsInv /\ [Next]_vars => ChainsInv'
<1>. SUFFICES ASSUME ChainsInv, [Next]_vars PROVE ChainsInv'
  OBVIOUS
<1>. USE DEF ChainsInv
<1>. DEFINE Calm == UNCHANGED <<method, window, windowHead, chains>>
            Known == /\ replacement' \in Chars
                     /\ method' # "tree" => pc' \in {"ready", "found"}
<1>1. ASSUME NEW c \in Chars, ReplaceChar(c) PROVE ChainsInv'
  <2>1. /\ window' = [window EXCEPT ![windowHead] = c]
        /\ windowHead' = Wrap(windowHead + 1, WINDOW_SIZE)
        /\ method' = method /\ pc' = pc /\ replacement' = replacement
    BY <1>1 DEF ReplaceChar, Store, work
  <2>2. window' \in [Indices -> Chars] /\ \A x \in Indices : x # windowHead => window'[x] = window[x]
    BY <2>1
  <2>3. windowHead' \in Indices
    <3>1. 1 \in 0 .. WINDOW_SIZE
      BY RingSizes
    <3>. QED
      BY <2>1, <3>1, WrapInside
  <2>4. ASSUME method \in {"list", "hash"} PROVE Holding(chains, window, Indices)'
    <3>1. MoveStrings(Moved)
      BY <1>1, <2>4 DEF ReplaceChar, Moved
    <3>2. Holding(chains', window', Indices)
      BY <2>2, <2>4, <3>1, MoveStep
    <3>. QED
      BY <2>1, <3>2, HoldingNext
  <2>. QED
    BY <2>1, <2>2, <2>3, <2>4
<1>2. ASSUME Calm, Known PROVE ChainsInv'
  <2>1. ASSUME method \in {"list", "hash"} PROVE Holding(chains, window, Indices)'
    <3>1. chains' = chains /\ window' = window /\ method' = method
      BY <1>2
    <3>2. Holding(chains', window', Indices)
      BY <2>1, <3>1
    <3>. QED
      BY <3>1, <3>2, HoldingNext
  <2>. QED
    BY <1>2, <2>1
<1>3. ASSUME StoreByte PROVE ChainsInv'
  <2>1. /\ window' = [window EXCEPT ![windowHead] = replacement]
        /\ UNCHANGED <<method, windowHead, chains, replacement>>
        /\ pc = "remove"
    BY <1>3 DEF StoreByte, TreeStep
  <2>2. window' \in [Indices -> Chars] /\ method' = "tree"
    BY <2>1
  <2>. QED
    BY <2>1, <2>2
<1>4. ASSUME EndOfReplacing PROVE ChainsInv'
  <2>1. /\ windowHead' = Wrap(windowHead + 1, WINDOW_SIZE)
        /\ UNCHANGED <<method, window, chains>>
        /\ pc = "add" /\ pc' = "ready" /\ replacement' = Space
    BY <1>4 DEF EndOfReplacing
  <2>2. windowHead' \in Indices
    <3>1. 1 \in 0 .. WINDOW_SIZE
      BY RingSizes
    <3>. QED
      BY <2>1, <3>1, WrapInside
  <2>. QED
    BY <2>1, <2>2, MatchersAssumption
<1>5. ASSUME Search PROVE ChainsInv'
  <2>1. CASE FindMatch
    BY <1>2, <2>1 DEF FindMatch, work
  <2>2. CASE FindInTree
    BY <1>2, <2>2 DEF FindInTree
  <2>3. CASE SearchNode
    <3>1. Calm /\ replacement' = replacement /\ pc = "search"
      BY <2>3 DEF SearchNode
    <3>. QED
      BY <1>2, <3>1
  <2>4. CASE EndOfSearch
    BY <1>2, <2>4 DEF EndOfSearch, work
  <2>5. CASE Return
    BY <1>2, <2>5 DEF Return
  <2>. QED
    BY <1>5, <2>1, <2>2, <2>3, <2>4, <2>5 DEF Search
<1>6. ASSUME NEW c \in Chars, ReplaceInTree(c) PROVE ChainsInv'
  BY <1>2, <1>6 DEF ReplaceInTree
<1>7. ASSUME NEW after, pc = "remove" \/ pc = "rightmost", Unhook(after) PROVE ChainsInv'
  BY <1>2, <1>7 DEF Unhook, TreeStep
<1>8. ASSUME NEW after, pc = "add" \/ pc = "descend", Hook(after) PROVE ChainsInv'
  BY <1>2, <1>8 DEF Hook, TreeStep
<1>9. ASSUME TreeRemoves PROVE ChainsInv'
  <2>1. CASE SkipString
    BY <1>7, <2>1 DEF SkipString, Removing
  <2>2. CASE RemoveString
    BY <1>7, <2>2 DEF RemoveString, Removing
  <2>3. CASE LookForRightmost
    BY <1>2, <2>3 DEF LookForRightmost, Removing, TreeStep
  <2>4. CASE GoRight
    BY <1>2, <2>4 DEF GoRight, TreeStep
  <2>5. CASE Promote
    BY <1>7, <2>5 DEF Promote
  <2>. QED
    BY <1>9, <2>1, <2>2, <2>3, <2>4, <2>5 DEF TreeRemoves
<1>10. ASSUME TreeAdds PROVE ChainsInv'
  <2>1. CASE AddAtRoot
    BY <1>8, <2>1 DEF AddAtRoot, Adding
  <2>2. CASE StartAtRoot
    BY <1>2, <2>2 DEF StartAtRoot, Adding, TreeStep
  <2>3. CASE Descend
    BY <1>2, <2>3 DEF Descend, TreeStep
  <2>4. CASE AttachString
    BY <1>8, <2>4 DEF AttachString
  <2>5. CASE ReplaceNode
    BY <1>8, <2>5 DEF ReplaceNode
  <2>. QED
    BY <1>10, <2>1, <2>2, <2>3, <2>4, <2>5 DEF TreeAdds
<1>11. CASE UNCHANGED vars
  BY <1>2, <1>11 DEF vars, work
<1>. QED
  BY <1>1, <1>3, <1>4, <1>5, <1>6, <1>9, <1>10, <1>11 DEF Next, Replace

(* In the beginning one list holds all indices.                              *)
LEMMA ChainsInvInit == Init => ChainsInv
<1>. SUFFICES ASSUME Init PROVE ChainsInv
  OBVIOUS
<1>1. window = [x \in Indices |-> Space] /\ windowHead = 0 /\ replacement = Space /\ pc = "ready"
  BY DEF Init
<1>2. window \in [Indices -> Chars] /\ windowHead \in Indices /\ replacement \in Chars
  BY <1>1, MatchersAssumption, RingSizes DEF Indices
<1>3. ASSUME method \in {"list", "hash"} PROVE Holding(chains, window, Indices)
  <2>1. chains = List!OneChain(Key(window, 0, WINDOW_SIZE), Keys)
    BY <1>3 DEF Init
  <2>. QED
    BY <1>1, <1>3, <2>1, OneChainHolds
<1>. QED
  BY <1>1, <1>2, <1>3 DEF ChainsInv

(* What the lists hold is what the matchers need to find all strings.        *)
LEMMA ChainsInvImplies == ChainsInv => ChainsHoldWindow
<1>. SUFFICES ASSUME ChainsInv, method \in {"list", "hash"}, NEW key \in Keys
              PROVE  /\ IsInjective(List!Chain(key, chains))
                     /\ Range(List!Chain(key, chains))
                          = {i \in Indices : Key(window, i, WINDOW_SIZE) = key}
  BY DEF ChainsHoldWindow
<1>1. PICK f \in [Keys -> Seq(Indices)] : Lists(chains, f) /\ HoldsIn(f, window, Indices)
  BY DEF ChainsInv, Holding
<1>2. List!Chain(key, chains) = f[key]
  BY <1>1, ChainIs
<1>3. \A x, y \in 1 .. Len(f[key]) : f[key][x] = f[key][y] => x = y
  BY <1>1 DEF Lists, Apart
<1>4. IsInjective(f[key])
  BY <1>1, <1>3 DEF IsInjective
<1>. QED
  BY <1>1, <1>2, <1>4 DEF HoldsIn

(* Every string of the window is in the list of its key and in no other one, *)
(* once, at any time: with list.cpp and with hash.cpp, and for all sizes of  *)
(* the window and of the hash table.                                         *)
THEOREM ListsHoldWindow == Spec => []ChainsHoldWindow
<1>1. ChainsInv => ChainsHoldWindow
  BY ChainsInvImplies
<1>. QED
  BY ChainsInvInit, ChainsInvStep, <1>1, PTL DEF Spec

-------------------------------------------------------------------------------
(* The longest match. *)

(* How many bytes the string at an index has in common with the lookahead. *)
Common(ring, look, head, i) ==
  Max({n \in 0 .. MAX_CODED : SameBytes(ring, i, look, head, n)})

(* The longest match that some string has. *)
Longest(ring, look, head) ==
  Max({n \in 0 .. MAX_CODED : n = 0 \/ \E i \in Indices : SameBytes(ring, i, look, head, n)})

Answers == [offset : Indices, length : 0 .. MAX_CODED]

(* The common bytes are equal, and no more are.                              *)
LEMMA CommonIs ==
  ASSUME NEW ring, NEW look, NEW head, NEW i
  PROVE  /\ Common(ring, look, head, i) \in 0 .. MAX_CODED
         /\ SameBytes(ring, i, look, head, Common(ring, look, head, i))
         /\ \A n \in 0 .. MAX_CODED :
              SameBytes(ring, i, look, head, n) => n <= Common(ring, look, head, i)
<1>. DEFINE T == {n \in 0 .. MAX_CODED : SameBytes(ring, i, look, head, n)}
<1>1. MAX_CODED \in Nat /\ T \in SUBSET (0 .. MAX_CODED)
  BY RingSizes
<1>2. 0 \in T
  BY <1>1 DEF SameBytes
<1>3. Max(T) \in T /\ \A x \in T : x <= Max(T)
  BY <1>1, <1>2, MaxIn
<1>. QED
  BY <1>3 DEF Common

(* The longest match is one, of some string, and no string has a longer one. *)
LEMMA LongestIs ==
  ASSUME NEW ring, NEW look, NEW head
  PROVE  /\ Longest(ring, look, head) \in 0 .. MAX_CODED
         /\ \/ Longest(ring, look, head) = 0
            \/ \E i \in Indices : SameBytes(ring, i, look, head, Longest(ring, look, head))
         /\ \A i \in Indices, n \in 0 .. MAX_CODED :
              SameBytes(ring, i, look, head, n) => n <= Longest(ring, look, head)
<1>. DEFINE T == {n \in 0 .. MAX_CODED :
                    n = 0 \/ \E i \in Indices : SameBytes(ring, i, look, head, n)}
<1>1. MAX_CODED \in Nat /\ T \in SUBSET (0 .. MAX_CODED) /\ 0 \in T
  BY RingSizes
<1>2. Max(T) \in T /\ \A x \in T : x <= Max(T)
  BY <1>1, MaxIn
<1>. QED
  BY <1>2 DEF Longest

(* What is left of two matches. *)
Better(ring, look, head, m, i) ==
  IF Common(ring, look, head, i) > m.length THEN Match(i, Common(ring, look, head, i)) ELSE m
BestOf(ring, look, head, base, seq) ==
  FoldLeft(LAMBDA m, i : Better(ring, look, head, m, i), base, seq)

(* The comparisons, one after the other.                                     *)
LEMMA BestFrom ==
  ASSUME NEW ring, NEW look, NEW head, NEW n \in Nat, NEW seq, DOMAIN seq = 1 .. n, NEW V, NEW base \in V,
         NEW W, base \in W[0],
         \A m \in 1 .. n : \A t \in V : Better(ring, look, head, t, seq[m]) \in V,
         \A m \in 1 .. n : \A t \in V \cap W[m - 1] : Better(ring, look, head, t, seq[m]) \in W[m]
  PROVE  BestOf(ring, look, head, base, seq) \in V \cap W[n]
<1>. DEFINE T == 1 .. n
            op(x, t) == Better(ring, look, head, t, seq[x])
            Is(h) == h = [S \in SUBSET T |-> IF S = {} THEN base
                                             ELSE op(Max(S), h[S \ {Max(S)}])]
            g == [p \in T \X V |-> op(p[1], p[2])]
            H == CHOOSE x : Is(x)
            U == [m \in 0 .. n |-> V \cap W[m]]
<1>1. BestOf(ring, look, head, base, seq) = H[T]
  BY DEF BestOf, FoldLeft, MapThenFoldSet
<1>2. \A x \in T, t \in V : op(x, t) \in V
  OBVIOUS
<1>3. \A m \in 1 .. n : \A t \in V \cap W[m - 1] : op(m, t) \in W[m]
  OBVIOUS
<1>. HIDE DEF op
<1>4. \A x \in T, t \in V : g[<<x, t>>] = op(x, t) /\ g[<<x, t>>] \in V
  BY <1>2
<1>. HIDE DEF g
<1>5. \E h : Is(h)
  <2>1. PICK h \in [SUBSET T -> V] : IsLeftFold(h, g, base, n)
    <3>1. \A x \in 1 .. n, t \in V : g[<<x, t>>] \in V
      BY <1>4
    <3>. QED
      BY <3>1, LeftFoldExists
  <2>2. ASSUME NEW S \in SUBSET T, S # {} PROVE Max(S) \in T
    <3>1. S \in SUBSET (0 .. n)
      OBVIOUS
    <3>. QED
      BY <2>2, <3>1, MaxIn
  <2>3. ASSUME NEW S \in SUBSET T, S # {}
        PROVE  h[S] = op(Max(S), h[S \ {Max(S)}])
    BY <1>4, <2>1, <2>2, <2>3 DEF IsLeftFold
  <2>4. Is(h)
    BY <2>1, <2>3 DEF IsLeftFold
  <2>. QED
    BY <2>4
<1>6. Is(H)
  BY <1>5
<1>7. \A S \in SUBSET T : H[S] = IF S = {} THEN base ELSE op(Max(S), H[S \ {Max(S)}])
  BY <1>6
<1>. HIDE DEF H
<1>8. H[1 .. 0] \in U[0]
  <2>1. 1 .. 0 = {} /\ {} \in SUBSET T
    OBVIOUS
  <2>2. H[1 .. 0] = base
    BY <1>7, <2>1
  <2>. QED
    BY <2>2
<1>9. ASSUME NEW m \in 1 .. n, H[1 .. (m - 1)] \in U[m - 1] PROVE H[1 .. m] \in U[m]
  <2>1. /\ 1 .. m \in SUBSET T /\ 1 .. m # {}
        /\ Max(1 .. m) = m /\ (1 .. m) \ {m} = 1 .. (m - 1)
    BY PrefixSteps
  <2>2. H[1 .. m] = op(Max(1 .. m), H[(1 .. m) \ {Max(1 .. m)}])
    BY <1>7, <2>1
  <2>3. H[1 .. m] = op(m, H[1 .. (m - 1)])
    BY <2>1, <2>2
  <2>4. m \in 0 .. n /\ m - 1 \in 0 .. n /\ m \in T
    OBVIOUS
  <2>5. H[1 .. (m - 1)] \in V \cap W[m - 1]
    BY <1>9, <2>4
  <2>6. H[1 .. m] \in V /\ H[1 .. m] \in W[m]
    BY <1>2, <1>3, <2>3, <2>4, <2>5
  <2>. QED
    BY <2>4, <2>6
<1>. HIDE DEF U
<1>10. H[T] \in U[n]
  BY <1>8, <1>9, PrefixInduction
<1>11. H[T] \in V \cap W[n]
  BY <1>10 DEF U
<1>. QED
  BY <1>1, <1>11


(* What is left in the end is a match, and none of the strings has a longer  *)
(* one.                                                                      *)
LEMMA BestIs ==
  ASSUME NEW ring, NEW look, NEW head, NEW q \in Seq(Indices)
  PROVE  LET b == BestOf(ring, look, head, Match(0, 0), q)
         IN /\ b \in Answers
            /\ SameBytes(ring, b.offset, look, head, b.length)
            /\ \A i \in Range(q) : Common(ring, look, head, i) <= b.length
<1>. DEFINE n == Len(q)
            V == {t \in Answers : SameBytes(ring, t.offset, look, head, t.length)}
            W == [m \in 0 .. n |-> {t \in Answers :
                    \A x \in 1 .. m : Common(ring, look, head, q[x]) <= t.length}]
            base == Match(0, 0)
<1>1. n \in Nat /\ DOMAIN q = 1 .. n /\ \A x \in 1 .. n : q[x] \in Indices
  OBVIOUS
<1>2. base \in V /\ base \in W[0]
  <2>1. base \in Answers /\ base.length = 0
    BY RingSizes DEF Match, Answers, Indices
  <2>2. SameBytes(ring, base.offset, look, head, base.length)
    BY <2>1 DEF SameBytes
  <2>. HIDE DEF base
  <2>. QED
    BY <1>1, <2>1, <2>2
<1>3. ASSUME NEW m \in 1 .. n, NEW t \in V
      PROVE  /\ Better(ring, look, head, t, q[m]) \in V
             /\ Better(ring, look, head, t, q[m]).length >= t.length
             /\ Better(ring, look, head, t, q[m]).length >= Common(ring, look, head, q[m])
  <2>. DEFINE i == q[m]
              c == Common(ring, look, head, i)
  <2>1. c \in 0 .. MAX_CODED /\ SameBytes(ring, i, look, head, c) /\ i \in Indices
    BY <1>1, CommonIs
  <2>2. Match(i, c) \in Answers /\ Match(i, c).offset = i /\ Match(i, c).length = c
    BY <2>1 DEF Match, Answers
  <2>3. Better(ring, look, head, t, i) = IF c > t.length THEN Match(i, c) ELSE t
    BY DEF Better
  <2>4. t.length \in 0 .. MAX_CODED /\ MAX_CODED \in Nat
    BY RingSizes DEF Answers
  <2>. HIDE DEF c, i
  <2>5. CASE c > t.length
    <3>1. Better(ring, look, head, t, i) = Match(i, c)
      BY <2>3, <2>5
    <3>. QED
      BY <2>1, <2>2, <2>4, <2>5, <3>1 DEF c, i
  <2>6. CASE ~ (c > t.length)
    <3>1. Better(ring, look, head, t, i) = t
      BY <2>3, <2>6
    <3>. QED
      BY <2>1, <2>4, <2>6, <3>1 DEF c, i
  <2>. QED
    BY <2>5, <2>6
<1>4. \A m \in 1 .. n : Common(ring, look, head, q[m]) \in 0 .. MAX_CODED
  BY CommonIs
<1>5. ASSUME NEW m \in 1 .. n, NEW t \in V \cap W[m - 1]
      PROVE  Better(ring, look, head, t, q[m]) \in W[m]
  <2>. DEFINE b == Better(ring, look, head, t, q[m])
  <2>1. \A x \in 1 .. m - 1 : Common(ring, look, head, q[x]) <= t.length
    BY <1>1, <1>5
  <2>2. b \in V /\ b.length >= t.length /\ b.length >= Common(ring, look, head, q[m])
    BY <1>3
  <2>3. b.length \in Int /\ t.length \in Int
    BY <2>2, RingSizes DEF Answers
  <2>. HIDE DEF b
  <2>4. ASSUME NEW x \in 1 .. m PROVE Common(ring, look, head, q[x]) <= b.length
    <3>1. CASE x = m
      BY <1>1, <1>4, <2>2, <2>3, <3>1
    <3>2. CASE x # m
      <4>1. x \in 1 .. m - 1 /\ x \in 1 .. n
        BY <1>1, <3>2
      <4>2. Common(ring, look, head, q[x]) <= t.length /\ Common(ring, look, head, q[x]) \in Int
        BY <1>4, <2>1, <4>1
      <4>. QED
        BY <2>2, <2>3, <4>2
    <3>. QED
      BY <3>1, <3>2
  <2>5. b \in Answers /\ m \in 0 .. n
    BY <1>1, <2>2
  <2>. QED
    BY <2>4, <2>5 DEF b
<1>. HIDE DEF V, W, base
<1>6. BestOf(ring, look, head, base, q) \in V \cap W[n]
  BY <1>1, <1>2, <1>3, <1>5, BestFrom
<1>7. Range(q) = {q[x] : x \in 1 .. n}
  BY <1>1 DEF Range
<1>8. W[n] = {t \in Answers : \A x \in 1 .. n : Common(ring, look, head, q[x]) <= t.length}
  BY <1>1 DEF W
<1>. QED
  BY <1>6, <1>7, <1>8 DEF V, base

(* What the strings that are compared leave out is too short.                *)
Missed == IF method = "hash" THEN MAX_UNCODED ELSE 0

(* The match is one, and the longest, or all are too short. *)
Answered(ring, look, head, m) ==
  /\ SameBytes(ring, m.offset, look, head, m.length)
  /\ \/ m.length = Longest(ring, look, head)
     \/ method = "hash" /\ Longest(ring, look, head) <= MAX_UNCODED

(* The best of enough strings is the answer.                                 *)
LEMMA BestAnswers ==
  ASSUME NEW ring, NEW look, NEW head, NEW q \in Seq(Indices),
         method \in {"brute", "list", "hash"},
         \A i \in Indices : SameBytes(ring, i, look, head, Missed + 1) => i \in Range(q)
  PROVE  Answered(ring, look, head, BestOf(ring, look, head, Match(0, 0), q))
<1>. DEFINE b == BestOf(ring, look, head, Match(0, 0), q)
            l == Longest(ring, look, head)
            n == b.length
<1>1. /\ b \in Answers /\ SameBytes(ring, b.offset, look, head, b.length)
      /\ \A i \in Range(q) : Common(ring, look, head, i) <= b.length
  BY BestIs
<1>2. /\ l \in 0 .. MAX_CODED
      /\ (l = 0 \/ \E i \in Indices : SameBytes(ring, i, look, head, l))
      /\ \A i \in Indices, x \in 0 .. MAX_CODED : SameBytes(ring, i, look, head, x) => x <= l
  BY LongestIs
<1>. HIDE DEF b, l
<1>3. MAX_CODED \in Nat /\ MAX_UNCODED \in Nat /\ MAX_UNCODED < MAX_CODED /\ Missed \in Nat
  BY RingSizes DEF Missed
<1>4. n \in 0 .. MAX_CODED /\ n <= l
  BY <1>1, <1>2 DEF Answers
<1>5. l <= n \/ l <= Missed
  <2>. SUFFICES ASSUME ~ (l <= Missed) PROVE l <= n
    OBVIOUS
  <2>1. PICK i \in Indices : SameBytes(ring, i, look, head, l)
    BY <1>2, <1>3
  <2>2. \A x \in 0 .. Missed + 1 - 1 : x \in 0 .. l - 1
    BY <1>2, <1>3
  <2>3. SameBytes(ring, i, look, head, Missed + 1)
    BY <1>3, <2>1, <2>2 DEF SameBytes
  <2>4. i \in Range(q)
    BY <2>3
  <2>5. /\ Common(ring, look, head, i) \in 0 .. MAX_CODED
        /\ l <= Common(ring, look, head, i)
    BY <1>2, <2>1, CommonIs
  <2>6. Common(ring, look, head, i) <= b.length
    BY <1>1, <2>4
  <2>. QED
    BY <1>2, <1>4, <2>5, <2>6
<1>6. n = l \/ (method = "hash" /\ l <= MAX_UNCODED)
  BY <1>2, <1>3, <1>4, <1>5 DEF Missed
<1>. QED
  BY <1>1, <1>6 DEF Answered, b, l

(* FindMatch of brute.cpp, list.cpp and hash.cpp.                            *)
LEMMA ListsAnswer ==
  ASSUME ChainsInv, FindMatch, method \in {"brute", "list", "hash"}
  PROVE  Answered(window, lookahead', uncodedHead', match')
<1>. DEFINE look == lookahead'
            head == uncodedHead'
            q == IF method = "brute"
                 THEN [x \in 1 .. WINDOW_SIZE |-> Wrap(windowHead + x - 1, WINDOW_SIZE)]
                 ELSE List!Chain(Key(look, head, MAX_CODED), chains)
<1>1. /\ look \in [0 .. MAX_CODED - 1 -> Chars] /\ head \in 0 .. MAX_CODED - 1
      /\ match' = FirstLongest(q)
  BY DEF FindMatch, Ask, Lookaheads, BruteMatch, ChainMatch
<1>2. match' = BestOf(window, look, head, Match(0, 0), q)
  BY <1>1 DEF FirstLongest, Longer, CommonLength, Common, BestOf, Better, FoldLeft,
              MapThenFoldSet
<1>3. window \in [Indices -> Chars] /\ windowHead \in Indices
  BY DEF ChainsInv
<1>. HIDE DEF look, head
<1>4. \A x \in 0 .. MAX_UNCODED : Wrap(head + x, MAX_CODED) \in 0 .. MAX_CODED - 1
  BY <1>1, RingSizes DEF Wrap
<1>5. CASE method = "brute"
  <2>. DEFINE n == WINDOW_SIZE
  <2>1. n \in Nat \ {0} /\ Indices = 0 .. n - 1 /\ windowHead \in 0 .. n - 1
    BY <1>3, RingSizes DEF Indices
  <2>2. q = [x \in 1 .. n |-> Wrap(windowHead + x - 1, n)]
    BY <1>5
  <2>. HIDE DEF n, q
  <2>3. \A x \in 1 .. n : Wrap(windowHead + x - 1, n) \in Indices
    BY <2>1 DEF Wrap
  <2>4. q \in Seq(Indices) /\ Len(q) = n
    BY <2>1, <2>2, <2>3
  <2>5. ASSUME NEW i \in Indices PROVE i \in Range(q)
    <3>. DEFINE x == IF i >= windowHead THEN i - windowHead + 1 ELSE i + n - windowHead + 1
    <3>1. x \in 1 .. n /\ Wrap(windowHead + x - 1, n) = i
      BY <2>1 DEF Wrap
    <3>. HIDE DEF x
    <3>2. DOMAIN q = 1 .. n /\ q[x] = i
      BY <2>2, <3>1
    <3>. QED
      BY <3>1, <3>2 DEF Range
  <2>. QED
    BY <1>2, <1>5, <2>4, <2>5, BestAnswers DEF look, head
<1>6. CASE method \in {"list", "hash"}
  <2>. DEFINE key == Key(look, head, MAX_CODED)
  <2>1. key \in Keys
    <3>1. CASE method = "list"
      BY <1>1, <3>1 DEF Key, Keys
    <3>2. CASE method = "hash"
      <4>1. ASSUME NEW n \in 1 .. MAX_UNCODED + 1
            PROVE  look[Wrap(head + n - 1, MAX_CODED)] \in Nat
        <5>1. n - 1 \in 0 .. MAX_UNCODED /\ head + n - 1 = head + (n - 1)
          BY <1>1, RingSizes
        <5>2. Wrap(head + n - 1, MAX_CODED) \in 0 .. MAX_CODED - 1
          BY <1>4, <5>1
        <5>. QED
          BY <1>1, <5>2, MatchersAssumption
      <4>2. HashKey(look, head, MAX_CODED) \in 0 .. HASH_SIZE - 1
        BY <4>1, HashRange
      <4>. QED
        BY <3>2, <4>2 DEF Key, Keys
    <3>. QED
      BY <1>6, <3>1, <3>2
  <2>2. PICK f \in [Keys -> Seq(Indices)] : Lists(chains, f) /\ HoldsIn(f, window, Indices)
    BY <1>6 DEF ChainsInv, Holding
  <2>3. q = f[key] /\ q \in Seq(Indices)
    <3>1. q = List!Chain(key, chains)
      BY <1>6
    <3>2. List!Chain(key, chains) = f[key]
      BY <2>1, <2>2, ChainIs
    <3>. QED
      BY <2>1, <3>1, <3>2
  <2>. HIDE DEF q, key
  <2>4. Range(q) = {i \in Indices : Key(window, i, WINDOW_SIZE) = key}
    BY <2>1, <2>2, <2>3 DEF HoldsIn
  <2>5. ASSUME NEW i \in Indices, SameBytes(window, i, look, head, Missed + 1)
        PROVE  i \in Range(q)
    <3>1. \A j \in 0 .. Missed :
            window[Wrap(i + j, WINDOW_SIZE)] = look[Wrap(head + j, MAX_CODED)]
      <4>1. Missed \in Nat
        BY RingSizes DEF Missed
      <4>2. \A j \in 0 .. Missed : j \in 0 .. Missed + 1 - 1
        BY <4>1
      <4>. QED
        BY <2>5, <4>1, <4>2 DEF SameBytes
    <3>2. CASE method = "list"
      <4>1. Wrap(i + 0, WINDOW_SIZE) = i /\ Wrap(head + 0, MAX_CODED) = head
        BY <1>1, RingSizes DEF Wrap, Indices
      <4>2. window[i] = look[head]
        BY <3>1, <3>2, <4>1 DEF Missed
      <4>. QED
        BY <2>4, <3>2, <4>2 DEF Key, key
    <3>3. CASE method = "hash"
      <4>1. ASSUME NEW n \in 1 .. MAX_UNCODED + 1
            PROVE  window[Wrap(i + n - 1, WINDOW_SIZE)] = look[Wrap(head + n - 1, MAX_CODED)]
        <5>1. n - 1 \in 0 .. Missed /\ i + n - 1 = i + (n - 1) /\ head + n - 1 = head + (n - 1)
          BY <1>1, <3>3, RingSizes DEF Indices, Missed
        <5>. QED
          BY <3>1, <5>1
      <4>2. HashKey(window, i, WINDOW_SIZE) = HashKey(look, head, MAX_CODED)
        BY <4>1, SameHash
      <4>. QED
        BY <2>4, <3>3, <4>2 DEF Key, key
    <3>. QED
      BY <1>6, <3>2, <3>3
  <2>. QED
    BY <1>2, <1>6, <2>3, <2>5, BestAnswers DEF look, head
<1>. QED
  BY <1>5, <1>6

-------------------------------------------------------------------------------
(* The table of kmp.cpp. *)

(* The first b bytes of u are also the last of its first n. *)
BorderOf(u, n, b) == b \in 0 .. n - 1 /\ \A x \in 0 .. b - 1 : u[x] = u[n - b + x]

LongestBorder(u, n, b) == BorderOf(u, n, b) /\ \A c \in 0 .. n - 1 : BorderOf(u, n, c) => c <= b

(* The table up to n says how far a search can fall back. *)
BordersTo(u, table, n) ==
  /\ table[0] = -1
  /\ \A p \in 1 .. n : LongestBorder(u, p, table[p])

(* A border of one byte more.                                                *)
LEMMA BorderLonger ==
  ASSUME NEW u, NEW n \in Nat, NEW b, BorderOf(u, n, b), u[n] = u[b]
  PROVE  BorderOf(u, n + 1, b + 1)
<1>1. b \in 0 .. n - 1 /\ \A x \in 0 .. b - 1 : u[x] = u[n - b + x]
  BY DEF BorderOf
<1>2. ASSUME NEW x \in 0 .. b + 1 - 1 PROVE u[x] = u[n + 1 - (b + 1) + x]
  <2>1. n + 1 - (b + 1) + x = n - b + x
    BY <1>1
  <2>2. CASE x = b
    <3>1. n - b + x = n
      BY <1>1, <2>2
    <3>. QED
      BY <2>1, <2>2, <3>1
  <2>3. CASE x # b
    <3>1. x \in 0 .. b - 1
      BY <1>1, <2>3
    <3>. QED
      BY <1>1, <2>1, <3>1
  <2>. QED
    BY <2>2, <2>3
<1>. QED
  BY <1>1, <1>2 DEF BorderOf

(* And of one byte less.                                                     *)
LEMMA BorderShorter ==
  ASSUME NEW u, NEW n \in Nat, NEW b \in Nat \ {0}, BorderOf(u, n + 1, b)
  PROVE  BorderOf(u, n, b - 1) /\ u[b - 1] = u[n]
<1>1. b \in 1 .. n /\ \A x \in 0 .. b - 1 : u[x] = u[n + 1 - b + x]
  BY DEF BorderOf
<1>2. u[b - 1] = u[n]
  <2>1. b - 1 \in 0 .. b - 1 /\ n + 1 - b + (b - 1) = n
    BY <1>1
  <2>. QED
    BY <1>1, <2>1
<1>3. ASSUME NEW x \in 0 .. b - 1 - 1 PROVE u[x] = u[n - (b - 1) + x]
  <2>1. x \in 0 .. b - 1 /\ n - (b - 1) + x = n + 1 - b + x
    BY <1>1
  <2>. QED
    BY <1>1, <2>1
<1>. QED
  BY <1>1, <1>2, <1>3 DEF BorderOf

(* A border of a border is one.                                              *)
LEMMA BorderTransitive ==
  ASSUME NEW u, NEW n \in Nat, NEW j, NEW b, BorderOf(u, n, j), BorderOf(u, j, b)
  PROVE  BorderOf(u, n, b)
<1>1. j \in 0 .. n - 1 /\ \A x \in 0 .. j - 1 : u[x] = u[n - j + x]
  BY DEF BorderOf
<1>2. b \in 0 .. j - 1 /\ \A x \in 0 .. b - 1 : u[x] = u[j - b + x]
  BY DEF BorderOf
<1>3. ASSUME NEW x \in 0 .. b - 1 PROVE u[x] = u[n - b + x]
  <2>1. j - b + x \in 0 .. j - 1 /\ n - j + (j - b + x) = n - b + x
    BY <1>1, <1>2
  <2>2. u[x] = u[j - b + x] /\ u[j - b + x] = u[n - j + (j - b + x)]
    BY <1>1, <1>2, <2>1
  <2>. QED
    BY <2>1, <2>2
<1>. QED
  BY <1>1, <1>2, <1>3 DEF BorderOf

(* Of two borders the shorter one is a border of the longer one.             *)
LEMMA BorderWithin ==
  ASSUME NEW u, NEW n \in Nat, NEW j, NEW b, BorderOf(u, n, j), BorderOf(u, n, b), b < j
  PROVE  BorderOf(u, j, b)
<1>1. j \in 0 .. n - 1 /\ \A x \in 0 .. j - 1 : u[x] = u[n - j + x]
  BY DEF BorderOf
<1>2. b \in 0 .. j - 1 /\ \A x \in 0 .. b - 1 : u[x] = u[n - b + x]
  BY DEF BorderOf
<1>3. ASSUME NEW x \in 0 .. b - 1 PROVE u[x] = u[j - b + x]
  <2>1. j - b + x \in 0 .. j - 1 /\ n - j + (j - b + x) = n - b + x
    BY <1>1, <1>2
  <2>2. u[x] = u[n - b + x] /\ u[j - b + x] = u[n - j + (j - b + x)]
    BY <1>1, <1>2, <2>1
  <2>. QED
    BY <2>1, <2>2
<1>. QED
  BY <1>1, <1>2, <1>3 DEF BorderOf

(* One turn of the loop of FillTable. *)
Filled(u, s) ==
  IF s.i >= MAX_CODED THEN s
  ELSE IF u[s.i - 1] = u[s.j]
  THEN [i |-> s.i + 1, j |-> s.j + 1, table |-> [s.table EXCEPT ![s.i] = s.j + 1]]
  ELSE IF s.j > 0 THEN [s EXCEPT !.j = s.table[s.j]]
  ELSE [i |-> s.i + 1, j |-> s.j, table |-> [s.table EXCEPT ![s.i] = 0]]

FilledAfter(u, base, seq) == FoldLeft(LAMBDA s, n : Filled(u, s), base, seq)

(* Its turns, one after the other.                                           *)
LEMMA FillFrom ==
  ASSUME NEW u, NEW n \in Nat, NEW seq, DOMAIN seq = 1 .. n, NEW V, NEW base \in V,
         NEW W, base \in W[0],
         \A m \in 1 .. n : \A t \in V : Filled(u, t) \in V,
         \A m \in 1 .. n : \A t \in V \cap W[m - 1] : Filled(u, t) \in W[m]
  PROVE  FilledAfter(u, base, seq) \in V \cap W[n]
<1>. DEFINE T == 1 .. n
            op(x, t) == Filled(u, t)
            Is(h) == h = [S \in SUBSET T |-> IF S = {} THEN base
                                             ELSE op(Max(S), h[S \ {Max(S)}])]
            g == [p \in T \X V |-> op(p[1], p[2])]
            H == CHOOSE x : Is(x)
            U == [m \in 0 .. n |-> V \cap W[m]]
<1>1. FilledAfter(u, base, seq) = H[T]
  BY DEF FilledAfter, FoldLeft, MapThenFoldSet
<1>2. \A x \in T, t \in V : op(x, t) \in V
  OBVIOUS
<1>3. \A m \in 1 .. n : \A t \in V \cap W[m - 1] : op(m, t) \in W[m]
  OBVIOUS
<1>. HIDE DEF op
<1>4. \A x \in T, t \in V : g[<<x, t>>] = op(x, t) /\ g[<<x, t>>] \in V
  BY <1>2
<1>. HIDE DEF g
<1>5. \E h : Is(h)
  <2>1. PICK h \in [SUBSET T -> V] : IsLeftFold(h, g, base, n)
    <3>1. \A x \in 1 .. n, t \in V : g[<<x, t>>] \in V
      BY <1>4
    <3>. QED
      BY <3>1, LeftFoldExists
  <2>2. ASSUME NEW S \in SUBSET T, S # {} PROVE Max(S) \in T
    <3>1. S \in SUBSET (0 .. n)
      OBVIOUS
    <3>. QED
      BY <2>2, <3>1, MaxIn
  <2>3. ASSUME NEW S \in SUBSET T, S # {}
        PROVE  h[S] = op(Max(S), h[S \ {Max(S)}])
    BY <1>4, <2>1, <2>2, <2>3 DEF IsLeftFold
  <2>4. Is(h)
    BY <2>1, <2>3 DEF IsLeftFold
  <2>. QED
    BY <2>4
<1>6. Is(H)
  BY <1>5
<1>7. \A S \in SUBSET T : H[S] = IF S = {} THEN base ELSE op(Max(S), H[S \ {Max(S)}])
  BY <1>6
<1>. HIDE DEF H
<1>8. H[1 .. 0] \in U[0]
  <2>1. 1 .. 0 = {} /\ {} \in SUBSET T
    OBVIOUS
  <2>2. H[1 .. 0] = base
    BY <1>7, <2>1
  <2>. QED
    BY <2>2
<1>9. ASSUME NEW m \in 1 .. n, H[1 .. (m - 1)] \in U[m - 1] PROVE H[1 .. m] \in U[m]
  <2>1. /\ 1 .. m \in SUBSET T /\ 1 .. m # {}
        /\ Max(1 .. m) = m /\ (1 .. m) \ {m} = 1 .. (m - 1)
    BY PrefixSteps
  <2>2. H[1 .. m] = op(Max(1 .. m), H[(1 .. m) \ {Max(1 .. m)}])
    BY <1>7, <2>1
  <2>3. H[1 .. m] = op(m, H[1 .. (m - 1)])
    BY <2>1, <2>2
  <2>4. m \in 0 .. n /\ m - 1 \in 0 .. n /\ m \in T
    OBVIOUS
  <2>5. H[1 .. (m - 1)] \in V \cap W[m - 1]
    BY <1>9, <2>4
  <2>6. H[1 .. m] \in V /\ H[1 .. m] \in W[m]
    BY <1>2, <1>3, <2>3, <2>4, <2>5
  <2>. QED
    BY <2>4, <2>6
<1>. HIDE DEF U
<1>10. H[T] \in U[n]
  BY <1>8, <1>9, PrefixInduction
<1>11. H[T] \in V \cap W[n]
  BY <1>10 DEF U
<1>. QED
  BY <1>1, <1>11


Fills == [i : 0 .. MAX_CODED, j : 0 .. MAX_CODED, table : [0 .. MAX_CODED - 1 -> Int]]

(* The table is right up to i - 1, and j is the longest border of the first  *)
(* i - 1 bytes that can be a part of one of the first i.                     *)
FillInv(u, s) ==
  /\ s \in Fills
  /\ s.i >= 2 /\ s.j <= s.i - 2
  /\ BordersTo(u, s.table, s.i - 1)
  /\ BorderOf(u, s.i - 1, s.j)
  /\ \A b \in 1 .. s.i - 1 : BorderOf(u, s.i, b) => b - 1 <= s.j

(* A turn keeps this, and it comes nearer to the end.                        *)
LEMMA FillStep ==
  ASSUME NEW u, NEW s, FillInv(u, s), s.i < MAX_CODED
  PROVE  /\ FillInv(u, Filled(u, s))
         /\ 2 * Filled(u, s).i - Filled(u, s).j > 2 * s.i - s.j
<1>. DEFINE i == s.i
            j == s.j
            t == s.table
            r == Filled(u, s)
<1>1. /\ MAX_CODED \in Nat /\ i \in 2 .. MAX_CODED - 1 /\ j \in 0 .. i - 2
      /\ t \in [0 .. MAX_CODED - 1 -> Int]
      /\ s = [i |-> i, j |-> j, table |-> t]
  BY RingSizes DEF FillInv, Fills
<1>2. /\ BordersTo(u, t, i - 1) /\ BorderOf(u, i - 1, j)
      /\ \A b \in 1 .. i - 1 : BorderOf(u, i, b) => b - 1 <= j
  BY DEF FillInv
<1>3. /\ i - 1 \in Nat /\ i - 1 + 1 = i /\ i \in Nat /\ i \in 0 .. MAX_CODED - 1
      /\ i + 1 \in 0 .. MAX_CODED /\ i + 1 - 1 = i /\ j + 1 \in 0 .. MAX_CODED
  BY <1>1
<1>4. r = IF u[i - 1] = u[j]
          THEN [i |-> i + 1, j |-> j + 1, table |-> [t EXCEPT ![i] = j + 1]]
          ELSE IF j > 0 THEN [i |-> i, j |-> t[j], table |-> t]
          ELSE [i |-> i + 1, j |-> 0, table |-> [t EXCEPT ![i] = 0]]
  <2>1. \A x : [s EXCEPT !.j = x] = [i |-> i, j |-> x, table |-> t]
    BY <1>1
  <2>2. r = IF u[i - 1] = u[j]
            THEN [i |-> i + 1, j |-> j + 1, table |-> [t EXCEPT ![i] = j + 1]]
            ELSE IF j > 0 THEN [s EXCEPT !.j = t[j]]
            ELSE [i |-> i + 1, j |-> j, table |-> [t EXCEPT ![i] = 0]]
    BY <1>1 DEF Filled
  <2>3. ~ (j > 0) => j = 0
    BY <1>1
  <2>. HIDE DEF i, j, t, r
  <2>. QED
    BY <2>1, <2>2, <2>3
<1>. HIDE DEF i, j, t, r
<1>5. ASSUME NEW v \in 0 .. i - 1, LongestBorder(u, i, v)
      PROVE  /\ [t EXCEPT ![i] = v] \in [0 .. MAX_CODED - 1 -> Int]
             /\ BordersTo(u, [t EXCEPT ![i] = v], i)
             /\ BorderOf(u, i, v)
             /\ \A b \in 1 .. i : BorderOf(u, i + 1, b) => b - 1 <= v
  <2>1. /\ [t EXCEPT ![i] = v] \in [0 .. MAX_CODED - 1 -> Int]
        /\ [t EXCEPT ![i] = v][i] = v
        /\ \A p \in 0 .. i - 1 : [t EXCEPT ![i] = v][p] = t[p]
    BY <1>1, <1>3
  <2>2. ASSUME NEW p \in 1 .. i PROVE LongestBorder(u, p, [t EXCEPT ![i] = v][p])
    <3>1. p = i \/ (p # i /\ p \in 1 .. i - 1 /\ p \in 0 .. i - 1)
      BY <1>1
    <3>. QED
      BY <1>2, <1>5, <2>1, <3>1 DEF BordersTo
  <2>3. [t EXCEPT ![i] = v][0] = -1
    <3>1. 0 \in 0 .. i - 1
      BY <1>1
    <3>. QED
      BY <1>2, <2>1, <3>1 DEF BordersTo
  <2>4. ASSUME NEW b \in 1 .. i, BorderOf(u, i + 1, b) PROVE b - 1 <= v
    <3>1. BorderOf(u, i, b - 1) /\ b - 1 \in 0 .. i - 1
      <4>1. b \in Nat \ {0} /\ b - 1 \in 0 .. i - 1
        BY <1>1
      <4>. QED
        BY <1>3, <2>4, <4>1, BorderShorter
    <3>. QED
      BY <1>5, <3>1 DEF LongestBorder
  <2>. QED
    BY <1>5, <2>1, <2>2, <2>3, <2>4 DEF BordersTo, LongestBorder
<1>6. CASE u[i - 1] = u[j]
  <2>1. BorderOf(u, i, j + 1)
    BY <1>2, <1>3, <1>6, BorderLonger
  <2>2. ASSUME NEW c \in 0 .. i - 1, BorderOf(u, i, c) PROVE c <= j + 1
    <3>1. CASE c = 0
      BY <1>1, <3>1
    <3>2. CASE c # 0
      <4>1. c \in 1 .. i - 1
        BY <1>1, <3>2
      <4>2. c - 1 <= j
        BY <1>2, <2>2, <4>1
      <4>. QED
        BY <1>1, <4>1, <4>2
    <3>. QED
      BY <3>1, <3>2
  <2>3. LongestBorder(u, i, j + 1)
    BY <2>1, <2>2 DEF LongestBorder
  <2>4. j + 1 \in 0 .. i - 1
    BY <1>1
  <2>5. r = [i |-> i + 1, j |-> j + 1, table |-> [t EXCEPT ![i] = j + 1]]
    BY <1>4, <1>6
  <2>6. /\ [t EXCEPT ![i] = j + 1] \in [0 .. MAX_CODED - 1 -> Int]
        /\ BordersTo(u, [t EXCEPT ![i] = j + 1], i)
        /\ BorderOf(u, i, j + 1)
        /\ \A b \in 1 .. i : BorderOf(u, i + 1, b) => b - 1 <= j + 1
    BY <1>5, <2>3, <2>4
  <2>7. r \in Fills /\ r.i = i + 1 /\ r.j = j + 1 /\ r.table = [t EXCEPT ![i] = j + 1]
    BY <1>3, <2>5, <2>6 DEF Fills
  <2>8. FillInv(u, r)
    BY <1>1, <1>3, <2>6, <2>7 DEF FillInv
  <2>. QED
    BY <1>1, <2>7, <2>8 DEF r, i, j
<1>7. CASE u[i - 1] # u[j] /\ j > 0
  <2>. DEFINE c == t[j]
  <2>1. j \in 1 .. i - 1 /\ j \in Nat
    BY <1>1, <1>7
  <2>2. LongestBorder(u, j, c)
    BY <1>2, <2>1 DEF BordersTo
  <2>3. BorderOf(u, j, c) /\ c \in 0 .. j - 1
    BY <2>2 DEF LongestBorder, BorderOf
  <2>4. BorderOf(u, i - 1, c)
    BY <1>2, <1>3, <2>3, BorderTransitive
  <2>5. r = [i |-> i, j |-> c, table |-> t]
    BY <1>4, <1>7
  <2>. HIDE DEF c
  <2>6. ASSUME NEW b \in 1 .. i - 1, BorderOf(u, i, b) PROVE b - 1 <= c
    <3>1. b - 1 <= j /\ BorderOf(u, i - 1, b - 1) /\ u[b - 1] = u[i - 1]
      <4>1. b \in Nat \ {0}
        OBVIOUS
      <4>2. BorderOf(u, i - 1, b - 1) /\ u[b - 1] = u[i - 1]
        BY <1>3, <2>6, <4>1, BorderShorter
      <4>. QED
        BY <1>2, <2>6, <4>2
    <3>2. b - 1 # j
      BY <1>7, <3>1
    <3>3. b - 1 < j /\ b - 1 \in 0 .. j - 1
      BY <1>1, <2>1, <3>1, <3>2
    <3>4. BorderOf(u, j, b - 1)
      BY <1>2, <1>3, <3>1, <3>3, BorderWithin
    <3>. QED
      BY <2>2, <3>3, <3>4 DEF LongestBorder
  <2>7. r \in Fills /\ r.i = i /\ r.j = c /\ r.table = t
    <3>1. i \in 0 .. MAX_CODED /\ c \in 0 .. MAX_CODED
      BY <1>1, <2>1, <2>3
    <3>. QED
      BY <1>1, <2>5, <3>1 DEF Fills
  <2>8. FillInv(u, r)
    BY <1>1, <1>2, <2>1, <2>3, <2>4, <2>6, <2>7 DEF FillInv
  <2>. QED
    BY <1>1, <2>1, <2>3, <2>7, <2>8 DEF r, i, j
<1>8. CASE u[i - 1] # u[j] /\ ~ (j > 0)
  <2>1. j = 0
    BY <1>1, <1>8
  <2>2. BorderOf(u, i, 0)
    BY <1>1 DEF BorderOf
  <2>3. ASSUME NEW c \in 0 .. i - 1, BorderOf(u, i, c) PROVE c <= 0
    <3>. SUFFICES ASSUME c # 0 PROVE FALSE
      BY <1>1
    <3>1. c \in 1 .. i - 1 /\ c \in Nat \ {0}
      BY <1>1
    <3>2. c - 1 <= j
      BY <1>2, <2>3, <3>1
    <3>3. c = 1 /\ c - 1 = j
      BY <2>1, <3>1, <3>2
    <3>4. u[c - 1] = u[i - 1]
      BY <1>3, <2>3, <3>1, BorderShorter
    <3>. QED
      BY <1>8, <3>3, <3>4
  <2>4. LongestBorder(u, i, 0) /\ 0 \in 0 .. i - 1
    BY <1>1, <2>2, <2>3 DEF LongestBorder
  <2>5. r = [i |-> i + 1, j |-> 0, table |-> [t EXCEPT ![i] = 0]]
    BY <1>4, <1>8
  <2>6. /\ [t EXCEPT ![i] = 0] \in [0 .. MAX_CODED - 1 -> Int]
        /\ BordersTo(u, [t EXCEPT ![i] = 0], i)
        /\ BorderOf(u, i, 0)
        /\ \A b \in 1 .. i : BorderOf(u, i + 1, b) => b - 1 <= 0
    BY <1>5, <2>4
  <2>7. r \in Fills /\ r.i = i + 1 /\ r.j = 0 /\ r.table = [t EXCEPT ![i] = 0]
    BY <1>1, <1>3, <2>5, <2>6 DEF Fills
  <2>8. FillInv(u, r)
    BY <1>1, <1>3, <2>6, <2>7 DEF FillInv
  <2>. QED
    BY <1>1, <2>1, <2>7, <2>8 DEF r, i, j
<1>. QED
  BY <1>1, <1>6, <1>7, <1>8

(* FillTable returns, with the longest border of every part of the lookahead *)
(* at whose end the search can find another byte.                            *)
LEMMA TableIs ==
  ASSUME NEW u
  PROVE  /\ Kmp!FillTable(u) \in [0 .. MAX_CODED - 1 -> Int]
         /\ BordersTo(u, Kmp!FillTable(u), MAX_CODED - 1)
<1>. DEFINE d == MAX_CODED
            n == 2 * d + d
            turns == [x \in 1 .. n |-> x]
            t0 == [x \in 0 .. d - 1 |-> IF x = 0 THEN -1 ELSE 0]
            base == [i |-> 2, j |-> 0, table |-> t0]
            V == IF d = 1 THEN {base} ELSE {s \in Fills : FillInv(u, s)}
            W == [m \in 0 .. n |-> {s \in V : s.i >= d \/ 2 * s.i - s.j >= m}]
<1>1. d \in Nat \ {0} /\ n \in Nat
  BY RingSizes
<1>2. Kmp!MAX_CODED = d
  BY DEF Kmp!MAX_CODED, MAX_CODED
<1>3. Kmp!FillTable(u) = FilledAfter(u, base, turns).table
  BY <1>2 DEF Kmp!FillTable, Kmp!Turns, Kmp!Positions, FilledAfter, Filled, FoldLeft, MapThenFoldSet,
              Kmp!FoldLeft, Kmp!MapThenFoldSet, Kmp!Max, Max
<1>4. t0 \in [0 .. d - 1 -> Int] /\ t0[0] = -1 /\ (d > 1 => t0[1] = 0)
  BY <1>1
<1>. HIDE DEF t0
<1>5. base.i = 2 /\ base.j = 0 /\ base.table = t0
  OBVIOUS
<1>6. base \in V
  <2>1. CASE d = 1
    BY <2>1
  <2>2. CASE d # 1
    <3>1. base \in Fills
      BY <1>1, <1>4, <2>2 DEF Fills
    <3>2. BorderOf(u, 1, 0)
      BY DEF BorderOf
    <3>3. LongestBorder(u, 1, 0)
      BY <3>2 DEF LongestBorder
    <3>4. BordersTo(u, t0, 1)
      <4>1. t0[1] = 0 /\ \A p \in 1 .. 1 : p = 1
        BY <1>1, <1>4, <2>2
      <4>. QED
        BY <1>4, <3>3, <4>1 DEF BordersTo
    <3>5. FillInv(u, base)
      <4>. HIDE DEF base
      <4>. QED
        BY <1>5, <3>1, <3>2, <3>4 DEF FillInv
    <3>. QED
      BY <2>2, <3>1, <3>5
  <2>. QED
    BY <2>1, <2>2
<1>7. \A s \in V : /\ s.i \in Int /\ s.j \in Int /\ 2 * s.i - s.j \in Int
                   /\ d # 1 => s.i \in 2 .. d /\ s.j >= 0
  <2>1. CASE d = 1
    BY <1>5, <2>1
  <2>2. CASE d # 1
    BY <1>1, <2>2 DEF FillInv, Fills
  <2>. QED
    BY <2>1, <2>2
<1>8. \A s : s.i >= d => Filled(u, s) = s
  BY DEF Filled
<1>9. ASSUME NEW s \in V
      PROVE  /\ Filled(u, s) \in V
             /\ ~ (s.i >= d) => 2 * Filled(u, s).i - Filled(u, s).j > 2 * s.i - s.j
  <2>1. CASE s.i >= d
    BY <1>8, <2>1
  <2>2. CASE ~ (s.i >= d)
    <3>1. d # 1 /\ s.i < MAX_CODED
      BY <1>1, <1>5, <1>7, <2>2
    <3>2. FillInv(u, s)
      BY <3>1
    <3>3. /\ FillInv(u, Filled(u, s))
          /\ 2 * Filled(u, s).i - Filled(u, s).j > 2 * s.i - s.j
      BY <3>1, <3>2, FillStep
    <3>4. Filled(u, s) \in Fills
      BY <3>3 DEF FillInv
    <3>. QED
      BY <3>1, <3>3, <3>4
  <2>. QED
    BY <2>1, <2>2
<1>10. base \in W[0]
  BY <1>1, <1>5, <1>6
<1>. HIDE DEF V, base
<1>11. ASSUME NEW m \in 1 .. n, NEW s \in V \cap W[m - 1] PROVE Filled(u, s) \in W[m]
  <2>1. m - 1 \in 0 .. n /\ m \in 0 .. n /\ m \in Int
    BY <1>1
  <2>2. s.i >= d \/ 2 * s.i - s.j >= m - 1
    BY <2>1
  <2>. DEFINE r == Filled(u, s)
  <2>3. r \in V
    BY <1>9
  <2>4. r.i \in Int /\ r.j \in Int /\ 2 * r.i - r.j \in Int /\ 2 * s.i - s.j \in Int
    BY <1>7, <2>3
  <2>5. r.i >= d \/ 2 * r.i - r.j >= m
    <3>1. CASE s.i >= d
      BY <1>8, <3>1
    <3>2. CASE ~ (s.i >= d)
      <4>1. 2 * r.i - r.j > 2 * s.i - s.j
        BY <1>9, <3>2
      <4>. HIDE DEF r
      <4>. QED
        BY <2>1, <2>2, <2>4, <3>2, <4>1
    <3>. QED
      BY <3>1, <3>2
  <2>. QED
    BY <2>1, <2>3, <2>5
<1>. HIDE DEF W, n
<1>. DEFINE last == FilledAfter(u, base, turns)
<1>12. last \in V \cap W[n]
  <2>1. DOMAIN turns = 1 .. n
    OBVIOUS
  <2>2. \A m \in 1 .. n : \A s \in V : Filled(u, s) \in V
    BY <1>9
  <2>3. \A m \in 1 .. n : \A s \in V \cap W[m - 1] : Filled(u, s) \in W[m]
    BY <1>11
  <2>. HIDE DEF turns
  <2>. QED
    BY <1>1, <1>6, <1>10, <2>1, <2>2, <2>3, FillFrom
<1>13. last.i >= d \/ 2 * last.i - last.j >= n
  BY <1>1, <1>12 DEF W
<1>. HIDE DEF last
<1>14. CASE d = 1
  <2>1. last.table = t0
    BY <1>5, <1>12, <1>14 DEF V
  <2>2. BordersTo(u, t0, 0)
    BY <1>4 DEF BordersTo
  <2>3. d - 1 = 0
    BY <1>14
  <2>. QED
    BY <1>3, <1>4, <2>1, <2>2, <2>3 DEF last
<1>15. CASE d # 1
  <2>1. FillInv(u, last) /\ last.i \in 2 .. d /\ last.j >= 0 /\ last.j \in Int
    BY <1>7, <1>12, <1>15 DEF V
  <2>2. last.i = d
    <3>1. 2 * last.i - last.j < n
      BY <1>1, <2>1 DEF n
    <3>2. ~ (2 * last.i - last.j >= n)
      BY <1>1, <2>1, <3>1
    <3>. QED
      BY <1>1, <1>13, <2>1, <3>2
  <2>3. BordersTo(u, last.table, d - 1) /\ last.table \in [0 .. d - 1 -> Int]
    BY <2>1, <2>2 DEF FillInv, Fills
  <2>. QED
    BY <1>3, <2>3 DEF last
<1>. QED
  BY <1>14, <1>15

-------------------------------------------------------------------------------
(* The search of kmp.cpp. *)

(* The first n bytes of u are in the ring, s bytes behind the head. *)
Agrees(u, ring, head, s, n) ==
  \A x \in 0 .. n - 1 : u[x] = ring[Wrap(s + x + head, WINDOW_SIZE)]

(* No index that the search wraps is more than once around. *)
OnceAround(head) == head \in Indices /\ head + WINDOW_SIZE + MAX_CODED - 2 < 2 * WINDOW_SIZE

(* Wrapping twice is wrapping once then.                                     *)
LEMMA WrapTwice ==
  ASSUME NEW head, OnceAround(head), NEW s \in 0 .. WINDOW_SIZE - 1,
         NEW x \in 0 .. MAX_CODED - 1
  PROVE  /\ Wrap(s + head, WINDOW_SIZE) \in Indices
         /\ Wrap(s + x + head, WINDOW_SIZE) \in Indices
         /\ Wrap(Wrap(s + head, WINDOW_SIZE) + x, WINDOW_SIZE) = Wrap(s + x + head, WINDOW_SIZE)
BY RingSizes DEF Wrap, OnceAround, Indices

(* One turn of the search. *)
Searched(u, table, ring, head, beyond, s) ==
  IF s.m >= WINDOW_SIZE \/ s.match.length = MAX_CODED THEN s
  ELSE IF u[s.i] = Kmp!ByteAt(ring, s.m + s.i + head, beyond)
  THEN [m |-> s.m, i |-> s.i + 1,
        match |-> IF s.i + 1 = MAX_CODED THEN Match(Wrap(s.m + head, WINDOW_SIZE), MAX_CODED)
                  ELSE s.match]
  ELSE [m |-> s.m + (s.i - table[s.i]),
        i |-> IF table[s.i] > 0 THEN table[s.i] ELSE 0,
        match |-> IF s.i > s.match.length THEN Match(Wrap(s.m + head, WINDOW_SIZE), s.i)
                  ELSE s.match]

SearchedAfter(u, table, ring, head, beyond, base, seq) ==
  FoldLeft(LAMBDA s, n : Searched(u, table, ring, head, beyond, s), base, seq)

(* Its turns, one after the other.                                           *)
LEMMA SearchFrom ==
  ASSUME NEW u, NEW table, NEW ring, NEW head, NEW beyond, NEW n \in Nat, NEW seq, DOMAIN seq = 1 .. n, NEW V, NEW base \in V,
         NEW W, base \in W[0],
         \A m \in 1 .. n : \A t \in V : Searched(u, table, ring, head, beyond, t) \in V,
         \A m \in 1 .. n : \A t \in V \cap W[m - 1] : Searched(u, table, ring, head, beyond, t) \in W[m]
  PROVE  SearchedAfter(u, table, ring, head, beyond, base, seq) \in V \cap W[n]
<1>. DEFINE T == 1 .. n
            op(x, t) == Searched(u, table, ring, head, beyond, t)
            Is(h) == h = [S \in SUBSET T |-> IF S = {} THEN base
                                             ELSE op(Max(S), h[S \ {Max(S)}])]
            g == [p \in T \X V |-> op(p[1], p[2])]
            H == CHOOSE x : Is(x)
            U == [m \in 0 .. n |-> V \cap W[m]]
<1>1. SearchedAfter(u, table, ring, head, beyond, base, seq) = H[T]
  BY DEF SearchedAfter, FoldLeft, MapThenFoldSet
<1>2. \A x \in T, t \in V : op(x, t) \in V
  OBVIOUS
<1>3. \A m \in 1 .. n : \A t \in V \cap W[m - 1] : op(m, t) \in W[m]
  OBVIOUS
<1>. HIDE DEF op
<1>4. \A x \in T, t \in V : g[<<x, t>>] = op(x, t) /\ g[<<x, t>>] \in V
  BY <1>2
<1>. HIDE DEF g
<1>5. \E h : Is(h)
  <2>1. PICK h \in [SUBSET T -> V] : IsLeftFold(h, g, base, n)
    <3>1. \A x \in 1 .. n, t \in V : g[<<x, t>>] \in V
      BY <1>4
    <3>. QED
      BY <3>1, LeftFoldExists
  <2>2. ASSUME NEW S \in SUBSET T, S # {} PROVE Max(S) \in T
    <3>1. S \in SUBSET (0 .. n)
      OBVIOUS
    <3>. QED
      BY <2>2, <3>1, MaxIn
  <2>3. ASSUME NEW S \in SUBSET T, S # {}
        PROVE  h[S] = op(Max(S), h[S \ {Max(S)}])
    BY <1>4, <2>1, <2>2, <2>3 DEF IsLeftFold
  <2>4. Is(h)
    BY <2>1, <2>3 DEF IsLeftFold
  <2>. QED
    BY <2>4
<1>6. Is(H)
  BY <1>5
<1>7. \A S \in SUBSET T : H[S] = IF S = {} THEN base ELSE op(Max(S), H[S \ {Max(S)}])
  BY <1>6
<1>. HIDE DEF H
<1>8. H[1 .. 0] \in U[0]
  <2>1. 1 .. 0 = {} /\ {} \in SUBSET T
    OBVIOUS
  <2>2. H[1 .. 0] = base
    BY <1>7, <2>1
  <2>. QED
    BY <2>2
<1>9. ASSUME NEW m \in 1 .. n, H[1 .. (m - 1)] \in U[m - 1] PROVE H[1 .. m] \in U[m]
  <2>1. /\ 1 .. m \in SUBSET T /\ 1 .. m # {}
        /\ Max(1 .. m) = m /\ (1 .. m) \ {m} = 1 .. (m - 1)
    BY PrefixSteps
  <2>2. H[1 .. m] = op(Max(1 .. m), H[(1 .. m) \ {Max(1 .. m)}])
    BY <1>7, <2>1
  <2>3. H[1 .. m] = op(m, H[1 .. (m - 1)])
    BY <2>1, <2>2
  <2>4. m \in 0 .. n /\ m - 1 \in 0 .. n /\ m \in T
    OBVIOUS
  <2>5. H[1 .. (m - 1)] \in V \cap W[m - 1]
    BY <1>9, <2>4
  <2>6. H[1 .. m] \in V /\ H[1 .. m] \in W[m]
    BY <1>2, <1>3, <2>3, <2>4, <2>5
  <2>. QED
    BY <2>4, <2>6
<1>. HIDE DEF U
<1>10. H[T] \in U[n]
  BY <1>8, <1>9, PrefixInduction
<1>11. H[T] \in V \cap W[n]
  BY <1>10 DEF U
<1>. QED
  BY <1>1, <1>11


Searches == [m : 0 .. WINDOW_SIZE + MAX_CODED, i : 0 .. MAX_CODED, match : Answers]

(* What is compared next agrees so far, the match is one, and none that      *)
(* begins before is longer.                                                  *)
SearchInv(u, ring, head, s) ==
  /\ s \in Searches
  /\ s.m < WINDOW_SIZE /\ s.match.length # MAX_CODED =>
       s.i < MAX_CODED /\ Agrees(u, ring, head, s.m, s.i)
  /\ \A x \in 0 .. s.match.length - 1 : u[x] = ring[Wrap(s.match.offset + x, WINDOW_SIZE)]
  /\ \A c \in 0 .. WINDOW_SIZE - 1 : c < s.m =>
       \A n \in 0 .. MAX_CODED : Agrees(u, ring, head, c, n) => n <= s.match.length

(* A turn keeps this, and the search comes nearer to its end.                *)
LEMMA SearchStep ==
  ASSUME NEW u, NEW table \in [0 .. MAX_CODED - 1 -> Int], BordersTo(u, table, MAX_CODED - 1),
         NEW ring, NEW head, OnceAround(head), NEW beyond,
         NEW s, SearchInv(u, ring, head, s), s.m < WINDOW_SIZE, s.match.length # MAX_CODED
  PROVE  /\ SearchInv(u, ring, head, Searched(u, table, ring, head, beyond, s))
         /\ 2 * Searched(u, table, ring, head, beyond, s).m
              + Searched(u, table, ring, head, beyond, s).i > 2 * s.m + s.i
<1>. DEFINE m == s.m
            i == s.i
            t == table[i]
            w == s.match
            r == Searched(u, table, ring, head, beyond, s)
            d == WINDOW_SIZE
            e == MAX_CODED
            at(n) == Match(Wrap(m + head, d), n)
            IsPart(a) == \A x \in 0 .. a.length - 1 : u[x] = ring[Wrap(a.offset + x, d)]
            First(p, a) == \A c \in 0 .. d - 1 : c < p =>
                             \A n \in 0 .. e : Agrees(u, ring, head, c, n) => n <= a.length
<1>1. /\ d \in Nat \ {0} /\ e \in Nat \ {0} /\ m \in 0 .. d - 1 /\ i \in 0 .. e - 1
      /\ w \in Answers /\ w.length \in 0 .. e /\ w.length # e
  BY RingSizes DEF SearchInv, Searches, Answers
<1>2. Agrees(u, ring, head, m, i) /\ IsPart(w) /\ First(m, w)
  BY DEF SearchInv
<1>3. /\ \A x \in 0 .. e - 1 : Wrap(m + x + head, d) \in Indices
      /\ \A x \in 0 .. e - 1 : Wrap(Wrap(m + head, d) + x, d) = Wrap(m + x + head, d)
      /\ Wrap(m + head, d) \in Indices
  BY <1>1, WrapTwice
<1>. DEFINE next == ring[Wrap(m + i + head, d)]
<1>4. r = IF u[i] = next
          THEN [m |-> m, i |-> i + 1, match |-> IF i + 1 = e THEN at(e) ELSE w]
          ELSE [m |-> m + (i - t), i |-> IF t > 0 THEN t ELSE 0,
                match |-> IF i > w.length THEN at(i) ELSE w]
  <2>1. Kmp!ByteAt(ring, m + i + head, beyond) = next
    BY <1>1, <1>3 DEF Kmp!ByteAt, Kmp!Wrap, Wrap, Kmp!Indices, Indices, Kmp!WINDOW_SIZE, WINDOW_SIZE
  <2>2. ~ (m >= d) /\ w.length # e
    BY <1>1
  <2>. QED
    BY <2>1, <2>2 DEF Searched
<1>5. ASSUME NEW n \in 0 .. e, Agrees(u, ring, head, m, n)
      PROVE  at(n) \in Answers /\ at(n).length = n /\ IsPart(at(n))
  <2>1. at(n) \in Answers /\ at(n).length = n /\ at(n).offset = Wrap(m + head, d)
    BY <1>3 DEF Match, Answers
  <2>2. ASSUME NEW x \in 0 .. n - 1 PROVE u[x] = ring[Wrap(Wrap(m + head, d) + x, d)]
    <3>1. x \in 0 .. e - 1
      BY <1>1
    <3>. QED
      BY <1>3, <1>5, <3>1 DEF Agrees
  <2>. QED
    BY <2>1, <2>2
<1>6. SearchInv(u, ring, head, r)
        <=> /\ r \in Searches
            /\ r.m < d /\ r.match.length # e => r.i < e /\ Agrees(u, ring, head, r.m, r.i)
            /\ IsPart(r.match) /\ First(r.m, r.match)
  BY DEF SearchInv
<1>. HIDE DEF m, i, w, r, d, e, at, t
<1>7. CASE u[i] = next
  <2>1. Agrees(u, ring, head, m, i + 1)
    <3>1. \A x \in 0 .. i + 1 - 1 : x \in 0 .. i - 1 \/ x = i
      BY <1>1
    <3>. QED
      BY <1>1, <1>2, <1>7, <3>1 DEF Agrees, d
  <2>. DEFINE a == IF i + 1 = e THEN at(e) ELSE w
  <2>2. r.m = m /\ r.i = i + 1 /\ r.match = a /\ r = [m |-> m, i |-> i + 1, match |-> a]
    BY <1>4, <1>7
  <2>3. a \in Answers /\ IsPart(a) /\ First(m, a) /\ (i + 1 # e \/ a.length = e)
    <3>1. CASE i + 1 = e
      <4>1. at(e) \in Answers /\ at(e).length = e /\ IsPart(at(e))
        <5>1. e \in 0 .. e
          BY <1>1
        <5>. QED
          BY <1>5, <2>1, <3>1, <5>1
      <4>2. First(m, at(e))
        BY <1>1, <4>1
      <4>3. a = at(e)
        BY <3>1
      <4>. HIDE DEF a, IsPart, First
      <4>. QED
        BY <4>1, <4>2, <4>3
    <3>2. CASE i + 1 # e
      <4>1. a = w
        BY <3>2
      <4>. HIDE DEF a, IsPart, First
      <4>. QED
        BY <1>1, <1>2, <3>2, <4>1
    <3>. QED
      BY <3>1, <3>2
  <2>. HIDE DEF a, IsPart, First
  <2>4. r \in Searches
    <3>1. m \in 0 .. WINDOW_SIZE + MAX_CODED /\ i + 1 \in 0 .. MAX_CODED
      BY <1>1 DEF d, e
    <3>. QED
      BY <2>2, <2>3, <3>1 DEF Searches
  <2>5. r.m < d /\ r.match.length # e => r.i < e /\ Agrees(u, ring, head, r.m, r.i)
    BY <1>1, <2>1, <2>2, <2>3
  <2>6. 2 * r.m + r.i > 2 * m + i
    BY <1>1, <2>2
  <2>. QED
    BY <1>6, <2>2, <2>3, <2>4, <2>5, <2>6 DEF r, m, i
<1>8. CASE u[i] # next
  <2>. DEFINE a == IF i > w.length THEN at(i) ELSE w
              p == m + (i - t)
              q == IF t > 0 THEN t ELSE 0
  <2>1. r.m = p /\ r.i = q /\ r.match = a /\ r = [m |-> p, i |-> q, match |-> a]
    BY <1>4, <1>8
  <2>2. a \in Answers /\ IsPart(a) /\ a.length \in 0 .. e /\ a.length >= i /\ a.length >= w.length
    <3>1. CASE i > w.length
      <4>1. at(i) \in Answers /\ at(i).length = i /\ IsPart(at(i))
        <5>1. i \in 0 .. e
          BY <1>1
        <5>. QED
          BY <1>2, <1>5, <5>1
      <4>2. a = at(i)
        BY <3>1
      <4>. HIDE DEF a, IsPart
      <4>. QED
        BY <1>1, <3>1, <4>1, <4>2
    <3>2. CASE ~ (i > w.length)
      <4>1. a = w
        BY <3>2
      <4>. HIDE DEF a, IsPart
      <4>. QED
        BY <1>1, <1>2, <3>2, <4>1
    <3>. QED
      BY <3>1, <3>2
  <2>3. \A n \in 0 .. e : Agrees(u, ring, head, m, n) => n <= i
    <3>. SUFFICES ASSUME NEW n \in 0 .. e, Agrees(u, ring, head, m, n), ~ (n <= i) PROVE FALSE
      OBVIOUS
    <3>1. i \in 0 .. n - 1
      BY <1>1
    <3>2. u[i] = ring[Wrap(m + i + head, WINDOW_SIZE)]
      BY <3>1 DEF Agrees
    <3>. QED
      BY <1>8, <3>2 DEF d
  <2>4. CASE i = 0
    <3>1. t = -1
      BY <2>4 DEF BordersTo, t
    <3>2. p = m + 1 /\ q = 0
      BY <1>1, <2>4, <3>1
    <3>. HIDE DEF p, q, a
    <3>3. Agrees(u, ring, head, p, q)
      BY <3>2 DEF Agrees
    <3>4. First(p, a)
      <4>. SUFFICES ASSUME NEW c \in 0 .. d - 1, c < p, NEW n \in 0 .. e,
                           Agrees(u, ring, head, c, n)
                    PROVE  n <= a.length
        OBVIOUS
      <4>1. CASE c = m
        BY <1>1, <2>2, <2>3, <4>1
      <4>2. CASE c # m
        <5>1. c < m
          BY <1>1, <3>2, <4>2
        <5>2. n <= w.length
          BY <1>2, <5>1
        <5>. QED
          BY <1>1, <2>2, <5>2
      <4>. QED
        BY <4>1, <4>2
    <3>. HIDE DEF IsPart, First
    <3>5. r \in Searches
      <4>1. p \in 0 .. WINDOW_SIZE + MAX_CODED /\ q \in 0 .. MAX_CODED
        BY <1>1, <3>2 DEF d, e
      <4>. QED
        BY <2>1, <2>2, <4>1 DEF Searches
    <3>6. q < e /\ 2 * p + q > 2 * m + i
      BY <1>1, <2>4, <3>2
    <3>. QED
      BY <1>6, <2>1, <2>2, <3>3, <3>4, <3>5, <3>6 DEF r, m, i
  <2>5. CASE i # 0
    <3>1. i \in 1 .. MAX_CODED - 1 /\ i \in Nat
      BY <1>1, <2>5 DEF e
    <3>2. LongestBorder(u, i, t)
      BY <3>1 DEF BordersTo, t
    <3>3. t \in 0 .. i - 1 /\ \A x \in 0 .. t - 1 : u[x] = u[i - t + x]
      BY <3>2 DEF LongestBorder, BorderOf
    <3>4. q = t /\ p = m + (i - t)
      BY <3>3
    <3>. HIDE DEF p, q, a
    <3>5. Agrees(u, ring, head, p, q)
      <4>. SUFFICES ASSUME NEW x \in 0 .. t - 1
                    PROVE  u[x] = ring[Wrap(p + x + head, WINDOW_SIZE)]
        BY <3>4 DEF Agrees
      <4>1. i - t + x \in 0 .. i - 1 /\ m + (i - t + x) + head = p + x + head
        BY <1>1, <3>3, <3>4 DEF OnceAround, Indices
      <4>2. u[i - t + x] = ring[Wrap(m + (i - t + x) + head, WINDOW_SIZE)]
        BY <1>2, <4>1 DEF Agrees
      <4>. QED
        BY <3>3, <4>1, <4>2
    <3>6. First(p, a)
      <4>. SUFFICES ASSUME NEW c \in 0 .. d - 1, c < p, NEW n \in 0 .. e,
                           Agrees(u, ring, head, c, n), ~ (n <= a.length)
                    PROVE  FALSE
        OBVIOUS
      <4>1. c > m
        <5>1. c # m
          BY <1>1, <2>2, <2>3
        <5>2. ~ (c < m)
          <6>. SUFFICES ASSUME c < m PROVE FALSE
            OBVIOUS
          <6>1. n <= w.length
            BY <1>2
          <6>. QED
            BY <1>1, <2>2, <6>1
        <5>. QED
          BY <1>1, <5>1, <5>2
      <4>. DEFINE b == i - (c - m)
      <4>2. b \in 0 .. i - 1 /\ b > t /\ b <= n /\ n > i
        BY <1>1, <2>2, <3>3, <3>4, <4>1
      <4>3. ASSUME NEW x \in 0 .. b - 1 PROVE u[x] = u[i - b + x]
        <5>1. /\ x \in 0 .. n - 1 /\ i - b + x \in 0 .. i - 1
              /\ m + (i - b + x) + head = c + x + head
          BY <1>1, <4>2 DEF OnceAround, Indices
        <5>2. u[x] = ring[Wrap(c + x + head, WINDOW_SIZE)]
          BY <5>1 DEF Agrees
        <5>3. u[i - b + x] = ring[Wrap(m + (i - b + x) + head, WINDOW_SIZE)]
          BY <1>2, <5>1 DEF Agrees
        <5>. QED
          BY <5>1, <5>2, <5>3
      <4>. HIDE DEF b
      <4>4. BorderOf(u, i, b)
        BY <4>2, <4>3 DEF BorderOf
      <4>5. b <= t
        BY <3>2, <4>2, <4>4 DEF LongestBorder
      <4>. QED
        BY <3>3, <4>2, <4>5
    <3>. HIDE DEF IsPart, First
    <3>7. r \in Searches
      <4>1. p \in 0 .. WINDOW_SIZE + MAX_CODED /\ q \in 0 .. MAX_CODED
        BY <1>1, <3>1, <3>3, <3>4 DEF d, e
      <4>. QED
        BY <2>1, <2>2, <4>1 DEF Searches
    <3>8. q < e /\ 2 * p + q > 2 * m + i
      BY <1>1, <3>1, <3>3, <3>4
    <3>. QED
      BY <1>6, <2>1, <2>2, <3>5, <3>6, <3>7, <3>8 DEF r, m, i
  <2>. QED
    BY <2>4, <2>5
<1>. QED
  BY <1>7, <1>8

(* The search returns a match, and no string has a longer one.               *)
LEMMA SearchIs ==
  ASSUME NEW u, NEW ring, NEW head, OnceAround(head), NEW beyond
  PROVE  LET r == Kmp!KMPSearch(ring, head, u, beyond)
         IN /\ r \in Answers
            /\ \A x \in 0 .. r.length - 1 : u[x] = ring[Wrap(r.offset + x, WINDOW_SIZE)]
            /\ \A c \in 0 .. WINDOW_SIZE - 1, n \in 0 .. MAX_CODED :
                 Agrees(u, ring, head, c, n) => n <= r.length
<1>. DEFINE d == WINDOW_SIZE
            e == MAX_CODED
            n == 2 * d + e
            turns == [x \in 1 .. n |-> x]
            table == Kmp!FillTable(u)
            base == [m |-> 0, i |-> 0, match |-> Match(0, 0)]
            Done(s) == s.m >= d \/ s.match.length = e
            Turn(s) == Searched(u, table, ring, head, beyond, s)
            V == {s \in Searches : SearchInv(u, ring, head, s)}
            W == [y \in 0 .. n |-> {s \in V : Done(s) \/ 2 * s.m + s.i >= y}]
            last == SearchedAfter(u, table, ring, head, beyond, base, turns)
<1>1. d \in Nat \ {0} /\ e \in Nat \ {0} /\ n \in Nat /\ Indices = 0 .. d - 1
  BY RingSizes DEF Indices
<1>2. table \in [0 .. MAX_CODED - 1 -> Int] /\ BordersTo(u, table, MAX_CODED - 1)
  BY TableIs
<1>3. Kmp!KMPSearch(ring, head, u, beyond) = last.match
  <2>1. Kmp!MAX_CODED = e /\ Kmp!WINDOW_SIZE = d
    BY DEF Kmp!MAX_CODED, MAX_CODED, Kmp!WINDOW_SIZE, WINDOW_SIZE
  <2>. QED
    BY <2>1 DEF Kmp!KMPSearch, Kmp!Turns, Kmp!Skip, Kmp!Match, Match, Kmp!Wrap, Wrap,
                SearchedAfter, Searched, FoldLeft, MapThenFoldSet,
                Kmp!FoldLeft, Kmp!MapThenFoldSet, Kmp!Max, Max
<1>. HIDE DEF table, turns
<1>4. base.m = 0 /\ base.i = 0 /\ base.match = Match(0, 0)
      /\ base.match \in Answers /\ base.match.length = 0
  BY <1>1 DEF Match, Answers
<1>5. base \in V
  <2>1. base \in Searches
    BY <1>1, <1>4 DEF Searches
  <2>. HIDE DEF base
  <2>2. SearchInv(u, ring, head, base)
    BY <1>1, <1>4, <2>1 DEF SearchInv, Agrees
  <2>. QED
    BY <2>1, <2>2
<1>6. \A s \in V : s.m \in Int /\ s.i \in Int /\ s.i >= 0 /\ s.i <= e /\ 2 * s.m + s.i \in Int
                   /\ s.match \in Answers
  BY <1>1 DEF Searches
<1>7. \A s : Done(s) => Turn(s) = s
  BY DEF Searched
<1>8. ASSUME NEW s \in V
      PROVE  Turn(s) \in V /\ (~ Done(s) => 2 * Turn(s).m + Turn(s).i > 2 * s.m + s.i)
  <2>1. CASE Done(s)
    BY <1>7, <2>1
  <2>2. CASE ~ Done(s)
    <3>1. s.m < WINDOW_SIZE /\ s.match.length # MAX_CODED
      BY <1>1, <1>6, <2>2
    <3>2. /\ SearchInv(u, ring, head, Turn(s))
          /\ 2 * Turn(s).m + Turn(s).i > 2 * s.m + s.i
      BY <1>2, <3>1, SearchStep
    <3>3. Turn(s) \in Searches
      BY <3>2 DEF SearchInv
    <3>. QED
      BY <3>2, <3>3
  <2>. QED
    BY <2>1, <2>2
<1>9. base \in W[0]
  BY <1>1, <1>4, <1>5
<1>. HIDE DEF V, base, Turn
<1>10. ASSUME NEW y \in 1 .. n, NEW s \in V \cap W[y - 1] PROVE Turn(s) \in W[y]
  <2>1. y - 1 \in 0 .. n /\ y \in 0 .. n /\ y \in Int
    BY <1>1
  <2>2. Done(s) \/ 2 * s.m + s.i >= y - 1
    BY <2>1
  <2>. DEFINE r == Turn(s)
  <2>3. r \in V
    BY <1>8
  <2>4. 2 * r.m + r.i \in Int /\ 2 * s.m + s.i \in Int
    BY <1>6, <2>3
  <2>5. Done(r) \/ 2 * r.m + r.i >= y
    <3>1. CASE Done(s)
      <4>1. r = s
        BY <1>7, <3>1
      <4>. HIDE DEF r
      <4>. QED
        BY <3>1, <4>1
    <3>2. CASE ~ Done(s)
      <4>1. 2 * r.m + r.i > 2 * s.m + s.i
        BY <1>8, <3>2
      <4>. HIDE DEF r, Done
      <4>. QED
        BY <2>1, <2>2, <2>4, <3>2, <4>1
    <3>. QED
      BY <3>1, <3>2
  <2>. QED
    BY <2>1, <2>3, <2>5
<1>. HIDE DEF W, n
<1>11. last \in V \cap W[n]
  <2>1. DOMAIN turns = 1 .. n
    BY DEF turns
  <2>2. \A y \in 1 .. n : \A s \in V : Searched(u, table, ring, head, beyond, s) \in V
    BY <1>8 DEF Turn
  <2>3. \A y \in 1 .. n : \A s \in V \cap W[y - 1] :
          Searched(u, table, ring, head, beyond, s) \in W[y]
    BY <1>10 DEF Turn
  <2>. QED
    BY <1>1, <1>5, <1>9, <2>1, <2>2, <2>3, SearchFrom
<1>12. Done(last) \/ 2 * last.m + last.i >= n
  BY <1>1, <1>11 DEF W
<1>. HIDE DEF last
<1>13. Done(last)
  <2>1. last.m \in Int /\ last.i \in Int /\ last.i <= e
    BY <1>6, <1>11
  <2>2. CASE 2 * last.m + last.i >= n
    <3>1. last.m >= d
      BY <1>1, <2>1, <2>2 DEF n
    <3>. QED
      BY <3>1
  <2>. QED
    BY <1>12, <2>2
<1>14. SearchInv(u, ring, head, last)
  BY <1>11 DEF V
<1>. DEFINE r == last.match
<1>15. /\ r \in Answers
       /\ \A x \in 0 .. r.length - 1 : u[x] = ring[Wrap(r.offset + x, WINDOW_SIZE)]
       /\ \A c \in 0 .. d - 1 : c < last.m =>
            \A x \in 0 .. e : Agrees(u, ring, head, c, x) => x <= r.length
  BY <1>6, <1>11, <1>14 DEF SearchInv
<1>16. \A c \in 0 .. d - 1, x \in 0 .. e : Agrees(u, ring, head, c, x) => x <= r.length
  <2>1. CASE r.length = e
    BY <1>1, <2>1
  <2>2. CASE last.m >= d
    <3>1. \A c \in 0 .. d - 1 : c < last.m
      BY <1>1, <1>6, <1>11, <2>2
    <3>. QED
      BY <1>15, <3>1
  <2>. QED
    BY <1>13, <2>1, <2>2
<1>. QED
  BY <1>3, <1>15, <1>16

(* FindMatch of kmp.cpp, where it wraps no index twice.                      *)
LEMMA KmpAnswers ==
  ASSUME ChainsInv, FindMatch, method = "kmp", OnceAround(windowHead)
  PROVE  Answered(window, lookahead', uncodedHead', match')
<1>. DEFINE look == lookahead'
            head == uncodedHead'
            u == [x \in 0 .. MAX_CODED - 1 |-> look[Wrap(head + x, MAX_CODED)]]
            l == Longest(window, look, head)
            r == match'
<1>1. PICK beyond \in Chars : r = KmpMatch(beyond)
  BY DEF FindMatch
<1>2. r = Kmp!KMPSearch(window, windowHead, u, beyond)
  BY <1>1 DEF KmpMatch
<1>. HIDE DEF look, head, r, l
<1>3. /\ r \in Answers
      /\ \A x \in 0 .. r.length - 1 : u[x] = window[Wrap(r.offset + x, WINDOW_SIZE)]
      /\ \A c \in 0 .. WINDOW_SIZE - 1, n \in 0 .. MAX_CODED :
           Agrees(u, window, windowHead, c, n) => n <= r.length
  <2>. HIDE DEF u
  <2>. DEFINE a == Kmp!KMPSearch(window, windowHead, u, beyond)
  <2>1. /\ a \in Answers
        /\ \A x \in 0 .. a.length - 1 : u[x] = window[Wrap(a.offset + x, WINDOW_SIZE)]
        /\ \A c \in 0 .. WINDOW_SIZE - 1, n \in 0 .. MAX_CODED :
             Agrees(u, window, windowHead, c, n) => n <= a.length
    BY SearchIs
  <2>. HIDE DEF a
  <2>2. r = a
    BY <1>2 DEF a
  <2>. QED
    BY <2>1, <2>2
<1>4. /\ r.length \in 0 .. MAX_CODED /\ r.offset \in Indices
      /\ WINDOW_SIZE \in Nat \ {0} /\ MAX_CODED \in Nat /\ windowHead \in 0 .. WINDOW_SIZE - 1
  BY <1>3, RingSizes DEF Answers, OnceAround, Indices
<1>5. SameBytes(window, r.offset, look, head, r.length)
  <2>1. \A x \in 0 .. r.length - 1 : u[x] = look[Wrap(head + x, MAX_CODED)]
    BY <1>4
  <2>. QED
    BY <1>3, <2>1 DEF SameBytes
<1>6. /\ l \in 0 .. MAX_CODED
      /\ (l = 0 \/ \E i \in Indices : SameBytes(window, i, look, head, l))
      /\ \A i \in Indices, x \in 0 .. MAX_CODED : SameBytes(window, i, look, head, x) => x <= l
  BY LongestIs DEF l
<1>7. r.length <= l
  BY <1>4, <1>5, <1>6
<1>8. l <= r.length
  <2>1. CASE l = 0
    BY <1>4, <2>1
  <2>2. ASSUME NEW i \in Indices, SameBytes(window, i, look, head, l) PROVE l <= r.length
    <3>. DEFINE c == IF i >= windowHead THEN i - windowHead ELSE i + WINDOW_SIZE - windowHead
    <3>1. i \in 0 .. WINDOW_SIZE - 1
      BY DEF Indices
    <3>2. c \in 0 .. WINDOW_SIZE - 1 /\ Wrap(c + windowHead, WINDOW_SIZE) = i
      BY <1>4, <3>1 DEF Wrap
    <3>. HIDE DEF c
    <3>3. ASSUME NEW x \in 0 .. l - 1
          PROVE  u[x] = window[Wrap(c + x + windowHead, WINDOW_SIZE)]
      <4>1. x \in 0 .. MAX_CODED - 1
        BY <1>4, <1>6
      <4>2. Wrap(i + x, WINDOW_SIZE) = Wrap(c + x + windowHead, WINDOW_SIZE)
        BY <3>2, <4>1, WrapTwice
      <4>3. window[Wrap(i + x, WINDOW_SIZE)] = look[Wrap(head + x, MAX_CODED)]
        BY <2>2 DEF SameBytes
      <4>. QED
        BY <4>1, <4>2, <4>3
    <3>4. Agrees(u, window, windowHead, c, l)
      BY <3>3 DEF Agrees
    <3>. QED
      BY <1>3, <1>6, <3>2, <3>4
  <2>. QED
    BY <1>6, <2>1, <2>2
<1>9. r.length = l
  BY <1>4, <1>6, <1>7, <1>8
<1>. QED
  BY <1>5, <1>9 DEF Answered, r, look, head, l

-------------------------------------------------------------------------------
(* Between FindMatch and the use of its result. *)

(* What the four matchers without a tree have found.                         *)
FoundInv ==
  method # "tree" /\ pc = "found" =>
    \/ method = "kmp" /\ ~ OnceAround(windowHead)
    \/ Answered(window, lookahead, uncodedHead, match)

(* FindMatch makes it true, and nothing happens before the encoder has it.   *)
LEMMA FoundStep == ChainsInv /\ FoundInv /\ [Next]_vars => FoundInv'
<1>. SUFFICES ASSUME ChainsInv, FoundInv, [Next]_vars, method' # "tree", pc' = "found"
              PROVE  \/ method' = "kmp" /\ ~ OnceAround(windowHead')
                     \/ Answered(window, lookahead, uncodedHead, match)'
  BY DEF FoundInv
<1>1. CASE UNCHANGED vars
  <2>1. UNCHANGED <<method, pc, window, windowHead, lookahead, uncodedHead, match>>
    BY <1>1 DEF vars, query
  <2>. QED
    BY <2>1 DEF FoundInv, Answered, Longest, SameBytes
<1>2. CASE FindMatch
  <2>1. UNCHANGED <<method, window, windowHead>> /\ method \in {"brute", "list", "hash", "kmp"}
    BY <1>2 DEF FindMatch
  <2>2. Answered(window, lookahead', uncodedHead', match') \/ (method = "kmp" /\ ~ OnceAround(windowHead))
    BY <1>2, <2>1, ListsAnswer, KmpAnswers
  <2>. QED
    BY <2>1, <2>2 DEF Answered, Longest, SameBytes
<1>3. CASE Next /\ ~ FindMatch
  <2>1. method' = method
    BY <1>3 DEF Next, Search, Replace, TreeRemoves, TreeAdds, FindInTree, SearchNode, EndOfSearch,
                Return, ReplaceChar, ReplaceInTree, SkipString, RemoveString, LookForRightmost,
                GoRight, Promote, StoreByte, AddAtRoot, StartAtRoot, Descend, AttachString,
                ReplaceNode, EndOfReplacing, Unhook, Hook, TreeStep
  <2>2. pc \in {"ready", "found"} /\ method # "tree"
    BY <2>1 DEF ChainsInv
  <2>3. Return \/ \E c \in Chars : ReplaceChar(c)
    BY <1>3, <2>2 DEF Next, Search, Replace, TreeRemoves, TreeAdds, FindInTree, SearchNode,
                EndOfSearch, ReplaceInTree, SkipString, RemoveString, LookForRightmost,
                GoRight, Promote, StoreByte, AddAtRoot, StartAtRoot, Descend, AttachString,
                ReplaceNode, EndOfReplacing, Removing, Adding
  <2>4. pc' # "found"
    BY <2>3 DEF Return, ReplaceChar
  <2>. QED
    BY <2>4
<1>. QED
  BY <1>1, <1>2, <1>3

-------------------------------------------------------------------------------
(* The order of the strings. *)

Byte(ring, i, x) == ring[Wrap(i + x, WINDOW_SIZE)]

(* The string at i is less than the one at j; they are equal. *)
Before(ring, i, j) ==
  \E x \in 0 .. MAX_CODED - 1 :
    /\ \A y \in 0 .. x - 1 : Byte(ring, i, y) = Byte(ring, j, y)
    /\ Byte(ring, i, x) < Byte(ring, j, x)
Same(ring, i, j) == \A x \in 0 .. MAX_CODED - 1 : Byte(ring, i, x) = Byte(ring, j, x)

(* Bytes are numbers.                                                        *)
LEMMA ByteIs ==
  ASSUME NEW ring \in [Indices -> Chars], NEW i \in Indices, NEW x \in 0 .. MAX_CODED
  PROVE  Byte(ring, i, x) \in Nat
<1>1. x \in 0 .. WINDOW_SIZE
  BY RingSizes
<1>2. Wrap(i + x, WINDOW_SIZE) \in Indices
  BY <1>1, WrapInside
<1>. QED
  BY <1>2, MatchersAssumption DEF Byte

(* The order is transitive and no string is before itself.                   *)
LEMMA BeforeOrders ==
  ASSUME NEW ring \in [Indices -> Chars]
  PROVE  /\ \A i \in Indices : ~ Before(ring, i, i)
         /\ \A i, j, l \in Indices : Before(ring, i, j) /\ Before(ring, j, l) => Before(ring, i, l)
         /\ \A i, j \in Indices : Before(ring, i, j) => ~ Before(ring, j, i)
<1>. DEFINE B(i, x) == Byte(ring, i, x)
<1>1. \A i \in Indices, x \in 0 .. MAX_CODED - 1 : B(i, x) \in Nat
  <2>1. \A x \in 0 .. MAX_CODED - 1 : x \in 0 .. MAX_CODED
    BY RingSizes
  <2>. QED
    BY <2>1, ByteIs
<1>2. MAX_CODED \in Nat
  BY RingSizes
<1>. HIDE DEF B
<1>3. \A i \in Indices : ~ Before(ring, i, i)
  BY <1>1 DEF Before, B
<1>4. ASSUME NEW i \in Indices, NEW j \in Indices, NEW l \in Indices,
             Before(ring, i, j), Before(ring, j, l)
      PROVE  Before(ring, i, l)
  <2>1. PICK x \in 0 .. MAX_CODED - 1 : (\A y \in 0 .. x - 1 : B(i, y) = B(j, y)) /\ B(i, x) < B(j, x)
    BY <1>4 DEF Before, B
  <2>2. PICK z \in 0 .. MAX_CODED - 1 : (\A y \in 0 .. z - 1 : B(j, y) = B(l, y)) /\ B(j, z) < B(l, z)
    BY <1>4 DEF Before, B
  <2>. DEFINE w == IF x <= z THEN x ELSE z
  <2>3. w \in 0 .. MAX_CODED - 1 /\ w <= x /\ w <= z
    BY <1>2
  <2>4. \A y \in 0 .. w - 1 : y \in 0 .. x - 1 /\ y \in 0 .. z - 1
    BY <1>2
  <2>5. \A y \in 0 .. w - 1 : B(i, y) = B(l, y)
    BY <2>1, <2>2, <2>4
  <2>6. B(i, w) < B(l, w)
    <3>1. CASE x < z
      <4>1. w = x /\ x \in 0 .. z - 1
        BY <3>1
      <4>. QED
        BY <2>1, <2>2, <4>1
    <3>2. CASE x = z
      <4>1. w = x
        BY <3>2
      <4>. QED
        BY <1>1, <2>1, <2>2, <3>2, <4>1
    <3>3. CASE x > z
      <4>1. w = z /\ z \in 0 .. x - 1
        BY <3>3
      <4>. QED
        BY <2>1, <2>2, <4>1
    <3>. QED
      BY <1>2, <3>1, <3>2, <3>3
  <2>. HIDE DEF w
  <2>. QED
    BY <2>3, <2>5, <2>6 DEF Before, B
<1>. QED
  BY <1>3, <1>4

(* Equal strings have the same place in the order.                           *)
LEMMA SamePlace ==
  ASSUME NEW ring, NEW i, NEW j, Same(ring, i, j), NEW l
  PROVE  /\ Before(ring, i, l) <=> Before(ring, j, l)
         /\ Before(ring, l, i) <=> Before(ring, l, j)
<1>1. \A x \in 0 .. MAX_CODED - 1 : Byte(ring, i, x) = Byte(ring, j, x)
  BY DEF Same
<1>2. \A x \in 0 .. MAX_CODED - 1 : \A y \in 0 .. x - 1 : y \in 0 .. MAX_CODED - 1
  BY RingSizes
<1>. QED
  BY <1>1, <1>2 DEF Before

(* CompareString tells which of the two is less.                             *)
LEMMA CompareIs ==
  ASSUME NEW ring \in [Indices -> Chars], NEW i \in Indices, NEW j \in Indices
  PROVE  LET c == Tree!CompareString(ring, i, j)
         IN /\ c \in Int
            /\ c < 0 <=> Before(ring, i, j)
            /\ c > 0 <=> Before(ring, j, i)
            /\ c = 0 <=> Same(ring, i, j)
<1>. DEFINE D == {x \in 0 .. MAX_CODED - 1 : Byte(ring, i, x) # Byte(ring, j, x)}
            f == CHOOSE x \in D : \A y \in D : x <= y
            c == IF D = {} THEN 0 ELSE Byte(ring, i, f) - Byte(ring, j, f)
<1>1. MAX_CODED \in Nat
  BY RingSizes
<1>2. Tree!CompareString(ring, i, j) = c
  BY DEF Tree!CompareString, Byte, Wrap, Tree!Wrap, Tree!WINDOW_SIZE, WINDOW_SIZE,
         Tree!MAX_CODED, MAX_CODED
<1>3. \A x \in 0 .. MAX_CODED - 1 : Byte(ring, i, x) \in Nat /\ Byte(ring, j, x) \in Nat
  <2>1. \A x \in 0 .. MAX_CODED - 1 : x \in 0 .. MAX_CODED
    BY <1>1
  <2>. QED
    BY <2>1, ByteIs
<1>4. CASE D = {}
  <2>1. c = 0 /\ Same(ring, i, j)
    BY <1>4 DEF Same
  <2>2. \A x \in 0 .. MAX_CODED - 1 : ~ (Byte(ring, i, x) < Byte(ring, j, x))
                                      /\ ~ (Byte(ring, j, x) < Byte(ring, i, x))
    BY <1>3, <1>4
  <2>3. ~ Before(ring, i, j) /\ ~ Before(ring, j, i)
    BY <2>2 DEF Before
  <2>. QED
    BY <1>2, <2>1, <2>3
<1>5. CASE D # {}
  <2>1. f \in D /\ \A y \in D : f <= y
    <3>1. D \in SUBSET (0 .. MAX_CODED)
      BY <1>1
    <3>2. Min(D) \in D /\ \A y \in D : Min(D) <= y
      BY <1>1, <1>5, <3>1, MaxIn
    <3>. QED
      BY <3>2
  <2>. HIDE DEF f
  <2>2. f \in 0 .. MAX_CODED - 1 /\ Byte(ring, i, f) # Byte(ring, j, f)
    BY <2>1
  <2>3. \A y \in 0 .. f - 1 : Byte(ring, i, y) = Byte(ring, j, y)
    <3>. SUFFICES ASSUME NEW y \in 0 .. f - 1, Byte(ring, i, y) # Byte(ring, j, y) PROVE FALSE
      OBVIOUS
    <3>1. y \in D /\ ~ (f <= y)
      BY <1>1, <2>2
    <3>. QED
      BY <2>1, <3>1
  <2>4. c = Byte(ring, i, f) - Byte(ring, j, f)
    BY <1>5
  <2>5. Byte(ring, i, f) \in Nat /\ Byte(ring, j, f) \in Nat
    BY <1>3, <2>2
  <2>. HIDE DEF c, D
  <2>6. c \in Int /\ c # 0 /\ ~ Same(ring, i, j)
    BY <2>2, <2>4, <2>5 DEF Same
  <2>7. CASE Byte(ring, i, f) < Byte(ring, j, f)
    <3>1. Before(ring, i, j)
      BY <2>2, <2>3, <2>7 DEF Before
    <3>2. ~ Before(ring, j, i)
      BY <3>1, BeforeOrders
    <3>. QED
      BY <1>2, <2>4, <2>5, <2>6, <2>7, <3>1, <3>2
  <2>8. CASE Byte(ring, j, f) < Byte(ring, i, f)
    <3>1. Before(ring, j, i)
      <4>1. \A y \in 0 .. f - 1 : Byte(ring, j, y) = Byte(ring, i, y)
        BY <2>3
      <4>. QED
        BY <2>2, <2>8, <4>1 DEF Before
    <3>2. ~ Before(ring, i, j)
      BY <3>1, BeforeOrders
    <3>. QED
      BY <1>2, <2>4, <2>5, <2>6, <2>8, <3>1, <3>2
  <2>. QED
    BY <2>2, <2>5, <2>7, <2>8
<1>. QED
  BY <1>4, <1>5

-------------------------------------------------------------------------------
(* The nodes of a tree. *)

NIL == Tree!NULL_INDEX
TOP == Tree!ROOT_INDEX

Cells == 0 .. NIL
NodeRecords == [leftChild : Cells, rightChild : Cells, parent : Cells]
Trees == [node : [Cells -> NodeRecords], root : Cells]

LeftOf(t, i) == t.node[i].leftChild
RightOf(t, i) == t.node[i].rightChild
Up(t, i) == t.node[i].parent

(* The two indices behind the array.                                         *)
LEMMA TreeWindow ==
  /\ Tree!WINDOW_SIZE = WINDOW_SIZE /\ Tree!MAX_CODED = MAX_CODED /\ Tree!Indices = Indices
  /\ TOP = WINDOW_SIZE + 1 /\ NIL = WINDOW_SIZE + 2
  /\ Tree!Memory = Cells
  /\ Indices \subseteq Cells /\ NIL \in Cells /\ TOP \in Cells
  /\ TOP # NIL /\ TOP \notin Indices /\ NIL \notin Indices
<1>1. /\ Tree!WINDOW_SIZE = WINDOW_SIZE /\ Tree!MAX_CODED = MAX_CODED /\ Tree!Indices = Indices
  BY DEF Tree!WINDOW_SIZE, WINDOW_SIZE, Tree!MAX_CODED, MAX_CODED, Tree!Indices, Indices
<1>2. WINDOW_SIZE \in Nat
  BY RingSizes
<1>3. TOP = WINDOW_SIZE + 1 /\ NIL = WINDOW_SIZE + 2
  BY <1>1, <1>2 DEF TOP, NIL, Tree!NULL_INDEX, Tree!ROOT_INDEX
<1>4. Tree!Memory = Cells
  BY DEF Tree!Memory, Cells, NIL
<1>. QED
  BY <1>1, <1>2, <1>3, <1>4 DEF Indices, Cells

(* What an assignment to one field of a node, to a node or to the root       *)
(* changes.                                                                  *)
LEMMA SetLeft ==
  ASSUME NEW t \in Trees, NEW i \in Cells, NEW v \in Cells
  PROVE  LET u == [t EXCEPT !.node[i].leftChild = v]
         IN /\ u \in Trees /\ u.root = t.root
            /\ \A x \in Cells : /\ LeftOf(u, x) = IF x = i THEN v ELSE LeftOf(t, x)
                                /\ RightOf(u, x) = RightOf(t, x)
                                /\ Up(u, x) = Up(t, x)
BY DEF Trees, NodeRecords, LeftOf, RightOf, Up

(* The same for the right children.                                          *)
LEMMA SetRight ==
  ASSUME NEW t \in Trees, NEW i \in Cells, NEW v \in Cells
  PROVE  LET u == [t EXCEPT !.node[i].rightChild = v]
         IN /\ u \in Trees /\ u.root = t.root
            /\ \A x \in Cells : /\ RightOf(u, x) = IF x = i THEN v ELSE RightOf(t, x)
                                /\ LeftOf(u, x) = LeftOf(t, x)
                                /\ Up(u, x) = Up(t, x)
BY DEF Trees, NodeRecords, LeftOf, RightOf, Up

(* The same for the parents.                                                 *)
LEMMA SetUp ==
  ASSUME NEW t \in Trees, NEW i \in Cells, NEW v \in Cells
  PROVE  LET u == [t EXCEPT !.node[i].parent = v]
         IN /\ u \in Trees /\ u.root = t.root
            /\ \A x \in Cells : /\ Up(u, x) = IF x = i THEN v ELSE Up(t, x)
                                /\ LeftOf(u, x) = LeftOf(t, x)
                                /\ RightOf(u, x) = RightOf(t, x)
BY DEF Trees, NodeRecords, LeftOf, RightOf, Up

(* A whole record is written.                                                *)
LEMMA SetNode ==
  ASSUME NEW t \in Trees, NEW i \in Cells, NEW r \in NodeRecords
  PROVE  LET u == [t EXCEPT !.node[i] = r]
         IN /\ u \in Trees /\ u.root = t.root
            /\ \A x \in Cells :
                 /\ LeftOf(u, x) = IF x = i THEN r.leftChild ELSE LeftOf(t, x)
                 /\ RightOf(u, x) = IF x = i THEN r.rightChild ELSE RightOf(t, x)
                 /\ Up(u, x) = IF x = i THEN r.parent ELSE Up(t, x)
BY DEF Trees, NodeRecords, LeftOf, RightOf, Up

(* Another root.                                                             *)
LEMMA SetRoot ==
  ASSUME NEW t \in Trees, NEW v \in Cells
  PROVE  LET u == [t EXCEPT !.root = v]
         IN /\ u \in Trees /\ u.root = v
            /\ \A x \in Cells : /\ LeftOf(u, x) = LeftOf(t, x)
                                /\ RightOf(u, x) = RightOf(t, x)
                                /\ Up(u, x) = Up(t, x)
BY DEF Trees, NodeRecords, LeftOf, RightOf, Up

(* The fields hold indices.                                                  *)
LEMMA FieldsInside ==
  ASSUME NEW t \in Trees, NEW x \in Cells
  PROVE  LeftOf(t, x) \in Cells /\ RightOf(t, x) \in Cells /\ Up(t, x) \in Cells
         /\ t.root \in Cells /\ t.node[x] \in NodeRecords
BY DEF Trees, NodeRecords, LeftOf, RightOf, Up

-------------------------------------------------------------------------------
(* The shape of a tree. *)

(* The nodes under a child, if there is one. *)
Under(sub, c) == IF c = NIL THEN {} ELSE sub[c]

(* N are the nodes of the tree, and sub[x] is x with the nodes under it.  A  *)
(* node that is not in the tree has no parent.                               *)
Nested(t, N, sub) ==
  /\ t \in Trees
  /\ N \subseteq Indices /\ sub \in [N -> SUBSET N]
  /\ \A i \in Indices : Up(t, i) = NIL <=> i \notin N
  /\ t.root \in N /\ sub[t.root] = N /\ Up(t, t.root) = TOP
  /\ \A x \in N :
       /\ LeftOf(t, x) \in N \cup {NIL} /\ RightOf(t, x) \in N \cup {NIL}
       /\ sub[x] = {x} \cup Under(sub, LeftOf(t, x)) \cup Under(sub, RightOf(t, x))
       /\ \A c \in {LeftOf(t, x), RightOf(t, x)} \ {NIL} : Up(t, c) = x

(* No node is twice under another one. *)
Split(t, N, sub) ==
  \A x \in N :
    /\ x \notin Under(sub, LeftOf(t, x)) /\ x \notin Under(sub, RightOf(t, x))
    /\ Under(sub, LeftOf(t, x)) \cap Under(sub, RightOf(t, x)) = {}

(* On the left of a node are smaller strings, on the right greater ones. *)
Sorted(t, ring, N, sub) ==
  \A x \in N : /\ \A j \in Under(sub, LeftOf(t, x)) : Before(ring, j, x)
               /\ \A j \in Under(sub, RightOf(t, x)) : Before(ring, x, j)

(* The order keeps the two sides of a node apart.                            *)
LEMMA SortedSplit ==
  ASSUME NEW ring \in [Indices -> Chars], NEW t, NEW N, NEW sub,
         Nested(t, N, sub), Sorted(t, ring, N, sub)
  PROVE  Split(t, N, sub)
<1>. SUFFICES ASSUME NEW x \in N
     PROVE  /\ x \notin Under(sub, LeftOf(t, x)) /\ x \notin Under(sub, RightOf(t, x))
            /\ Under(sub, LeftOf(t, x)) \cap Under(sub, RightOf(t, x)) = {}
  BY DEF Split
<1>1. x \in Indices /\ N \subseteq Indices
  BY DEF Nested
<1>2. Under(sub, LeftOf(t, x)) \subseteq N /\ Under(sub, RightOf(t, x)) \subseteq N
  BY DEF Nested, Under
<1>3. /\ \A j \in Under(sub, LeftOf(t, x)) : Before(ring, j, x)
      /\ \A j \in Under(sub, RightOf(t, x)) : Before(ring, x, j)
  BY DEF Sorted
<1>4. /\ \A i \in Indices : ~ Before(ring, i, i)
      /\ \A i, j \in Indices : Before(ring, i, j) => ~ Before(ring, j, i)
  BY BeforeOrders
<1>. QED
  BY <1>1, <1>2, <1>3, <1>4

(* The sets of a node and of its children.                                   *)
LEMMA SetSizes ==
  ASSUME NEW t, NEW N, NEW sub, Nested(t, N, sub), Split(t, N, sub)
  PROVE  /\ IsFiniteSet(N)
         /\ \A x \in N : /\ x \in sub[x] /\ sub[x] \subseteq N
                         /\ Cardinality(sub[x]) \in 1 .. WINDOW_SIZE
         /\ \A x \in N : \A c \in {LeftOf(t, x), RightOf(t, x)} \ {NIL} :
              /\ c \in N /\ Up(t, c) = x /\ c # x
              /\ sub[c] \subseteq sub[x] /\ x \notin sub[c]
              /\ Cardinality(sub[c]) < Cardinality(sub[x])
<1>1. IsFiniteSet(Indices) /\ Cardinality(Indices) = WINDOW_SIZE /\ WINDOW_SIZE \in Nat
  <2>1. 0 \in Int /\ WINDOW_SIZE - 1 \in Int /\ WINDOW_SIZE \in Nat \ {0}
    BY RingSizes
  <2>2. /\ IsFiniteSet(0 .. WINDOW_SIZE - 1)
        /\ Cardinality(0 .. WINDOW_SIZE - 1)
             = IF 0 > WINDOW_SIZE - 1 THEN 0 ELSE (WINDOW_SIZE - 1) - 0 + 1
    BY <2>1, FS_Interval
  <2>. QED
    BY <2>1, <2>2 DEF Indices
<1>2. N \subseteq Indices /\ \A x \in N : x \in sub[x] /\ sub[x] \subseteq N
  BY DEF Nested
<1>3. IsFiniteSet(N)
  BY <1>1, <1>2, FS_Subset
<1>4. ASSUME NEW x \in N
      PROVE  IsFiniteSet(sub[x]) /\ Cardinality(sub[x]) \in 1 .. WINDOW_SIZE
  <2>1. IsFiniteSet(sub[x]) /\ Cardinality(sub[x]) <= Cardinality(Indices)
    <3>1. sub[x] \subseteq Indices
      BY <1>2
    <3>. QED
      BY <1>1, <3>1, FS_Subset
  <2>2. Cardinality(sub[x]) \in Nat /\ Cardinality(sub[x]) # 0
    BY <1>2, <2>1, FS_CardinalityType, FS_EmptySet
  <2>. QED
    BY <1>1, <2>1, <2>2
<1>5. ASSUME NEW x \in N, NEW c \in {LeftOf(t, x), RightOf(t, x)} \ {NIL}
      PROVE  /\ c \in N /\ Up(t, c) = x /\ c # x
             /\ sub[c] \subseteq sub[x] /\ x \notin sub[c]
             /\ Cardinality(sub[c]) < Cardinality(sub[x])
  <2>1. c \in N /\ Up(t, c) = x
    BY DEF Nested
  <2>2. sub[c] \subseteq sub[x]
    BY DEF Nested, Under
  <2>3. x \notin sub[c]
    BY DEF Split, Under
  <2>4. sub[c] \subseteq sub[x] \ {x}
    BY <2>2, <2>3
  <2>5. IsFiniteSet(sub[x] \ {x}) /\ Cardinality(sub[x] \ {x}) = Cardinality(sub[x]) - 1
    BY <1>2, <1>4, FS_RemoveElement
  <2>6. Cardinality(sub[c]) <= Cardinality(sub[x] \ {x})
    BY <2>4, <2>5, FS_Subset
  <2>7. Cardinality(sub[c]) < Cardinality(sub[x])
    BY <1>4, <2>1, <2>5, <2>6
  <2>. QED
    BY <1>2, <2>1, <2>2, <2>3, <2>7
<1>. QED
  BY <1>2, <1>3, <1>4, <1>5

(* A node under another one has its parent there, too, whose child it is,    *)
(* and all nodes under it.                                                   *)
LEMMA ParentUnder ==
  ASSUME NEW t, NEW N, NEW sub, Nested(t, N, sub), Split(t, N, sub),
         NEW z \in N, NEW y \in sub[z]
  PROVE  /\ y \in N /\ sub[y] \subseteq sub[z]
         /\ y # z => /\ Up(t, y) \in sub[z] /\ Up(t, y) \in N
                     /\ y \in {LeftOf(t, Up(t, y)), RightOf(t, Up(t, y))}
<1>. DEFINE Is(x, c) == /\ c \in N /\ sub[c] \subseteq sub[x]
                        /\ c # x => /\ Up(t, c) \in sub[x] /\ Up(t, c) \in N
                                    /\ c \in {LeftOf(t, Up(t, c)), RightOf(t, Up(t, c))}
            Bad == {x \in N : \E c \in sub[x] : ~ Is(x, c)}
            T == {Cardinality(sub[x]) : x \in Bad}
<1>0. /\ \A x \in N : x \in sub[x] /\ sub[x] \subseteq N /\ Cardinality(sub[x]) \in Nat
      /\ \A x \in N : \A c \in {LeftOf(t, x), RightOf(t, x)} \ {NIL} :
           /\ c \in N /\ Up(t, c) = x
           /\ sub[c] \subseteq sub[x]
           /\ Cardinality(sub[c]) < Cardinality(sub[x])
  BY SetSizes
<1>. SUFFICES ASSUME Bad # {} PROVE FALSE
  BY Zenon
<1>1. T \in SUBSET Nat /\ T # {}
  BY <1>0
<1>2. Min(T) \in T /\ \A n \in T : Min(T) <= n
  BY <1>1, LeastElement
<1>. HIDE DEF Bad
<1>3. PICK x \in Bad : \A w \in Bad : Cardinality(sub[x]) <= Cardinality(sub[w])
  BY <1>2
<1>. USE DEF Bad
<1>. HIDE DEF Is
<1>4. PICK c \in sub[x] : ~ Is(x, c)
  BY <1>3, Zenon
<1>5. x \in N
  BY <1>3
<1>. USE DEF Is
<1>6. c # x
  BY <1>0, <1>4, <1>5
<1>7. PICK d \in {LeftOf(t, x), RightOf(t, x)} \ {NIL} : c \in sub[d]
  BY <1>4, <1>5, <1>6 DEF Nested, Under
<1>8. d \in N /\ Up(t, d) = x /\ sub[d] \subseteq sub[x] /\ Cardinality(sub[d]) < Cardinality(sub[x])
  BY <1>0, <1>5, <1>7
<1>9. d \notin Bad
  BY <1>0, <1>3, <1>5, <1>8
<1>. HIDE DEF Is
<1>10. Is(d, c)
  BY <1>7, <1>8, <1>9
<1>. USE DEF Is
<1>11. CASE c = d
  BY <1>0, <1>4, <1>5, <1>7, <1>8, <1>11
<1>12. CASE c # d
  BY <1>4, <1>8, <1>10, <1>12
<1>. QED
  BY <1>11, <1>12

(* Every node but the root has a parent whose child it is; the root is the   *)
(* child of no node; and a node's parent is not under it.                    *)
LEMMA ParentIs ==
  ASSUME NEW t, NEW N, NEW sub, Nested(t, N, sub), Split(t, N, sub)
  PROVE  /\ \A y \in N : y # t.root => /\ Up(t, y) \in N /\ Up(t, y) # y
                                      /\ y \in {LeftOf(t, Up(t, y)), RightOf(t, Up(t, y))}
                                      /\ Up(t, y) \notin sub[y]
         /\ \A x \in N : t.root \notin {LeftOf(t, x), RightOf(t, x)}
<1>1. \A y \in N : y # t.root => /\ Up(t, y) \in N
                                 /\ y \in {LeftOf(t, Up(t, y)), RightOf(t, Up(t, y))}
  <2>1. t.root \in N /\ sub[t.root] = N
    BY DEF Nested
  <2>. QED
    BY <2>1, ParentUnder
<1>2. \A y \in N : y # t.root => Up(t, y) \notin sub[y] /\ Up(t, y) # y
  <2>. SUFFICES ASSUME NEW y \in N, y # t.root PROVE Up(t, y) \notin sub[y] /\ Up(t, y) # y
    OBVIOUS
  <2>1. Up(t, y) \in N /\ y \in {LeftOf(t, Up(t, y)), RightOf(t, Up(t, y))} /\ y # NIL
    BY <1>1, TreeWindow DEF Nested
  <2>. QED
    BY <2>1, SetSizes
<1>3. ASSUME NEW x \in N, t.root \in {LeftOf(t, x), RightOf(t, x)} PROVE FALSE
  BY <1>3, TreeWindow DEF Nested
<1>. QED
  BY <1>1, <1>2, <1>3

-------------------------------------------------------------------------------
(* What the operations of tree.cpp assign. *)

(* ClearNode, FixChildren, and the parent's new child.                       *)
LEMMA ClearedIs ==
  ASSUME NEW t \in Trees, NEW i \in Cells
  PROVE  LET u == Tree!ClearNode(i, t)
         IN /\ u \in Trees /\ u.root = t.root
            /\ \A x \in Cells :
                 /\ LeftOf(u, x) = IF x = i THEN NIL ELSE LeftOf(t, x)
                 /\ RightOf(u, x) = IF x = i THEN NIL ELSE RightOf(t, x)
                 /\ Up(u, x) = IF x = i THEN NIL ELSE Up(t, x)
<1>. DEFINE r == Tree!NullNode
<1>1. r = [leftChild |-> NIL, rightChild |-> NIL, parent |-> NIL]
  BY DEF Tree!NullNode, Tree!Node, NIL
<1>2. r \in NodeRecords /\ r.leftChild = NIL /\ r.rightChild = NIL /\ r.parent = NIL
  BY <1>1, TreeWindow DEF NodeRecords
<1>3. Tree!ClearNode(i, t) = [t EXCEPT !.node[i] = r]
  BY DEF Tree!ClearNode
<1>. HIDE DEF r
<1>. QED
  BY <1>2, <1>3, SetNode

(* A child, if there is one, learns its parent.                              *)
LEMMA FixedIs ==
  ASSUME NEW t \in Trees, NEW i \in Cells
  PROVE  LET u == Tree!FixChildren(i, t)
         IN /\ u \in Trees /\ u.root = t.root
            /\ \A x \in Cells :
                 /\ LeftOf(u, x) = LeftOf(t, x) /\ RightOf(u, x) = RightOf(t, x)
                 /\ Up(u, x) = IF x \in {LeftOf(t, i), RightOf(t, i)} \ {NIL}
                               THEN i ELSE Up(t, x)
<1>. DEFINE a == LeftOf(t, i)
            f == IF a = NIL THEN t ELSE [t EXCEPT !.node[a].parent = i]
            b == RightOf(f, i)
            u == IF b = NIL THEN f ELSE [f EXCEPT !.node[b].parent = i]
<1>1. Tree!FixChildren(i, t) = u
  BY DEF Tree!FixChildren, LeftOf, RightOf, NIL
<1>2. a \in Cells
  BY FieldsInside
<1>3. /\ f \in Trees /\ f.root = t.root
      /\ \A x \in Cells :
           /\ LeftOf(f, x) = LeftOf(t, x) /\ RightOf(f, x) = RightOf(t, x)
           /\ Up(f, x) = IF x = a /\ a # NIL THEN i ELSE Up(t, x)
  <2>1. CASE a = NIL
    BY <2>1
  <2>2. CASE a # NIL
    BY <1>2, <2>2, SetUp
  <2>. QED
    BY <2>1, <2>2
<1>. HIDE DEF f
<1>4. b \in Cells /\ b = RightOf(t, i)
  BY <1>3, FieldsInside
<1>5. /\ u \in Trees /\ u.root = f.root
      /\ \A x \in Cells :
           /\ LeftOf(u, x) = LeftOf(f, x) /\ RightOf(u, x) = RightOf(f, x)
           /\ Up(u, x) = IF x = b /\ b # NIL THEN i ELSE Up(f, x)
  <2>1. CASE b = NIL
    BY <1>3, <2>1
  <2>2. CASE b # NIL
    BY <1>3, <1>4, <2>2, SetUp
  <2>. QED
    BY <2>1, <2>2
<1>. HIDE DEF u, b
<1>. QED
  BY <1>1, <1>3, <1>4, <1>5

(* The parent of i has j for its child instead.                              *)
LEMMA RelinkedIs ==
  ASSUME NEW t \in Trees, NEW i \in Cells, NEW j \in Cells
  PROVE  LET u == Tree!Relinked(i, j, t)
             p == Up(t, i)
         IN /\ u \in Trees /\ u.root = t.root
            /\ \A x \in Cells :
                 /\ LeftOf(u, x) = IF x = p /\ LeftOf(t, p) = i THEN j ELSE LeftOf(t, x)
                 /\ RightOf(u, x) = IF x = p /\ LeftOf(t, p) # i THEN j ELSE RightOf(t, x)
                 /\ Up(u, x) = Up(t, x)
<1>. DEFINE p == Up(t, i)
            u == Tree!Relinked(i, j, t)
<1>1. p \in Cells
  BY FieldsInside
<1>2. u = IF LeftOf(t, p) = i THEN [t EXCEPT !.node[p].leftChild = j]
          ELSE [t EXCEPT !.node[p].rightChild = j]
  BY DEF Tree!Relinked, LeftOf, Up
<1>. HIDE DEF p, u
<1>3. CASE LeftOf(t, p) = i
  <2>1. u = [t EXCEPT !.node[p].leftChild = j]
    BY <1>2, <1>3
  <2>. QED
    BY <1>1, <1>3, <2>1, SetLeft DEF p, u
<1>4. CASE LeftOf(t, p) # i
  <2>1. u = [t EXCEPT !.node[p].rightChild = j]
    BY <1>2, <1>4
  <2>. QED
    BY <1>1, <1>4, <2>1, SetRight DEF p, u
<1>. QED
  BY <1>3, <1>4

(* i is replaced by h and cleared.                                           *)
LEMMA TakenOutIs ==
  ASSUME NEW t \in Trees, NEW i \in Cells, NEW h \in Cells
  PROVE  LET u == Tree!TakenOut(i, h, t)
             p == Up(t, i)
         IN /\ u \in Trees /\ u.root = IF t.root = i THEN h ELSE t.root
            /\ \A x \in Cells :
                 /\ LeftOf(u, x) = IF x = i THEN NIL
                                   ELSE IF x = p /\ LeftOf(t, p) = i THEN h ELSE LeftOf(t, x)
                 /\ RightOf(u, x) = IF x = i THEN NIL
                                    ELSE IF x = p /\ LeftOf(t, p) # i THEN h ELSE RightOf(t, x)
                 /\ Up(u, x) = IF x = i THEN NIL ELSE IF x = h THEN p ELSE Up(t, x)
<1>. DEFINE p == Up(t, i)
            r == Tree!Relinked(i, h, t)
            v == [r EXCEPT !.node[h].parent = p]
            w == [v EXCEPT !.root = IF t.root = i THEN h ELSE t.root]
            u == Tree!ClearNode(i, w)
<1>1. p \in Cells /\ t.root \in Cells
  BY FieldsInside
<1>2. /\ r \in Trees /\ r.root = t.root
      /\ \A x \in Cells :
           /\ LeftOf(r, x) = IF x = p /\ LeftOf(t, p) = i THEN h ELSE LeftOf(t, x)
           /\ RightOf(r, x) = IF x = p /\ LeftOf(t, p) # i THEN h ELSE RightOf(t, x)
           /\ Up(r, x) = Up(t, x)
  BY RelinkedIs
<1>3. Tree!TakenOut(i, h, t) = u
  <2>1. r.node[i].parent = p
    BY <1>2 DEF Up
  <2>. HIDE DEF r, p
  <2>2. r.node \in [Cells -> NodeRecords]
    BY <1>2 DEF Trees
  <2>3. [r EXCEPT !.node[h].parent = p, !.root = IF @ = i THEN h ELSE @] = w
    BY <1>2, <2>2 DEF Trees
  <2>. QED
    BY <2>1, <2>3 DEF Tree!TakenOut, r
<1>. HIDE DEF p, r
<1>4. /\ v \in Trees /\ v.root = t.root
      /\ \A x \in Cells :
           /\ LeftOf(v, x) = LeftOf(r, x) /\ RightOf(v, x) = RightOf(r, x)
           /\ Up(v, x) = IF x = h THEN p ELSE Up(r, x)
  BY <1>1, <1>2, SetUp
<1>. HIDE DEF v
<1>5. /\ w \in Trees /\ w.root = IF t.root = i THEN h ELSE t.root
      /\ \A x \in Cells :
           LeftOf(w, x) = LeftOf(v, x) /\ RightOf(w, x) = RightOf(v, x) /\ Up(w, x) = Up(v, x)
  <2>. DEFINE z == IF t.root = i THEN h ELSE t.root
  <2>1. z \in Cells
    BY <1>1
  <2>. HIDE DEF z
  <2>2. w = [v EXCEPT !.root = z]
    BY DEF z
  <2>. HIDE DEF w
  <2>. QED
    BY <1>4, <2>1, <2>2, SetRoot DEF z
<1>. HIDE DEF w
<1>6. /\ u \in Trees /\ u.root = w.root
      /\ \A x \in Cells : /\ LeftOf(u, x) = IF x = i THEN NIL ELSE LeftOf(w, x)
                          /\ RightOf(u, x) = IF x = i THEN NIL ELSE RightOf(w, x)
                          /\ Up(u, x) = IF x = i THEN NIL ELSE Up(w, x)
  BY <1>5, ClearedIs
<1>. HIDE DEF u
<1>. QED
  BY <1>2, <1>3, <1>4, <1>5, <1>6 DEF p

(* h, the rightmost descendant on the left of i, receives the children of i; *)
(* its parent p receives its left child, unless that is i.                   *)
LEMMA PromotedIs ==
  ASSUME NEW t \in Trees, NEW i \in Cells, NEW h \in Cells,
         h # i, Up(t, h) # h, h # LeftOf(t, i) => Up(t, h) # i
  PROVE  LET u == Tree!Promoted(i, h, t)
             p == Up(t, h)
             near == h = LeftOf(t, i)
         IN /\ u \in Trees /\ u.root = t.root
            /\ \A x \in Cells :
                 /\ LeftOf(u, x) = IF x = h /\ ~ near THEN LeftOf(t, i) ELSE LeftOf(t, x)
                 /\ RightOf(u, x) = IF x = h THEN RightOf(t, i)
                                    ELSE IF x = p /\ ~ near THEN LeftOf(t, h) ELSE RightOf(t, x)
                 /\ Up(u, x) = IF x = RightOf(t, i) THEN h
                               ELSE IF x = LeftOf(t, i) /\ ~ near THEN h
                               ELSE IF x = LeftOf(t, h) /\ ~ near THEN p ELSE Up(t, x)
<1>. DEFINE p == Up(t, h)
            near == h = LeftOf(t, i)
            a == [t EXCEPT !.node[p].rightChild = LeftOf(t, h)]
            b == [a EXCEPT !.node[LeftOf(a, h)].parent = Up(a, h)]
            c == [b EXCEPT !.node[h].leftChild = LeftOf(b, i)]
            d == [c EXCEPT !.node[LeftOf(c, i)].parent = h]
            m == IF near THEN t ELSE d
            e == [m EXCEPT !.node[h].rightChild = RightOf(m, i)]
            u == [e EXCEPT !.node[RightOf(e, i)].parent = h]
<1>1. Tree!Promoted(i, h, t) = u
  BY DEF Tree!Promoted, LeftOf, RightOf, Up
<1>2. /\ p \in Cells /\ LeftOf(t, h) \in Cells /\ LeftOf(t, i) \in Cells /\ RightOf(t, i) \in Cells
      /\ p # h /\ (~ near => p # i)
  BY FieldsInside
<1>. DEFINE lh == LeftOf(t, h)
            li == LeftOf(t, i)
<1>. HIDE DEF p, near
<1>3. /\ a \in Trees /\ a.root = t.root
      /\ \A x \in Cells :
           /\ RightOf(a, x) = IF x = p THEN LeftOf(t, h) ELSE RightOf(t, x)
           /\ LeftOf(a, x) = LeftOf(t, x) /\ Up(a, x) = Up(t, x)
  <2>. HIDE DEF lh
  <2>1. a = [t EXCEPT !.node[p].rightChild = lh] /\ lh \in Cells
    BY <1>2 DEF lh
  <2>. HIDE DEF a
  <2>. QED
    BY <1>2, <2>1, SetRight DEF lh
<1>. HIDE DEF a
<1>4. LeftOf(a, h) = LeftOf(t, h) /\ Up(a, h) = p
  BY <1>3 DEF p
<1>5. /\ b \in Trees /\ b.root = t.root
      /\ \A x \in Cells :
           /\ Up(b, x) = IF x = LeftOf(t, h) THEN p ELSE Up(t, x)
           /\ LeftOf(b, x) = LeftOf(a, x) /\ RightOf(b, x) = RightOf(a, x)
  <2>. HIDE DEF lh
  <2>1. b = [a EXCEPT !.node[lh].parent = p] /\ lh \in Cells
    BY <1>2, <1>4 DEF lh
  <2>. HIDE DEF b
  <2>2. /\ b \in Trees /\ b.root = a.root
        /\ \A x \in Cells :
             /\ Up(b, x) = IF x = lh THEN p ELSE Up(a, x)
             /\ LeftOf(b, x) = LeftOf(a, x) /\ RightOf(b, x) = RightOf(a, x)
    <3>1. a \in Trees /\ p \in Cells
      BY <1>2, <1>3
    <3>. QED
      BY <2>1, <3>1, SetUp
  <2>. QED
    BY <1>3, <2>2 DEF lh
<1>. HIDE DEF b
<1>6. LeftOf(b, i) = LeftOf(t, i)
  BY <1>3, <1>5
<1>7. /\ c \in Trees /\ c.root = t.root
      /\ \A x \in Cells :
           /\ LeftOf(c, x) = IF x = h THEN LeftOf(t, i) ELSE LeftOf(t, x)
           /\ RightOf(c, x) = RightOf(a, x) /\ Up(c, x) = Up(b, x)
  BY <1>2, <1>3, <1>5, <1>6, SetLeft
<1>. HIDE DEF c
<1>8. LeftOf(c, i) = LeftOf(t, i)
  BY <1>7
<1>9. /\ d \in Trees /\ d.root = t.root
      /\ \A x \in Cells :
           /\ Up(d, x) = IF x = LeftOf(t, i) THEN h ELSE Up(b, x)
           /\ LeftOf(d, x) = LeftOf(c, x) /\ RightOf(d, x) = RightOf(a, x)
  <2>. HIDE DEF li
  <2>1. d = [c EXCEPT !.node[li].parent = h] /\ li \in Cells
    BY <1>2, <1>8 DEF li
  <2>. HIDE DEF d
  <2>2. /\ d \in Trees /\ d.root = c.root
        /\ \A x \in Cells :
             /\ Up(d, x) = IF x = li THEN h ELSE Up(c, x)
             /\ LeftOf(d, x) = LeftOf(c, x) /\ RightOf(d, x) = RightOf(c, x)
    BY <1>7, <2>1, SetUp
  <2>. QED
    BY <1>7, <2>2 DEF li
<1>. HIDE DEF d
<1>10. /\ m \in Trees /\ m.root = t.root
       /\ \A x \in Cells :
            /\ LeftOf(m, x) = IF x = h /\ ~ near THEN LeftOf(t, i) ELSE LeftOf(t, x)
            /\ RightOf(m, x) = IF x = p /\ ~ near THEN LeftOf(t, h) ELSE RightOf(t, x)
            /\ Up(m, x) = IF x = LeftOf(t, i) /\ ~ near THEN h
                          ELSE IF x = LeftOf(t, h) /\ ~ near THEN p ELSE Up(t, x)
  <2>1. CASE near
    BY <2>1
  <2>2. CASE ~ near
    <3>1. m = d
      BY <2>2
    <3>. QED
      BY <1>3, <1>5, <1>7, <1>9, <2>2, <3>1
  <2>. QED
    BY <2>1, <2>2
<1>. HIDE DEF m
<1>11. RightOf(m, i) = RightOf(t, i)
  BY <1>2, <1>10
<1>12. /\ e \in Trees /\ e.root = t.root
       /\ \A x \in Cells :
            /\ RightOf(e, x) = IF x = h THEN RightOf(t, i) ELSE RightOf(m, x)
            /\ LeftOf(e, x) = LeftOf(m, x) /\ Up(e, x) = Up(m, x)
  BY <1>2, <1>10, <1>11, SetRight
<1>. HIDE DEF e
<1>13. RightOf(e, i) = RightOf(t, i)
  BY <1>11, <1>12
<1>14. /\ u \in Trees /\ u.root = t.root
       /\ \A x \in Cells :
            /\ Up(u, x) = IF x = RightOf(t, i) THEN h ELSE Up(m, x)
            /\ LeftOf(u, x) = LeftOf(m, x) /\ RightOf(u, x) = RightOf(e, x)
  BY <1>2, <1>12, <1>13, SetUp
<1>. HIDE DEF u
<1>. QED
  BY <1>1, <1>10, <1>12, <1>14 DEF p, near

(* i is a leaf now, on one side of h.                                        *)
LEMMA AttachedIs ==
  ASSUME NEW t \in Trees, NEW i \in Cells, NEW h \in Cells, NEW c
  PROVE  LET u == Tree!Attached(i, h, c, t)
         IN /\ u \in Trees /\ u.root = t.root
            /\ \A x \in Cells :
                 /\ LeftOf(u, x) = IF x = i THEN NIL
                                   ELSE IF x = h /\ c < 0 THEN i ELSE LeftOf(t, x)
                 /\ RightOf(u, x) = IF x = i THEN NIL
                                    ELSE IF x = h /\ ~ (c < 0) THEN i ELSE RightOf(t, x)
                 /\ Up(u, x) = IF x = i THEN h ELSE Up(t, x)
<1>. DEFINE a == IF c < 0 THEN [t EXCEPT !.node[h].leftChild = i]
                 ELSE [t EXCEPT !.node[h].rightChild = i]
            r == Tree!Node(NIL, NIL, h)
            less == c < 0
            u == [a EXCEPT !.node[i] = r]
<1>1. Tree!Attached(i, h, c, t) = u
  BY DEF Tree!Attached, NIL
<1>2. r \in NodeRecords /\ r.leftChild = NIL /\ r.rightChild = NIL /\ r.parent = h
  BY TreeWindow DEF Tree!Node, NodeRecords
<1>. HIDE DEF r
<1>3. /\ a \in Trees /\ a.root = t.root
      /\ \A x \in Cells :
           /\ LeftOf(a, x) = IF x = h /\ less THEN i ELSE LeftOf(t, x)
           /\ RightOf(a, x) = IF x = h /\ ~ less THEN i ELSE RightOf(t, x)
           /\ Up(a, x) = Up(t, x)
  <2>1. CASE less
    <3>1. a = [t EXCEPT !.node[h].leftChild = i]
      BY <2>1
    <3>. HIDE DEF a, less
    <3>. QED
      BY <2>1, <3>1, SetLeft
  <2>2. CASE ~ less
    <3>1. a = [t EXCEPT !.node[h].rightChild = i]
      BY <2>2
    <3>. HIDE DEF a, less
    <3>. QED
      BY <2>2, <3>1, SetRight
  <2>. QED
    BY <2>1, <2>2
<1>. HIDE DEF a
<1>4. /\ u \in Trees /\ u.root = a.root
      /\ \A x \in Cells :
           /\ LeftOf(u, x) = IF x = i THEN NIL ELSE LeftOf(a, x)
           /\ RightOf(u, x) = IF x = i THEN NIL ELSE RightOf(a, x)
           /\ Up(u, x) = IF x = i THEN h ELSE Up(a, x)
  BY <1>2, <1>3, SetNode
<1>. HIDE DEF u, less
<1>5. /\ u \in Trees /\ u.root = t.root
      /\ \A x \in Cells :
           /\ LeftOf(u, x) = IF x = i THEN NIL ELSE IF x = h /\ less THEN i ELSE LeftOf(t, x)
           /\ RightOf(u, x) = IF x = i THEN NIL
                              ELSE IF x = h /\ ~ less THEN i ELSE RightOf(t, x)
           /\ Up(u, x) = IF x = i THEN h ELSE Up(t, x)
  BY <1>3, <1>4
<1>. QED
  BY <1>1, <1>5 DEF less

(* i takes the place of h, a node below the root.                            *)
LEMMA ReplacedIs ==
  ASSUME NEW t \in Trees, NEW i \in Cells, NEW h \in Cells, i # h,
         h \notin {LeftOf(t, h), RightOf(t, h)}, Up(t, h) # i, Up(t, h) # h
  PROVE  LET u == Tree!Replaced(i, h, t)
             p == Up(t, h)
         IN /\ u \in Trees /\ u.root = t.root
            /\ \A x \in Cells :
                 /\ LeftOf(u, x) = IF x = h THEN NIL ELSE IF x = i THEN LeftOf(t, h)
                                   ELSE IF x = p /\ LeftOf(t, p) = h THEN i ELSE LeftOf(t, x)
                 /\ RightOf(u, x) = IF x = h THEN NIL ELSE IF x = i THEN RightOf(t, h)
                                    ELSE IF x = p /\ LeftOf(t, p) # h THEN i ELSE RightOf(t, x)
                 /\ Up(u, x) = IF x = h THEN NIL
                               ELSE IF x \in {LeftOf(t, h), RightOf(t, h)} \ {NIL} THEN i
                               ELSE IF x = i THEN p ELSE Up(t, x)
<1>. DEFINE p == Up(t, h)
            a == [t EXCEPT !.node[i] = t.node[h]]
            b == Tree!FixChildren(i, a)
            c == Tree!Relinked(h, i, b)
            u == Tree!ClearNode(h, c)
<1>1. Tree!Replaced(i, h, t) = u
  BY DEF Tree!Replaced
<1>2. t.node[h] \in NodeRecords /\ p \in Cells
  BY FieldsInside
<1>3. /\ a \in Trees /\ a.root = t.root
      /\ \A x \in Cells : /\ LeftOf(a, x) = IF x = i THEN LeftOf(t, h) ELSE LeftOf(t, x)
                          /\ RightOf(a, x) = IF x = i THEN RightOf(t, h) ELSE RightOf(t, x)
                          /\ Up(a, x) = IF x = i THEN p ELSE Up(t, x)
  <2>1. /\ (t.node[h]).leftChild = LeftOf(t, h) /\ (t.node[h]).rightChild = RightOf(t, h)
        /\ (t.node[h]).parent = p
    BY DEF LeftOf, RightOf, Up
  <2>. QED
    BY <1>2, <2>1, SetNode
<1>. HIDE DEF a
<1>4. /\ b \in Trees /\ b.root = t.root
      /\ \A x \in Cells :
           /\ LeftOf(b, x) = LeftOf(a, x) /\ RightOf(b, x) = RightOf(a, x)
           /\ Up(b, x) = IF x \in {LeftOf(t, h), RightOf(t, h)} \ {NIL} THEN i ELSE Up(a, x)
  <2>1. LeftOf(a, i) = LeftOf(t, h) /\ RightOf(a, i) = RightOf(t, h)
    BY <1>3
  <2>. QED
    BY <1>3, <2>1, FixedIs
<1>. HIDE DEF b
<1>5. Up(b, h) = p /\ LeftOf(b, p) = LeftOf(t, p)
  BY <1>2, <1>3, <1>4
<1>. HIDE DEF p
<1>6. /\ c \in Trees /\ c.root = t.root
      /\ \A x \in Cells :
           /\ LeftOf(c, x) = IF x = p /\ LeftOf(t, p) = h THEN i ELSE LeftOf(b, x)
           /\ RightOf(c, x) = IF x = p /\ LeftOf(t, p) # h THEN i ELSE RightOf(b, x)
           /\ Up(c, x) = Up(b, x)
  <2>1. /\ c \in Trees /\ c.root = b.root
        /\ \A x \in Cells :
             /\ LeftOf(c, x) = IF x = Up(b, h) /\ LeftOf(b, Up(b, h)) = h THEN i ELSE LeftOf(b, x)
             /\ RightOf(c, x) = IF x = Up(b, h) /\ LeftOf(b, Up(b, h)) # h THEN i
                                ELSE RightOf(b, x)
             /\ Up(c, x) = Up(b, x)
    BY <1>4, RelinkedIs
  <2>. HIDE DEF c
  <2>. QED
    BY <1>4, <1>5, <2>1
<1>. HIDE DEF c
<1>7. /\ u \in Trees /\ u.root = c.root
      /\ \A x \in Cells : /\ LeftOf(u, x) = IF x = h THEN NIL ELSE LeftOf(c, x)
                          /\ RightOf(u, x) = IF x = h THEN NIL ELSE RightOf(c, x)
                          /\ Up(u, x) = IF x = h THEN NIL ELSE Up(c, x)
  BY <1>6, ClearedIs
<1>. HIDE DEF u
<1>8. p # i /\ p # h
  BY DEF p
<1>9. /\ u \in Trees /\ u.root = t.root
      /\ \A x \in Cells :
           /\ LeftOf(u, x) = IF x = h THEN NIL ELSE IF x = i THEN LeftOf(t, h)
                             ELSE IF x = p /\ LeftOf(t, p) = h THEN i ELSE LeftOf(t, x)
           /\ RightOf(u, x) = IF x = h THEN NIL ELSE IF x = i THEN RightOf(t, h)
                              ELSE IF x = p /\ LeftOf(t, p) # h THEN i ELSE RightOf(t, x)
           /\ Up(u, x) = IF x = h THEN NIL
                         ELSE IF x \in {LeftOf(t, h), RightOf(t, h)} \ {NIL} THEN i
                         ELSE IF x = i THEN p ELSE Up(t, x)
  BY <1>3, <1>4, <1>6, <1>7, <1>8
<1>. QED
  BY <1>1, <1>9 DEF p

(* i takes the place of the root.                                            *)
LEMMA NewRootIs ==
  ASSUME NEW t \in Trees, NEW i \in Cells, i # t.root,
         t.root \notin {LeftOf(t, t.root), RightOf(t, t.root)}
  PROVE  LET u == Tree!NewRoot(i, t)
             h == t.root
         IN /\ u \in Trees /\ u.root = i
            /\ \A x \in Cells :
                 /\ LeftOf(u, x) = IF x = h THEN NIL ELSE IF x = i THEN LeftOf(t, h)
                                   ELSE LeftOf(t, x)
                 /\ RightOf(u, x) = IF x = h THEN NIL ELSE IF x = i THEN RightOf(t, h)
                                    ELSE RightOf(t, x)
                 /\ Up(u, x) = IF x = h THEN NIL
                               ELSE IF x \in {LeftOf(t, h), RightOf(t, h)} \ {NIL} THEN i
                               ELSE IF x = i THEN TOP ELSE Up(t, x)
<1>. DEFINE h == t.root
            r == [t.node[h] EXCEPT !.parent = TOP]
            a == [t EXCEPT !.node[i] = r]
            b == Tree!FixChildren(i, a)
            c == Tree!ClearNode(h, b)
            u == [c EXCEPT !.root = i]
<1>1. Tree!NewRoot(i, t) = u
  BY DEF Tree!NewRoot, TOP
<1>2. t.node[h] \in NodeRecords /\ h \in Cells /\ TOP \in Cells
  BY FieldsInside, TreeWindow
<1>3. /\ r \in NodeRecords /\ r.parent = TOP
      /\ r.leftChild = LeftOf(t, h) /\ r.rightChild = RightOf(t, h)
  BY <1>2 DEF NodeRecords, LeftOf, RightOf
<1>. HIDE DEF r, h
<1>4. /\ a \in Trees /\ a.root = t.root
      /\ \A x \in Cells : /\ LeftOf(a, x) = IF x = i THEN LeftOf(t, h) ELSE LeftOf(t, x)
                          /\ RightOf(a, x) = IF x = i THEN RightOf(t, h) ELSE RightOf(t, x)
                          /\ Up(a, x) = IF x = i THEN TOP ELSE Up(t, x)
  BY <1>3, SetNode
<1>. HIDE DEF a
<1>5. /\ b \in Trees
      /\ \A x \in Cells :
           /\ LeftOf(b, x) = LeftOf(a, x) /\ RightOf(b, x) = RightOf(a, x)
           /\ Up(b, x) = IF x \in {LeftOf(t, h), RightOf(t, h)} \ {NIL} THEN i ELSE Up(a, x)
  <2>1. LeftOf(a, i) = LeftOf(t, h) /\ RightOf(a, i) = RightOf(t, h)
    BY <1>4
  <2>. QED
    BY <1>4, <2>1, FixedIs
<1>. HIDE DEF b
<1>6. /\ c \in Trees
      /\ \A x \in Cells : /\ LeftOf(c, x) = IF x = h THEN NIL ELSE LeftOf(b, x)
                          /\ RightOf(c, x) = IF x = h THEN NIL ELSE RightOf(b, x)
                          /\ Up(c, x) = IF x = h THEN NIL ELSE Up(b, x)
  BY <1>2, <1>5, ClearedIs
<1>. HIDE DEF c
<1>7. /\ u \in Trees /\ u.root = i
      /\ \A x \in Cells :
           LeftOf(u, x) = LeftOf(c, x) /\ RightOf(u, x) = RightOf(c, x) /\ Up(u, x) = Up(c, x)
  BY <1>6, SetRoot
<1>. HIDE DEF u
<1>8. /\ u \in Trees /\ u.root = i
      /\ \A x \in Cells :
           /\ LeftOf(u, x) = IF x = h THEN NIL ELSE IF x = i THEN LeftOf(t, h) ELSE LeftOf(t, x)
           /\ RightOf(u, x) = IF x = h THEN NIL ELSE IF x = i THEN RightOf(t, h)
                              ELSE RightOf(t, x)
           /\ Up(u, x) = IF x = h THEN NIL
                         ELSE IF x \in {LeftOf(t, h), RightOf(t, h)} \ {NIL} THEN i
                         ELSE IF x = i THEN TOP ELSE Up(t, x)
  BY <1>4, <1>5, <1>6, <1>7
<1>. QED
  BY <1>1, <1>8 DEF h

-------------------------------------------------------------------------------
(* Taking a node out. *)

(* The strings before and after the children stay in order.                  *)
SearchTree(t, ring, N, sub) == Nested(t, N, sub) /\ Sorted(t, ring, N, sub)

(* A node with one child at most is left out of all sets.                    *)
LEMMA OneTakenOut ==
  ASSUME NEW ring \in [Indices -> Chars], NEW t, NEW N, NEW sub, SearchTree(t, ring, N, sub),
         NEW i \in N, NEW h, {LeftOf(t, i), RightOf(t, i)} = {h, NIL},
         t.root = i => h # NIL
  PROVE  LET M == N \ {i}
         IN SearchTree(Tree!TakenOut(i, h, t), ring, M, [x \in M |-> sub[x] \ {i}])
<1>. DEFINE M == N \ {i}
            new == [x \in M |-> sub[x] \ {i}]
            u == Tree!TakenOut(i, h, t)
            p == Up(t, i)
<1>1. Nested(t, N, sub) /\ Sorted(t, ring, N, sub) /\ Split(t, N, sub)
  BY SortedSplit DEF SearchTree
<1>2. /\ N \subseteq Indices /\ i \in Cells /\ NIL \notin N /\ TOP \notin N /\ TOP # NIL
      /\ t \in Trees /\ t.root \in N /\ sub[t.root] = N /\ Up(t, t.root) = TOP
      /\ \A x \in Indices : Up(t, x) = NIL <=> x \notin N
      /\ sub \in [N -> SUBSET N]
  BY <1>1, TreeWindow DEF Nested
<1>3. h \in N \cup {NIL} /\ (h # NIL => Up(t, h) = i /\ h # i /\ i \notin sub[h]) /\ h \in Cells
  <2>1. h \in {LeftOf(t, i), RightOf(t, i)}
    OBVIOUS
  <2>2. LeftOf(t, i) \in N \cup {NIL} /\ RightOf(t, i) \in N \cup {NIL}
    BY <1>1 DEF Nested
  <2>3. h # NIL => Up(t, h) = i /\ h # i /\ i \notin sub[h]
    BY <1>1, <2>1, SetSizes
  <2>. QED
    BY <1>2, <2>1, <2>2, <2>3, TreeWindow
<1>4. /\ i # t.root => p \in N /\ p # i /\ i \in {LeftOf(t, p), RightOf(t, p)}
      /\ i = t.root => p = TOP
      /\ \A x \in N : t.root \notin {LeftOf(t, x), RightOf(t, x)}
  BY <1>1, <1>2, ParentIs
<1>5. \A x \in N : /\ x \in sub[x]
                   /\ LeftOf(t, x) \in N \cup {NIL} /\ RightOf(t, x) \in N \cup {NIL}
                   /\ sub[x] = {x} \cup Under(sub, LeftOf(t, x)) \cup Under(sub, RightOf(t, x))
                   /\ LeftOf(t, x) # NIL => Up(t, LeftOf(t, x)) = x
                   /\ RightOf(t, x) # NIL => Up(t, RightOf(t, x)) = x
  BY <1>1 DEF Nested
<1>6. /\ u \in Trees /\ u.root = IF t.root = i THEN h ELSE t.root
      /\ \A x \in Cells :
           /\ LeftOf(u, x) = IF x = i THEN NIL
                             ELSE IF x = p /\ LeftOf(t, p) = i THEN h ELSE LeftOf(t, x)
           /\ RightOf(u, x) = IF x = i THEN NIL
                              ELSE IF x = p /\ LeftOf(t, p) # i THEN h ELSE RightOf(t, x)
           /\ Up(u, x) = IF x = i THEN NIL ELSE IF x = h THEN p ELSE Up(t, x)
  BY <1>2, <1>3, TakenOutIs
<1>. HIDE DEF u
<1>7. i # t.root /\ LeftOf(t, p) = i => RightOf(t, p) # i
  BY <1>1, <1>2, <1>4, <1>5 DEF Split, Under
<1>8. ASSUME NEW x \in M
      PROVE  /\ LeftOf(u, x) = IF LeftOf(t, x) = i THEN h ELSE LeftOf(t, x)
             /\ RightOf(u, x) = IF RightOf(t, x) = i THEN h ELSE RightOf(t, x)
             /\ Up(u, x) = IF x = h THEN p ELSE Up(t, x)
  <2>1. x \in N /\ x # i /\ x \in Cells
    BY <1>2, TreeWindow
  <2>2. LeftOf(t, x) = i \/ RightOf(t, x) = i => p = x /\ i # t.root
    BY <1>2, <1>4, <1>5, <2>1
  <2>3. x = p => i # t.root /\ (LeftOf(t, x) = i \/ RightOf(t, x) = i)
    BY <1>2, <1>4, <2>1
  <2>. HIDE DEF p
  <2>. QED
    BY <1>6, <1>7, <2>1, <2>2, <2>3
<1>. HIDE DEF p
<1>9. new \in [M -> SUBSET M] /\ \A x \in M : new[x] = sub[x] \ {i}
  BY <1>2
<1>. HIDE DEF new
<1>10. Under(new, h) = Under(sub, i) \ {i}
  <2>1. sub[i] = {i} \cup Under(sub, h)
    BY <1>5 DEF Under
  <2>2. i # NIL
    BY <1>2
  <2>. QED
    BY <1>3, <1>9, <2>1, <2>2 DEF Under
<1>11. ASSUME NEW c \in N \cup {NIL}, c # i
       PROVE  Under(new, c) = Under(sub, c) \ {i}
  <2>1. CASE c = NIL
    BY <2>1 DEF Under
  <2>2. CASE c # NIL
    <3>1. c \in M
      BY <1>11, <2>2
    <3>. QED
      BY <1>9, <2>2, <3>1 DEF Under
  <2>. QED
    BY <2>1, <2>2
<1>12. ASSUME NEW x \in M
       PROVE  /\ Under(new, LeftOf(u, x)) = Under(sub, LeftOf(t, x)) \ {i}
              /\ Under(new, RightOf(u, x)) = Under(sub, RightOf(t, x)) \ {i}
  BY <1>5, <1>8, <1>10, <1>11
<1>13. Nested(u, M, new)
  <2>1. ASSUME NEW x \in Indices PROVE Up(u, x) = NIL <=> x \notin M
    <3>1. x \in Cells
      BY TreeWindow
    <3>2. p # NIL
      BY <1>2, <1>4
    <3>. QED
      BY <1>2, <1>3, <1>6, <3>1, <3>2, TreeWindow
  <2>2. u.root \in M /\ new[u.root] = M /\ Up(u, u.root) = TOP
    <3>1. CASE t.root = i
      <4>1. u.root = h /\ h \in M /\ p = TOP
        BY <1>3, <1>4, <1>6, <3>1
      <4>2. sub[i] = N /\ sub[i] = {i} \cup sub[h]
        BY <1>2, <1>5, <3>1, <4>1 DEF Under
      <4>. QED
        BY <1>3, <1>8, <1>9, <4>1, <4>2
    <3>2. CASE t.root # i
      <4>1. u.root = t.root /\ t.root \in M /\ t.root # h
        BY <1>2, <1>4, <1>6, <3>2
      <4>. QED
        BY <1>2, <1>8, <1>9, <4>1
    <3>. QED
      BY <3>1, <3>2
  <2>3. ASSUME NEW x \in M
        PROVE  /\ LeftOf(u, x) \in M \cup {NIL} /\ RightOf(u, x) \in M \cup {NIL}
               /\ new[x] = {x} \cup Under(new, LeftOf(u, x)) \cup Under(new, RightOf(u, x))
               /\ \A c \in {LeftOf(u, x), RightOf(u, x)} \ {NIL} : Up(u, c) = x
    <3>1. LeftOf(u, x) \in M \cup {NIL} /\ RightOf(u, x) \in M \cup {NIL}
      BY <1>3, <1>5, <1>8
    <3>2. new[x] = {x} \cup Under(new, LeftOf(u, x)) \cup Under(new, RightOf(u, x))
      BY <1>5, <1>9, <1>12
    <3>3. ASSUME NEW c \in {LeftOf(u, x), RightOf(u, x)} \ {NIL} PROVE Up(u, c) = x
      <4>1. c \in M
        BY <3>1
      <4>2. CASE c = h
        <5>1. Up(t, h) = i /\ x # i
          BY <1>3, <4>1, <4>2
        <5>2. LeftOf(t, x) = i \/ RightOf(t, x) = i
          BY <1>5, <1>8, <4>1, <4>2, <5>1
        <5>3. Up(t, i) = x
          BY <1>2, <1>5, <5>2
        <5>. QED
          BY <1>8, <4>1, <4>2, <5>3 DEF p
      <4>3. CASE c # h
        <5>1. c = LeftOf(t, x) \/ c = RightOf(t, x)
          BY <1>8, <4>3
        <5>. QED
          BY <1>5, <1>8, <4>1, <4>3, <5>1
      <4>. QED
        BY <4>2, <4>3
    <3>. QED
      BY <3>1, <3>2, <3>3
  <2>4. M \subseteq Indices
    BY <1>2
  <2>. HIDE DEF M
  <2>. QED
    BY <1>6, <1>9, <2>1, <2>2, <2>3, <2>4 DEF Nested
<1>14. Sorted(u, ring, M, new)
  <2>1. \A x \in N : /\ \A j \in Under(sub, LeftOf(t, x)) : Before(ring, j, x)
                     /\ \A j \in Under(sub, RightOf(t, x)) : Before(ring, x, j)
    BY <1>1 DEF Sorted
  <2>. QED
    BY <1>12, <2>1 DEF Sorted
<1>. QED
  BY <1>13, <1>14 DEF SearchTree, u, new

(* A node with two children is left out, and h, the greatest of the strings  *)
(* before it, is above what was under it.                                    *)
LEMMA OnePromoted ==
  ASSUME NEW ring \in [Indices -> Chars], NEW t, NEW N, NEW sub, SearchTree(t, ring, N, sub),
         NEW i \in N, LeftOf(t, i) # NIL, RightOf(t, i) # NIL,
         NEW h \in sub[LeftOf(t, i)], RightOf(t, h) = NIL,
         h = LeftOf(t, i) \/ RightOf(t, Up(t, h)) = h,
         \A j \in sub[LeftOf(t, i)] \ sub[h] : Before(ring, j, h)
  PROVE  LET M == N \ {i}
         IN SearchTree(Tree!TakenOut(i, h, Tree!Promoted(i, h, t)), ring, M,
                       [x \in M |-> IF x = h THEN sub[i] \ {i}
                                    ELSE IF x \in sub[LeftOf(t, i)] THEN sub[x] \ {h}
                                    ELSE sub[x] \ {i}])
<1>. DEFINE l == LeftOf(t, i)
            r == RightOf(t, i)
            S == sub[l]
            lh == LeftOf(t, h)
            p == Up(t, h)
            q == Up(t, i)
            near == h = l
            M == N \ {i}
            new == [x \in M |-> IF x = h THEN sub[i] \ {i}
                                ELSE IF x \in S THEN sub[x] \ {h} ELSE sub[x] \ {i}]
            v == Tree!Promoted(i, h, t)
            u == Tree!TakenOut(i, h, v)
<1>1. Nested(t, N, sub) /\ Sorted(t, ring, N, sub) /\ Split(t, N, sub)
  BY SortedSplit DEF SearchTree
<1>2. /\ N \subseteq Indices /\ i \in Cells /\ NIL \notin N /\ TOP \notin N /\ TOP # NIL
      /\ t \in Trees /\ t.root \in N /\ sub[t.root] = N /\ Up(t, t.root) = TOP
      /\ \A x \in Indices : Up(t, x) = NIL <=> x \notin N
      /\ sub \in [N -> SUBSET N] /\ N \subseteq Cells
  BY <1>1, TreeWindow DEF Nested
<1>3. \A x \in N : /\ x \in sub[x]
                   /\ LeftOf(t, x) \in N \cup {NIL} /\ RightOf(t, x) \in N \cup {NIL}
                   /\ sub[x] = {x} \cup Under(sub, LeftOf(t, x)) \cup Under(sub, RightOf(t, x))
                   /\ LeftOf(t, x) # NIL => Up(t, LeftOf(t, x)) = x
                   /\ RightOf(t, x) # NIL => Up(t, RightOf(t, x)) = x
  BY <1>1 DEF Nested
<1>4. \A x \in N : /\ x \notin Under(sub, LeftOf(t, x)) /\ x \notin Under(sub, RightOf(t, x))
                   /\ Under(sub, LeftOf(t, x)) \cap Under(sub, RightOf(t, x)) = {}
  BY <1>1 DEF Split
<1>5. /\ l \in N /\ r \in N /\ Up(t, l) = i /\ Up(t, r) = i
      /\ i \notin S /\ l \in S /\ i \notin sub[r] /\ r \in sub[r] /\ S \cap sub[r] = {}
      /\ sub[i] = {i} \cup S \cup sub[r]
  BY <1>3, <1>4 DEF Under
<1>6. /\ S \subseteq N /\ h \in S /\ h \in N /\ h # i /\ h # r /\ r \notin S
      /\ lh \in N \cup {NIL} /\ (lh # NIL => Up(t, lh) = h)
      /\ sub[h] = {h} \cup Under(sub, lh) /\ h \notin Under(sub, lh)
  BY <1>2, <1>3, <1>4, <1>5 DEF Under
<1>7. \A x \in S : /\ sub[x] \subseteq S /\ x \in N
                   /\ x # l => Up(t, x) \in S
  BY <1>1, <1>5, ParentUnder
<1>8. \A x \in S : LeftOf(t, x) \in S \cup {NIL} /\ RightOf(t, x) \in S \cup {NIL}
  <2>. SUFFICES ASSUME NEW x \in S PROVE LeftOf(t, x) \in S \cup {NIL} /\ RightOf(t, x) \in S \cup {NIL}
    OBVIOUS
  <2>1. x \in N /\ sub[x] \subseteq S
    BY <1>7
  <2>2. /\ LeftOf(t, x) # NIL => LeftOf(t, x) \in sub[x]
        /\ RightOf(t, x) # NIL => RightOf(t, x) \in sub[x]
    BY <1>3, <2>1 DEF Under
  <2>. QED
    BY <2>1, <2>2
<1>9. /\ near => p = i
      /\ ~ near => p \in S /\ p # h /\ RightOf(t, p) = h /\ p # i
      /\ p # h
      /\ lh # h /\ lh # l /\ lh # r /\ lh # i
  <2>1. near => p = i
    BY <1>5
  <2>2. ~ near => p \in S /\ RightOf(t, p) = h /\ p # i
    BY <1>5, <1>6, <1>7
  <2>3. p # h
    <3>1. CASE near
      BY <1>6, <2>1, <3>1
    <3>2. CASE ~ near
      <4>1. p \in N /\ RightOf(t, p) = h
        BY <1>6, <2>2, <3>2
      <4>. QED
        BY <1>2, <1>3, <1>4, <1>6, <4>1 DEF Under
    <3>. QED
      BY <3>1, <3>2
  <2>4. lh # h /\ lh # l /\ lh # r
    BY <1>2, <1>3, <1>5, <1>6, <2>3
  <2>5. lh # i
    BY <1>2, <1>5, <1>6, <1>8
  <2>. QED
    BY <2>1, <2>2, <2>3, <2>4, <2>5
<1>10. /\ i # t.root => q \in N /\ q # i /\ i \in {LeftOf(t, q), RightOf(t, q)}
       /\ i = t.root => q = TOP
       /\ \A x \in N : t.root \notin {LeftOf(t, x), RightOf(t, x)}
       /\ q \notin S
  <2>1. /\ i # t.root => q \in N /\ q # i /\ i \in {LeftOf(t, q), RightOf(t, q)}
        /\ i = t.root => q = TOP
        /\ \A x \in N : t.root \notin {LeftOf(t, x), RightOf(t, x)}
    BY <1>1, <1>2, ParentIs
  <2>2. q \notin S
    BY <1>2, <1>5, <1>6, <1>8, <2>1
  <2>. QED
    BY <2>1, <2>2
<1>11. i # t.root /\ LeftOf(t, q) = i => RightOf(t, q) # i
  BY <1>2, <1>3, <1>4, <1>10 DEF Under
<1>12. ~ near => LeftOf(t, p) # h
  BY <1>2, <1>3, <1>4, <1>6, <1>9 DEF Under
<1>. HIDE DEF near, p, q, S, lh
<1>13. /\ v \in Trees /\ v.root = t.root
       /\ \A x \in Cells :
            /\ LeftOf(v, x) = IF x = h /\ ~ near THEN l ELSE LeftOf(t, x)
            /\ RightOf(v, x) = IF x = h THEN r ELSE IF x = p /\ ~ near THEN lh ELSE RightOf(t, x)
            /\ Up(v, x) = IF x = r THEN h ELSE IF x = l /\ ~ near THEN h
                          ELSE IF x = lh /\ ~ near THEN p ELSE Up(t, x)
  <2>1. h \in Cells /\ p # h /\ (h # l => p # i)
    BY <1>2, <1>6, <1>9 DEF near
  <2>. QED
    BY <1>2, <1>6, <2>1, PromotedIs DEF near, p, lh
<1>. HIDE DEF v
<1>14. Up(v, i) = q /\ LeftOf(v, q) = LeftOf(t, q) /\ q \in Cells
  <2>1. i # r /\ i # l /\ i # lh
    BY <1>5, <1>9
  <2>2. q \in Cells /\ q # h
    BY <1>2, <1>6, <1>10, TreeWindow
  <2>. QED
    BY <1>2, <1>13, <2>1, <2>2 DEF q
<1>15. /\ u \in Trees /\ u.root = IF t.root = i THEN h ELSE t.root
       /\ \A x \in Cells :
            /\ LeftOf(u, x) = IF x = i THEN NIL
                              ELSE IF x = q /\ LeftOf(t, q) = i THEN h ELSE LeftOf(v, x)
            /\ RightOf(u, x) = IF x = i THEN NIL
                               ELSE IF x = q /\ LeftOf(t, q) # i THEN h ELSE RightOf(v, x)
            /\ Up(u, x) = IF x = i THEN NIL ELSE IF x = h THEN q ELSE Up(v, x)
  <2>1. h \in Cells
    BY <1>2, <1>6
  <2>2. /\ u \in Trees /\ u.root = IF v.root = i THEN h ELSE v.root
        /\ \A x \in Cells :
             /\ LeftOf(u, x) = IF x = i THEN NIL ELSE IF x = Up(v, i) /\ LeftOf(v, Up(v, i)) = i
                               THEN h ELSE LeftOf(v, x)
             /\ RightOf(u, x) = IF x = i THEN NIL ELSE IF x = Up(v, i) /\ LeftOf(v, Up(v, i)) # i
                                THEN h ELSE RightOf(v, x)
             /\ Up(u, x) = IF x = i THEN NIL ELSE IF x = h THEN Up(v, i) ELSE Up(v, x)
    <3>1. v \in Trees /\ i \in Cells
      BY <1>2, <1>13
    <3>. QED
      BY <2>1, <3>1, TakenOutIs
  <2>. HIDE DEF u
  <2>. QED
    BY <1>13, <1>14, <2>2
<1>. HIDE DEF u
<1>16. ASSUME NEW x \in M
       PROVE  /\ LeftOf(u, x) = IF x = h THEN (IF near THEN lh ELSE l)
                                ELSE IF LeftOf(t, x) = i THEN h ELSE LeftOf(t, x)
              /\ RightOf(u, x) = IF x = h THEN r ELSE IF RightOf(t, x) = i THEN h
                                 ELSE IF RightOf(t, x) = h THEN lh ELSE RightOf(t, x)
              /\ Up(u, x) = IF x = h THEN q ELSE IF x \in {l, r} THEN h
                            ELSE IF x = lh /\ ~ near THEN p ELSE Up(t, x)
              /\ LeftOf(t, x) # h
  <2>1. x \in N /\ x # i /\ x \in Cells /\ i # NIL /\ h # NIL
    BY <1>2, <1>6
  <2>2. LeftOf(t, x) = i \/ RightOf(t, x) = i => q = x /\ i # t.root
    BY <1>2, <1>3, <1>10, <2>1 DEF q
  <2>3. x = q => i # t.root /\ (LeftOf(t, x) = i \/ RightOf(t, x) = i)
    BY <1>2, <1>10, <2>1
  <2>4. LeftOf(t, x) = h \/ RightOf(t, x) = h => p = x /\ ~ near
    BY <1>3, <1>9, <2>1 DEF p
  <2>5. x = q => x # h
    BY <1>6, <1>10
  <2>6. x = p /\ ~ near => RightOf(t, x) = h /\ x # h
    BY <1>9
  <2>7. LeftOf(t, x) # h
    BY <1>12, <2>4
  <2>8. LeftOf(u, x) = IF x = h THEN (IF near THEN lh ELSE l)
                       ELSE IF LeftOf(t, x) = i THEN h ELSE LeftOf(t, x)
    BY <1>11, <1>13, <1>15, <2>1, <2>2, <2>3, <2>5 DEF lh
  <2>9. RightOf(u, x) = IF x = h THEN r ELSE IF RightOf(t, x) = i THEN h
                        ELSE IF RightOf(t, x) = h THEN lh ELSE RightOf(t, x)
    BY <1>6, <1>11, <1>13, <1>15, <2>1, <2>2, <2>3, <2>4, <2>5, <2>6
  <2>10. Up(u, x) = IF x = h THEN q ELSE IF x \in {l, r} THEN h
                    ELSE IF x = lh /\ ~ near THEN p ELSE Up(t, x)
    BY <1>13, <1>15, <2>1 DEF near
  <2>. QED
    BY <2>7, <2>8, <2>9, <2>10
<1>17. /\ new \in [M -> SUBSET M]
       /\ \A x \in M : new[x] = IF x = h THEN sub[i] \ {i}
                                ELSE IF x \in S THEN sub[x] \ {h} ELSE sub[x] \ {i}
  BY <1>2, <1>5, <1>7
<1>. HIDE DEF new, l, r
<1>18. ASSUME NEW x \in M, x \notin S
       PROVE  /\ Under(new, LeftOf(u, x)) = Under(sub, LeftOf(t, x)) \ {i}
              /\ Under(new, RightOf(u, x)) = Under(sub, RightOf(t, x)) \ {i}
              /\ new[x] = sub[x] \ {i}
  <2>1. x # h /\ x # i /\ x \in N
    BY <1>6, <1>18
  <2>2. ASSUME NEW c \in {LeftOf(t, x), RightOf(t, x)}, NEW d, d = IF c = i THEN h ELSE c
        PROVE  c \notin S /\ Under(new, d) = Under(sub, c) \ {i}
    <3>1. c \in N \cup {NIL} /\ (c # NIL => Up(t, c) = x)
      BY <1>3, <2>1
    <3>2. c \notin S
      BY <1>2, <1>5, <1>6, <1>7, <1>18, <2>1, <3>1
    <3>3. CASE c = i
      <4>1. h \in M /\ d = h /\ h # NIL /\ i # NIL
        BY <1>2, <1>6, <2>2, <3>3
      <4>. QED
        BY <1>17, <3>2, <3>3, <4>1 DEF Under
    <3>4. CASE c = NIL
      <4>1. d = NIL
        BY <1>2, <2>2, <3>4
      <4>. QED
        BY <3>2, <3>4, <4>1 DEF Under
    <3>5. CASE c # i /\ c # NIL
      <4>1. c \in M /\ d = c /\ c # h
        BY <1>6, <2>2, <3>1, <3>2, <3>5
      <4>. QED
        BY <1>17, <3>2, <3>5, <4>1 DEF Under
    <3>. QED
      BY <3>3, <3>4, <3>5
  <2>3. LeftOf(t, x) \notin S /\ RightOf(t, x) \notin S
    BY <2>2
  <2>4. /\ LeftOf(u, x) = IF LeftOf(t, x) = i THEN h ELSE LeftOf(t, x)
        /\ RightOf(u, x) = IF RightOf(t, x) = i THEN h ELSE RightOf(t, x)
    BY <1>6, <1>16, <2>1, <2>3
  <2>5. new[x] = sub[x] \ {i}
    BY <1>17, <1>18, <2>1
  <2>. QED
    BY <2>2, <2>4, <2>5
<1>19. Under(new, lh) = Under(sub, lh)
  <2>1. CASE lh = NIL
    BY <2>1 DEF Under
  <2>2. CASE lh # NIL
    <3>1. lh \in S
      BY <1>6, <1>8, <2>2 DEF lh
    <3>2. lh \in M /\ lh # h
      BY <1>5, <1>6, <1>9, <3>1
    <3>3. new[lh] = sub[lh] \ {h}
      BY <1>17, <3>1, <3>2
    <3>. QED
      BY <1>6, <2>2, <3>3 DEF Under
  <2>. QED
    BY <2>1, <2>2
<1>20. ASSUME NEW x \in M, x \in S, x # h
       PROVE  /\ Under(new, LeftOf(u, x)) = Under(sub, LeftOf(t, x)) \ {h}
              /\ Under(new, RightOf(u, x)) = Under(sub, RightOf(t, x)) \ {h}
              /\ new[x] = sub[x] \ {h}
  <2>1. ASSUME NEW c \in S \cup {NIL}, c # h
        PROVE  Under(new, c) = Under(sub, c) \ {h}
    <3>1. CASE c = NIL
      BY <3>1 DEF Under
    <3>2. CASE c # NIL
      <4>1. c \in S /\ c \in M
        BY <1>5, <1>6, <3>2
      <4>. QED
        BY <1>17, <2>1, <3>2, <4>1 DEF Under
    <3>. QED
      BY <3>1, <3>2
  <2>2. /\ LeftOf(t, x) \in S \cup {NIL} /\ RightOf(t, x) \in S \cup {NIL}
        /\ LeftOf(t, x) # i /\ RightOf(t, x) # i /\ LeftOf(t, x) # h
    BY <1>2, <1>5, <1>8, <1>16, <1>20
  <2>3. LeftOf(u, x) = LeftOf(t, x)
    BY <1>16, <1>20, <2>2
  <2>4. RightOf(u, x) = IF RightOf(t, x) = h THEN lh ELSE RightOf(t, x)
    BY <1>16, <1>20, <2>2
  <2>5. Under(new, RightOf(u, x)) = Under(sub, RightOf(t, x)) \ {h}
    <3>1. CASE RightOf(t, x) = h
      <4>1. RightOf(u, x) = lh /\ h # NIL
        BY <1>2, <1>6, <2>4, <3>1
      <4>2. Under(sub, h) = {h} \cup Under(sub, lh)
        BY <1>6, <4>1 DEF Under
      <4>. QED
        BY <1>6, <1>19, <3>1, <4>1, <4>2
    <3>2. CASE RightOf(t, x) # h
      BY <2>1, <2>2, <2>4, <3>2
    <3>. QED
      BY <3>1, <3>2
  <2>6. new[x] = sub[x] \ {h}
    BY <1>17, <1>20
  <2>. QED
    BY <2>1, <2>2, <2>3, <2>5, <2>6
<1>21. /\ Under(new, LeftOf(u, h)) = S \ {h}
       /\ Under(new, RightOf(u, h)) = sub[r]
       /\ new[h] = sub[i] \ {i} /\ h \in M
  <2>1. h \in M
    BY <1>6
  <2>2. new[h] = sub[i] \ {i}
    BY <1>17, <2>1
  <2>3. Under(new, RightOf(u, h)) = sub[r]
    <3>1. RightOf(u, h) = r /\ r \in M /\ r # NIL /\ r # h /\ r \notin S
      BY <1>2, <1>5, <1>6, <1>16, <2>1
    <3>2. new[r] = sub[r] \ {i}
      BY <1>17, <3>1
    <3>. QED
      BY <1>5, <3>1, <3>2 DEF Under
  <2>4. Under(new, LeftOf(u, h)) = S \ {h}
    <3>1. CASE near
      <4>1. LeftOf(u, h) = lh /\ S = sub[h]
        BY <1>16, <2>1, <3>1 DEF near, S
      <4>. QED
        BY <1>6, <1>19, <4>1
    <3>2. CASE ~ near
      <4>1. LeftOf(u, h) = l /\ l \in M /\ l # NIL /\ l # h /\ l \in S
        BY <1>2, <1>5, <1>16, <2>1, <3>2 DEF near
      <4>. QED
        BY <1>17, <4>1 DEF Under, S
    <3>. QED
      BY <3>1, <3>2
  <2>. QED
    BY <2>1, <2>2, <2>3, <2>4
<1>22. Nested(u, M, new)
  <2>1. ASSUME NEW x \in Indices PROVE Up(u, x) = NIL <=> x \notin M
    <3>1. x \in Cells /\ x # NIL
      BY TreeWindow
    <3>2. q # NIL /\ h # NIL /\ (~ near => p # NIL)
      BY <1>2, <1>6, <1>9, <1>10
    <3>3. CASE x = i
      BY <1>15, <3>1, <3>3
    <3>4. CASE x \in M
      <4>1. Up(t, x) # NIL
        BY <1>2, <3>4
      <4>. QED
        BY <1>16, <3>2, <3>4, <4>1
    <3>5. CASE x \notin N
      <4>1. x # i /\ x # h /\ x # l /\ x # r /\ x # lh
        <5>1. l \in N /\ r \in N /\ h \in N /\ lh \in N \cup {NIL}
          BY <1>5, <1>6
        <5>. QED
          BY <3>1, <3>5, <5>1
      <4>2. Up(u, x) = Up(t, x)
        BY <1>13, <1>15, <3>1, <4>1
      <4>. QED
        BY <1>2, <3>5, <4>2
    <3>. QED
      BY <3>3, <3>4, <3>5
  <2>2. u.root \in M /\ new[u.root] = M /\ Up(u, u.root) = TOP
    <3>1. CASE t.root = i
      <4>1. u.root = h /\ q = TOP /\ sub[i] = N
        BY <1>2, <1>10, <1>15, <3>1
      <4>. QED
        BY <1>16, <1>21, <4>1
    <3>2. CASE t.root # i
      <4>1. u.root = t.root /\ t.root \in M
        BY <1>2, <1>15, <3>2
      <4>2. t.root # l
        BY <1>2, <1>10 DEF l
      <4>3. t.root \notin S
        BY <1>2, <1>6, <1>7, <4>2
      <4>4. t.root \notin {h, l, r, lh}
        BY <1>2, <1>6, <1>10, <4>2, <4>3 DEF r, lh
      <4>5. Up(u, t.root) = TOP
        BY <1>2, <1>16, <4>1, <4>4
      <4>. QED
        BY <1>2, <1>18, <4>1, <4>3, <4>5
    <3>. QED
      BY <3>1, <3>2
  <2>3. ASSUME NEW x \in M
        PROVE  /\ LeftOf(u, x) \in M \cup {NIL} /\ RightOf(u, x) \in M \cup {NIL}
               /\ new[x] = {x} \cup Under(new, LeftOf(u, x)) \cup Under(new, RightOf(u, x))
               /\ \A c \in {LeftOf(u, x), RightOf(u, x)} \ {NIL} : Up(u, c) = x
    <3>1. LeftOf(u, x) \in M \cup {NIL} /\ RightOf(u, x) \in M \cup {NIL}
      <4>1. l \in M /\ r \in M /\ h \in M /\ lh \in M \cup {NIL}
        BY <1>5, <1>6, <1>9
      <4>2. LeftOf(t, x) \in N \cup {NIL} /\ RightOf(t, x) \in N \cup {NIL}
        BY <1>3
      <4>. HIDE DEF M
      <4>3. /\ LeftOf(u, x) = IF x = h THEN (IF near THEN lh ELSE l)
                              ELSE IF LeftOf(t, x) = i THEN h ELSE LeftOf(t, x)
            /\ RightOf(u, x) = IF x = h THEN r ELSE IF RightOf(t, x) = i THEN h
                               ELSE IF RightOf(t, x) = h THEN lh ELSE RightOf(t, x)
        BY <1>16
      <4>. QED
        BY <4>1, <4>2, <4>3 DEF M
    <3>2. new[x] = {x} \cup Under(new, LeftOf(u, x)) \cup Under(new, RightOf(u, x))
      <4>1. CASE x = h
        <5>1. new[h] = S \cup sub[r]
          BY <1>5, <1>21
        <5>. QED
          BY <1>6, <1>21, <4>1, <5>1
      <4>2. CASE x \in S /\ x # h
        BY <1>3, <1>20, <4>2
      <4>3. CASE x \notin S
        BY <1>3, <1>18, <4>3
      <4>. QED
        BY <4>1, <4>2, <4>3
    <3>3. ASSUME NEW c \in {LeftOf(u, x), RightOf(u, x)} \ {NIL} PROVE Up(u, c) = x
      <4>1. c \in M
        BY <3>1
      <4>2. CASE x = h
        <5>1. c \in {l, r} \/ (near /\ c = lh)
          BY <1>16, <4>2
        <5>2. CASE c \in {l, r} /\ c # h
          BY <1>16, <4>1, <4>2, <5>2
        <5>3. CASE near /\ c = lh
          <6>1. c # h /\ c # l /\ c # r /\ Up(t, c) = h
            BY <1>2, <1>6, <1>9, <4>1, <5>3
          <6>. QED
            BY <1>16, <4>1, <4>2, <5>3, <6>1
        <5>4. CASE c = h
          <6>1. near /\ c = l
            BY <1>6, <5>1, <1>9, <5>4 DEF near
          <6>2. c # LeftOf(u, x) /\ c # RightOf(u, x)
            BY <1>6, <1>9, <1>16, <4>2, <6>1, <5>4
          <6>. QED
            BY <6>2
        <5>. QED
          BY <5>1, <5>2, <5>3, <5>4
      <4>3. CASE x # h /\ c = h
        <5>1. LeftOf(t, x) = i \/ RightOf(t, x) = i
          BY <1>9, <1>16, <4>3
        <5>2. q = x
          BY <1>2, <1>3, <5>1 DEF q
        <5>. QED
          BY <1>16, <4>1, <4>3, <5>2
      <4>4. CASE x # h /\ c # h /\ RightOf(t, x) = h /\ c = lh
        <5>1. p = x /\ ~ near
          BY <1>2, <1>3, <1>6, <1>9, <4>4 DEF p
        <5>2. c # l /\ c # r
          BY <1>9, <4>4
        <5>. QED
          BY <1>16, <4>1, <4>4, <5>1, <5>2
      <4>5. CASE x # h /\ c # h /\ ~ (RightOf(t, x) = h /\ c = lh)
        <5>1. c \in {LeftOf(t, x), RightOf(t, x)} /\ c # NIL
          BY <1>16, <4>5
        <5>2. Up(t, c) = x /\ x # i
          BY <1>3, <5>1
        <5>3. c # l /\ c # r /\ c # lh
          BY <1>5, <1>6, <4>1, <4>5, <5>1, <5>2
        <5>. QED
          BY <1>16, <4>1, <4>5, <5>2, <5>3
      <4>. QED
        BY <4>2, <4>3, <4>4, <4>5
    <3>. QED
      BY <3>1, <3>2, <3>3
  <2>4. M \subseteq Indices
    BY <1>2
  <2>. HIDE DEF M
  <2>. QED
    BY <1>15, <1>17, <2>1, <2>2, <2>3, <2>4 DEF Nested
<1>23. Sorted(u, ring, M, new)
  <2>1. \A x \in N : /\ \A j \in Under(sub, LeftOf(t, x)) : Before(ring, j, x)
                     /\ \A j \in Under(sub, RightOf(t, x)) : Before(ring, x, j)
    BY <1>1 DEF Sorted
  <2>. SUFFICES ASSUME NEW x \in M
       PROVE  /\ \A j \in Under(new, LeftOf(u, x)) : Before(ring, j, x)
              /\ \A j \in Under(new, RightOf(u, x)) : Before(ring, x, j)
    BY DEF Sorted
  <2>2. CASE x = h
    <3>1. ASSUME NEW j \in S \ {h} PROVE Before(ring, j, h)
      <4>1. CASE j \in sub[h]
        <5>1. j \in Under(sub, lh)
          BY <1>6, <3>1, <4>1
        <5>. QED
          BY <1>6, <2>1, <5>1 DEF lh
      <4>2. CASE j \notin sub[h]
        BY <3>1, <4>2 DEF S, l
      <4>. QED
        BY <4>1, <4>2
    <3>2. ASSUME NEW j \in sub[r] PROVE Before(ring, h, j)
      <4>1. Before(ring, i, j) /\ Before(ring, h, i)
        <5>1. /\ \A y \in Under(sub, LeftOf(t, i)) : Before(ring, y, i)
              /\ \A y \in Under(sub, RightOf(t, i)) : Before(ring, i, y)
          BY <2>1
        <5>2. Under(sub, LeftOf(t, i)) = S /\ Under(sub, RightOf(t, i)) = sub[r]
          BY <1>2, <1>5 DEF Under, S, l, r
        <5>. QED
          BY <1>6, <3>2, <5>1, <5>2
      <4>2. h \in Indices /\ i \in Indices /\ j \in Indices
        BY <1>2, <1>5, <1>6
      <4>. QED
        BY <4>1, <4>2, BeforeOrders
    <3>. QED
      BY <1>21, <2>2, <3>1, <3>2
  <2>3. CASE x # h
    BY <1>18, <1>20, <2>1, <2>3
  <2>. QED
    BY <2>2, <2>3
<1>. QED
  BY <1>22, <1>23 DEF SearchTree, u, v, new, S, l

-------------------------------------------------------------------------------
(* Putting a node in. *)

(* i is under all nodes that h is under, and under h.                        *)
LEMMA OneAttached ==
  ASSUME NEW ring \in [Indices -> Chars], NEW t, NEW N, NEW sub, SearchTree(t, ring, N, sub),
         NEW i \in Indices \ N, NEW h \in N, NEW c,
         Tree!Child(h, c, t) = NIL,
         c < 0 => Before(ring, i, h), ~ (c < 0) => Before(ring, h, i),
         \A x \in N : /\ h \in Under(sub, LeftOf(t, x)) => Before(ring, i, x)
                      /\ h \in Under(sub, RightOf(t, x)) => Before(ring, x, i)
  PROVE  LET M == N \cup {i}
         IN SearchTree(Tree!Attached(i, h, c, t), ring, M,
                       [x \in M |-> IF x = i THEN {i}
                                    ELSE IF h \in sub[x] THEN sub[x] \cup {i} ELSE sub[x]])
<1>. DEFINE less == c < 0
            M == N \cup {i}
            Grown(A) == IF h \in A THEN A \cup {i} ELSE A
            new == [x \in M |-> IF x = i THEN {i}
                                ELSE IF h \in sub[x] THEN sub[x] \cup {i} ELSE sub[x]]
            u == Tree!Attached(i, h, c, t)
<1>1. Nested(t, N, sub) /\ Sorted(t, ring, N, sub) /\ Split(t, N, sub)
  BY SortedSplit DEF SearchTree
<1>2. /\ N \subseteq Indices /\ i \in Cells /\ h \in Cells /\ NIL \notin N /\ i # NIL
      /\ t \in Trees /\ t.root \in N /\ sub[t.root] = N /\ Up(t, t.root) = TOP
      /\ \A x \in Indices : Up(t, x) = NIL <=> x \notin N
      /\ sub \in [N -> SUBSET N] /\ i \notin N /\ h # i /\ Indices \subseteq Cells /\ h # NIL
  BY <1>1, TreeWindow DEF Nested
<1>3. \A x \in N : /\ x \in sub[x]
                   /\ LeftOf(t, x) \in N \cup {NIL} /\ RightOf(t, x) \in N \cup {NIL}
                   /\ sub[x] = {x} \cup Under(sub, LeftOf(t, x)) \cup Under(sub, RightOf(t, x))
                   /\ LeftOf(t, x) # NIL => Up(t, LeftOf(t, x)) = x
                   /\ RightOf(t, x) # NIL => Up(t, RightOf(t, x)) = x
  BY <1>1 DEF Nested
<1>4. \A x \in N : x \notin Under(sub, LeftOf(t, x)) /\ x \notin Under(sub, RightOf(t, x))
  BY <1>1 DEF Split
<1>5. IF less THEN LeftOf(t, h) = NIL ELSE RightOf(t, h) = NIL
  BY DEF Tree!Child, LeftOf, RightOf
<1>6. /\ u \in Trees /\ u.root = t.root
      /\ \A x \in Cells :
           /\ LeftOf(u, x) = IF x = i THEN NIL ELSE IF x = h /\ less THEN i ELSE LeftOf(t, x)
           /\ RightOf(u, x) = IF x = i THEN NIL ELSE IF x = h /\ ~ less THEN i ELSE RightOf(t, x)
           /\ Up(u, x) = IF x = i THEN h ELSE Up(t, x)
  BY <1>2, AttachedIs
<1>7. (less => Before(ring, i, h)) /\ (~ less => Before(ring, h, i))
  OBVIOUS
<1>. HIDE DEF u, less
<1>8. /\ new \in [M -> SUBSET M] /\ new[i] = {i}
      /\ \A x \in N : new[x] = Grown(sub[x])
  BY <1>2
<1>. HIDE DEF new
<1>9. \A d \in N \cup {NIL} : Under(new, d) = Grown(Under(sub, d))
  BY <1>2, <1>8 DEF Under
<1>10. ASSUME NEW x \in N, x # h
       PROVE  /\ LeftOf(u, x) = LeftOf(t, x) /\ RightOf(u, x) = RightOf(t, x)
              /\ Under(new, LeftOf(u, x)) = Grown(Under(sub, LeftOf(t, x)))
              /\ Under(new, RightOf(u, x)) = Grown(Under(sub, RightOf(t, x)))
  <2>1. x \in Cells /\ x # i
    BY <1>2
  <2>2. LeftOf(u, x) = LeftOf(t, x) /\ RightOf(u, x) = RightOf(t, x)
    BY <1>6, <1>10, <2>1
  <2>. QED
    BY <1>3, <1>9, <2>2
<1>11. /\ LeftOf(u, h) = IF less THEN i ELSE LeftOf(t, h)
       /\ RightOf(u, h) = IF less THEN RightOf(t, h) ELSE i
       /\ Under(new, LeftOf(u, h)) = IF less THEN {i} ELSE Under(sub, LeftOf(t, h))
       /\ Under(new, RightOf(u, h)) = IF less THEN Under(sub, RightOf(t, h)) ELSE {i}
       /\ less => Under(sub, LeftOf(t, h)) = {}
       /\ ~ less => Under(sub, RightOf(t, h)) = {}
  <2>1. /\ LeftOf(u, h) = IF less THEN i ELSE LeftOf(t, h)
        /\ RightOf(u, h) = IF less THEN RightOf(t, h) ELSE i
    BY <1>2, <1>6
  <2>2. Under(new, i) = {i}
    BY <1>2, <1>8 DEF Under
  <2>3. /\ Under(new, LeftOf(t, h)) = Under(sub, LeftOf(t, h))
        /\ Under(new, RightOf(t, h)) = Under(sub, RightOf(t, h))
    BY <1>3, <1>4, <1>9
  <2>. QED
    BY <1>5, <2>1, <2>2, <2>3 DEF Under
<1>12. LeftOf(u, i) = NIL /\ RightOf(u, i) = NIL /\ Up(u, i) = h
  BY <1>2, <1>6
<1>13. Nested(u, M, new)
  <2>1. ASSUME NEW x \in Indices PROVE Up(u, x) = NIL <=> x \notin M
    BY <1>2, <1>6
  <2>2. u.root \in M /\ new[u.root] = M /\ Up(u, u.root) = TOP
    BY <1>2, <1>6, <1>8
  <2>3. ASSUME NEW x \in M
        PROVE  /\ LeftOf(u, x) \in M \cup {NIL} /\ RightOf(u, x) \in M \cup {NIL}
               /\ new[x] = {x} \cup Under(new, LeftOf(u, x)) \cup Under(new, RightOf(u, x))
               /\ \A d \in {LeftOf(u, x), RightOf(u, x)} \ {NIL} : Up(u, d) = x
    <3>1. CASE x = i
      BY <1>8, <1>12, <3>1 DEF Under
    <3>2. CASE x = h
      <4>1. new[x] = sub[h] \cup {i}
        BY <1>3, <1>8, <3>2
      <4>2. LeftOf(u, x) \in M \cup {NIL} /\ RightOf(u, x) \in M \cup {NIL}
        BY <1>3, <1>11, <3>2
      <4>3. \A d \in N : Up(u, d) = Up(t, d)
        BY <1>2, <1>6
      <4>4. \A d \in {LeftOf(u, x), RightOf(u, x)} \ {NIL} : Up(u, d) = x
        BY <1>3, <1>11, <1>12, <3>2, <4>3
      <4>5. new[x] = {x} \cup Under(new, LeftOf(u, x)) \cup Under(new, RightOf(u, x))
        BY <1>3, <1>11, <3>2, <4>1
      <4>. QED
        BY <4>2, <4>4, <4>5
    <3>3. CASE x # i /\ x # h
      <4>1. x \in N
        BY <3>3
      <4>2. /\ LeftOf(u, x) = LeftOf(t, x) /\ RightOf(u, x) = RightOf(t, x)
            /\ Under(new, LeftOf(u, x)) = Grown(Under(sub, LeftOf(t, x)))
            /\ Under(new, RightOf(u, x)) = Grown(Under(sub, RightOf(t, x)))
        BY <1>10, <3>3, <4>1
      <4>3. new[x] = {x} \cup Under(new, LeftOf(u, x)) \cup Under(new, RightOf(u, x))
        BY <1>3, <1>8, <3>3, <4>1, <4>2
      <4>4. LeftOf(u, x) \in M \cup {NIL} /\ RightOf(u, x) \in M \cup {NIL}
        BY <1>3, <4>1, <4>2
      <4>5. \A d \in N : Up(u, d) = Up(t, d)
        BY <1>2, <1>6
      <4>6. \A d \in {LeftOf(u, x), RightOf(u, x)} \ {NIL} : Up(u, d) = x
        BY <1>3, <4>1, <4>2, <4>5
      <4>. QED
        BY <4>3, <4>4, <4>6
    <3>. QED
      BY <3>1, <3>2, <3>3
  <2>4. M \subseteq Indices
    BY <1>2
  <2>. HIDE DEF M
  <2>. QED
    BY <1>6, <1>8, <2>1, <2>2, <2>3, <2>4 DEF Nested
<1>14. Sorted(u, ring, M, new)
  <2>1. \A x \in N : /\ \A j \in Under(sub, LeftOf(t, x)) : Before(ring, j, x)
                     /\ \A j \in Under(sub, RightOf(t, x)) : Before(ring, x, j)
    BY <1>1 DEF Sorted
  <2>. SUFFICES ASSUME NEW x \in M
       PROVE  /\ \A j \in Under(new, LeftOf(u, x)) : Before(ring, j, x)
              /\ \A j \in Under(new, RightOf(u, x)) : Before(ring, x, j)
    BY DEF Sorted
  <2>2. CASE x = i
    BY <1>12, <2>2 DEF Under
  <2>3. CASE x = h
    BY <1>7, <1>11, <2>1, <2>3
  <2>4. CASE x # i /\ x # h
    BY <1>10, <2>1, <2>4
  <2>. QED
    BY <2>2, <2>3, <2>4
<1>. QED
  BY <1>13, <1>14 DEF SearchTree, u, new

(* u is t with i in the place of h. *)
Renamed(t, u, N, i, h) ==
  /\ u \in Trees /\ u.root = IF t.root = h THEN i ELSE t.root
  /\ LeftOf(u, i) = LeftOf(t, h) /\ RightOf(u, i) = RightOf(t, h)
  /\ \A x \in N \ {h} : /\ LeftOf(u, x) = IF LeftOf(t, x) = h THEN i ELSE LeftOf(t, x)
                        /\ RightOf(u, x) = IF RightOf(t, x) = h THEN i ELSE RightOf(t, x)
  /\ \A x \in Indices : Up(u, x) = IF x = h THEN NIL
                                   ELSE IF x \in {LeftOf(t, h), RightOf(t, h)} THEN i
                                   ELSE IF x = i THEN Up(t, h) ELSE Up(t, x)

(* An equal string takes the place of another one in all sets.               *)
LEMMA OneRenamed ==
  ASSUME NEW ring \in [Indices -> Chars], NEW t, NEW N, NEW sub, SearchTree(t, ring, N, sub),
         NEW i \in Indices \ N, NEW h \in N, NEW u, Renamed(t, u, N, i, h), Same(ring, i, h)
  PROVE  \E new : SearchTree(u, ring, (N \ {h}) \cup {i}, new)
<1>. DEFINE M == (N \ {h}) \cup {i}
            Ren(A) == IF h \in A THEN (A \ {h}) \cup {i} ELSE A
            Old(x) == IF x = i THEN h ELSE x
            new == [x \in M |-> Ren(sub[Old(x)])]
<1>1. Nested(t, N, sub) /\ Sorted(t, ring, N, sub) /\ Split(t, N, sub)
  BY SortedSplit DEF SearchTree
<1>2. /\ N \subseteq Indices /\ NIL \notin N /\ i # NIL /\ i \notin N /\ h # i /\ h # NIL
      /\ t \in Trees /\ t.root \in N /\ sub[t.root] = N /\ Up(t, t.root) = TOP
      /\ \A x \in Indices : Up(t, x) = NIL <=> x \notin N
      /\ sub \in [N -> SUBSET N]
  BY <1>1, TreeWindow DEF Nested
<1>3. \A x \in N : /\ x \in sub[x]
                   /\ LeftOf(t, x) \in N \cup {NIL} /\ RightOf(t, x) \in N \cup {NIL}
                   /\ sub[x] = {x} \cup Under(sub, LeftOf(t, x)) \cup Under(sub, RightOf(t, x))
                   /\ LeftOf(t, x) # NIL => Up(t, LeftOf(t, x)) = x
                   /\ RightOf(t, x) # NIL => Up(t, RightOf(t, x)) = x
  BY <1>1 DEF Nested
<1>4. \A x \in N : x \notin Under(sub, LeftOf(t, x)) /\ x \notin Under(sub, RightOf(t, x))
  BY <1>1 DEF Split
<1>5. /\ u \in Trees /\ u.root = IF t.root = h THEN i ELSE t.root
      /\ LeftOf(u, i) = LeftOf(t, h) /\ RightOf(u, i) = RightOf(t, h)
      /\ \A x \in N \ {h} : /\ LeftOf(u, x) = IF LeftOf(t, x) = h THEN i ELSE LeftOf(t, x)
                            /\ RightOf(u, x) = IF RightOf(t, x) = h THEN i ELSE RightOf(t, x)
      /\ \A x \in Indices : Up(u, x) = IF x = h THEN NIL
                                       ELSE IF x \in {LeftOf(t, h), RightOf(t, h)} THEN i
                                       ELSE IF x = i THEN Up(t, h) ELSE Up(t, x)
  BY DEF Renamed
<1>6. \A x \in M : Old(x) \in N /\ (x # i => Old(x) = x /\ x \in N /\ x # h)
  OBVIOUS
<1>7. LeftOf(t, h) # h /\ RightOf(t, h) # h
  BY <1>2, <1>3, <1>4 DEF Under
<1>8. ASSUME NEW x \in M
      PROVE  /\ LeftOf(u, x) = IF LeftOf(t, Old(x)) = h THEN i ELSE LeftOf(t, Old(x))
             /\ RightOf(u, x) = IF RightOf(t, Old(x)) = h THEN i ELSE RightOf(t, Old(x))
  BY <1>5, <1>6, <1>7
<1>9. new \in [M -> SUBSET M] /\ \A x \in M : new[x] = Ren(sub[Old(x)])
  <2>1. \A x \in M : Ren(sub[Old(x)]) \subseteq M
    BY <1>2, <1>6
  <2>. HIDE DEF Ren, Old, M
  <2>. QED
    BY <2>1
<1>. HIDE DEF new
<1>10. \A c \in N \cup {NIL} : Under(new, IF c = h THEN i ELSE c) = Ren(Under(sub, c))
  <2>. SUFFICES ASSUME NEW c \in N \cup {NIL}
       PROVE Under(new, IF c = h THEN i ELSE c) = Ren(Under(sub, c))
    OBVIOUS
  <2>1. CASE c = NIL
    BY <1>2, <2>1 DEF Under
  <2>2. CASE c = h
    BY <1>2, <1>9, <2>2 DEF Under
  <2>3. CASE c # NIL /\ c # h
    BY <1>2, <1>9, <2>3 DEF Under
  <2>. QED
    BY <2>1, <2>2, <2>3
<1>11. ASSUME NEW x \in M
       PROVE  /\ Under(new, LeftOf(u, x)) = Ren(Under(sub, LeftOf(t, Old(x))))
              /\ Under(new, RightOf(u, x)) = Ren(Under(sub, RightOf(t, Old(x))))
  <2>1. /\ LeftOf(t, Old(x)) \in N \cup {NIL} /\ RightOf(t, Old(x)) \in N \cup {NIL}
    BY <1>3, <1>6
  <2>. HIDE DEF Old, Ren
  <2>. QED
    BY <1>8, <1>10, <2>1
<1>12. Nested(u, M, new)
  <2>1. ASSUME NEW x \in Indices PROVE Up(u, x) = NIL <=> x \notin M
    <3>1. LeftOf(t, h) \in N \cup {NIL} /\ RightOf(t, h) \in N \cup {NIL} /\ Up(t, h) # NIL
      BY <1>2, <1>3
    <3>2. x # NIL
      BY TreeWindow
    <3>. QED
      BY <1>2, <1>5, <1>7, <3>1, <3>2
  <2>2. u.root \in M /\ new[u.root] = M /\ Up(u, u.root) = TOP
    <3>1. CASE t.root = h
      <4>1. LeftOf(t, h) # i /\ RightOf(t, h) # i
        BY <1>2, <1>3
      <4>2. u.root = i /\ Up(u, i) = TOP
        BY <1>2, <1>5, <3>1, <4>1
      <4>3. new[i] = M
        BY <1>2, <1>9, <3>1
      <4>. QED
        BY <4>2, <4>3
    <3>2. CASE t.root # h
      <4>1. u.root = t.root /\ t.root \in M /\ t.root # i
        BY <1>2, <1>5, <3>2
      <4>2. t.root \notin {LeftOf(t, h), RightOf(t, h)}
        BY <1>1, ParentIs
      <4>3. Up(u, t.root) = TOP
        BY <1>2, <1>5, <3>2, <4>1, <4>2
      <4>4. new[t.root] = M
        BY <1>2, <1>9, <4>1
      <4>. QED
        BY <4>1, <4>3, <4>4
    <3>. QED
      BY <3>1, <3>2
  <2>3. ASSUME NEW x \in M
        PROVE  /\ LeftOf(u, x) \in M \cup {NIL} /\ RightOf(u, x) \in M \cup {NIL}
               /\ new[x] = {x} \cup Under(new, LeftOf(u, x)) \cup Under(new, RightOf(u, x))
               /\ \A d \in {LeftOf(u, x), RightOf(u, x)} \ {NIL} : Up(u, d) = x
    <3>. DEFINE y == Old(x)
                A == Under(sub, LeftOf(t, y))
                B == Under(sub, RightOf(t, y))
    <3>1. y \in N /\ (IF x = i THEN y = h ELSE y = x /\ y # h)
      BY <1>6
    <3>2. LeftOf(u, x) \in M \cup {NIL} /\ RightOf(u, x) \in M \cup {NIL}
      BY <1>3, <1>8, <3>1
    <3>3. new[x] = Ren(sub[y]) /\ sub[y] = {y} \cup A \cup B /\ y \notin A /\ y \notin B
      BY <1>3, <1>4, <1>9, <3>1
    <3>4. Under(new, LeftOf(u, x)) = Ren(A) /\ Under(new, RightOf(u, x)) = Ren(B)
      BY <1>11
    <3>. HIDE DEF y, A, B
    <3>5. new[x] = {x} \cup Ren(A) \cup Ren(B)
      BY <3>1, <3>3
    <3>6. ASSUME NEW c \in {LeftOf(t, y), RightOf(t, y)} \ {NIL}
          PROVE  Up(u, IF c = h THEN i ELSE c) = x
      <4>1. c \in N /\ Up(t, c) = y /\ c # i /\ c \in Indices
        BY <1>2, <1>3, <3>1
      <4>2. CASE c = h
        <5>1. y # h /\ x = y
          BY <1>7, <3>1, <4>2
        <5>2. i \notin {LeftOf(t, h), RightOf(t, h)}
          BY <1>2, <1>3
        <5>3. Up(u, i) = Up(t, h)
          BY <1>2, <1>5, <5>2
        <5>. QED
          BY <4>1, <4>2, <5>1, <5>3
      <4>3. CASE c # h /\ y = h
        <5>1. Up(u, c) = i
          BY <1>5, <4>1, <4>3
        <5>. QED
          BY <3>1, <4>3, <5>1
      <4>4. CASE c # h /\ y # h
        <5>1. c \notin {LeftOf(t, h), RightOf(t, h)}
          BY <1>2, <1>3, <4>1, <4>4
        <5>2. Up(u, c) = Up(t, c)
          BY <1>5, <4>1, <4>4, <5>1
        <5>. QED
          BY <3>1, <4>1, <4>4, <5>2
      <4>. QED
        BY <4>2, <4>3, <4>4
    <3>7. \A d \in {LeftOf(u, x), RightOf(u, x)} \ {NIL} : Up(u, d) = x
      <4>1. /\ LeftOf(u, x) = IF LeftOf(t, y) = h THEN i ELSE LeftOf(t, y)
            /\ RightOf(u, x) = IF RightOf(t, y) = h THEN i ELSE RightOf(t, y)
        BY <1>8 DEF y
      <4>. QED
        BY <1>2, <3>6, <4>1
    <3>. QED
      BY <3>2, <3>4, <3>5, <3>7
  <2>4. M \subseteq Indices
    BY <1>2
  <2>. HIDE DEF M
  <2>. QED
    BY <1>5, <1>9, <2>1, <2>2, <2>3, <2>4 DEF Nested
<1>13. Sorted(u, ring, M, new)
  <2>1. \A x \in N : /\ \A j \in Under(sub, LeftOf(t, x)) : Before(ring, j, x)
                     /\ \A j \in Under(sub, RightOf(t, x)) : Before(ring, x, j)
    BY <1>1 DEF Sorted
  <2>2. \A j, l : Before(ring, Old(j), Old(l)) => Before(ring, j, l)
    BY SamePlace
  <2>3. \A A : \A j \in Ren(A) : Old(j) \in A \/ (j = i /\ i \in A)
    OBVIOUS
  <2>. SUFFICES ASSUME NEW x \in M
       PROVE  /\ \A j \in Under(new, LeftOf(u, x)) : Before(ring, j, x)
              /\ \A j \in Under(new, RightOf(u, x)) : Before(ring, x, j)
    BY DEF Sorted
  <2>4. /\ Old(x) \in N
        /\ i \notin Under(sub, LeftOf(t, Old(x))) /\ i \notin Under(sub, RightOf(t, Old(x)))
    <3>1. Old(x) \in N
      BY <1>6
    <3>. HIDE DEF Old
    <3>. QED
      BY <1>2, <1>3, <3>1 DEF Under
  <2>. HIDE DEF Old, Ren
  <2>. QED
    BY <1>11, <2>1, <2>2, <2>3, <2>4
<1>. QED
  BY <1>12, <1>13 DEF SearchTree

(* AddString: the new string has the node of an equal one.                   *)
LEMMA ReplacedRenames ==
  ASSUME NEW ring \in [Indices -> Chars], NEW t, NEW N, NEW sub, SearchTree(t, ring, N, sub),
         NEW i \in Indices \ N, NEW h \in N, h # t.root
  PROVE  Renamed(t, Tree!Replaced(i, h, t), N, i, h)
<1>. DEFINE u == Tree!Replaced(i, h, t)
            p == Up(t, h)
<1>1. Nested(t, N, sub) /\ Split(t, N, sub)
  BY SortedSplit DEF SearchTree
<1>2. /\ N \subseteq Indices /\ NIL \notin Indices /\ NIL \notin N /\ i # NIL /\ i \notin N /\ h # i /\ h # NIL
      /\ t \in Trees /\ Indices \subseteq Cells /\ i \in Cells /\ h \in Cells
  BY <1>1, TreeWindow DEF Nested
<1>3. \A x \in N : /\ LeftOf(t, x) # NIL => Up(t, LeftOf(t, x)) = x
                   /\ RightOf(t, x) # NIL => Up(t, RightOf(t, x)) = x
                   /\ LeftOf(t, x) \in N \cup {NIL} /\ RightOf(t, x) \in N \cup {NIL}
                   /\ x \in sub[x]
  BY <1>1 DEF Nested
<1>4. p \in N /\ p # h /\ h \in {LeftOf(t, p), RightOf(t, p)}
  BY <1>1, ParentIs
<1>5. LeftOf(t, p) = h => RightOf(t, p) # h
  <2>1. Under(sub, LeftOf(t, p)) \cap Under(sub, RightOf(t, p)) = {}
    BY <1>1, <1>4 DEF Split
  <2>. QED
    BY <1>2, <1>3, <2>1 DEF Under
<1>6. h \notin {LeftOf(t, h), RightOf(t, h)} /\ p # i
  BY <1>2, <1>3, <1>4
<1>7. /\ u \in Trees /\ u.root = t.root
      /\ \A x \in Cells :
           /\ LeftOf(u, x) = IF x = h THEN NIL ELSE IF x = i THEN LeftOf(t, h)
                             ELSE IF x = p /\ LeftOf(t, p) = h THEN i ELSE LeftOf(t, x)
           /\ RightOf(u, x) = IF x = h THEN NIL ELSE IF x = i THEN RightOf(t, h)
                              ELSE IF x = p /\ LeftOf(t, p) # h THEN i ELSE RightOf(t, x)
           /\ Up(u, x) = IF x = h THEN NIL
                         ELSE IF x \in {LeftOf(t, h), RightOf(t, h)} \ {NIL} THEN i
                         ELSE IF x = i THEN p ELSE Up(t, x)
  BY <1>2, <1>4, <1>6, ReplacedIs
<1>. HIDE DEF u
<1>8. ASSUME NEW x \in N \ {h}
      PROVE  /\ LeftOf(u, x) = IF LeftOf(t, x) = h THEN i ELSE LeftOf(t, x)
             /\ RightOf(u, x) = IF RightOf(t, x) = h THEN i ELSE RightOf(t, x)
  <2>1. x \in Cells /\ x # i /\ x # h
    BY <1>2
  <2>2. LeftOf(t, x) = h \/ RightOf(t, x) = h => x = p
    BY <1>2, <1>3
  <2>. HIDE DEF p
  <2>. QED
    BY <1>4, <1>5, <1>7, <2>1, <2>2
<1>9. \A x \in Indices : Up(u, x) = IF x = h THEN NIL
                                    ELSE IF x \in {LeftOf(t, h), RightOf(t, h)} THEN i
                                    ELSE IF x = i THEN p ELSE Up(t, x)
  BY <1>2, <1>7
<1>10. LeftOf(u, i) = LeftOf(t, h) /\ RightOf(u, i) = RightOf(t, h)
  BY <1>2, <1>7
<1>. QED
  BY <1>7, <1>8, <1>9, <1>10 DEF Renamed, u

(* Or it is the new root.                                                    *)
LEMMA NewRootRenames ==
  ASSUME NEW ring \in [Indices -> Chars], NEW t, NEW N, NEW sub, SearchTree(t, ring, N, sub),
         NEW i \in Indices \ N
  PROVE  Renamed(t, Tree!NewRoot(i, t), N, i, t.root)
<1>. DEFINE u == Tree!NewRoot(i, t)
            h == t.root
<1>1. Nested(t, N, sub) /\ Split(t, N, sub)
  BY SortedSplit DEF SearchTree
<1>2. /\ N \subseteq Indices /\ NIL \notin Indices /\ i \notin N /\ h # i /\ h \in N
      /\ t \in Trees /\ Indices \subseteq Cells /\ i \in Cells /\ Up(t, h) = TOP
  BY <1>1, TreeWindow DEF Nested
<1>3. \A x \in N : h \notin {LeftOf(t, x), RightOf(t, x)}
  BY <1>1, ParentIs
<1>4. /\ u \in Trees /\ u.root = i
      /\ \A x \in Cells :
           /\ LeftOf(u, x) = IF x = h THEN NIL ELSE IF x = i THEN LeftOf(t, h)
                             ELSE LeftOf(t, x)
           /\ RightOf(u, x) = IF x = h THEN NIL ELSE IF x = i THEN RightOf(t, h)
                              ELSE RightOf(t, x)
           /\ Up(u, x) = IF x = h THEN NIL
                         ELSE IF x \in {LeftOf(t, h), RightOf(t, h)} \ {NIL} THEN i
                         ELSE IF x = i THEN TOP ELSE Up(t, x)
  BY <1>2, <1>3, NewRootIs
<1>. HIDE DEF u
<1>5. ASSUME NEW x \in N \ {h}
      PROVE  /\ LeftOf(u, x) = IF LeftOf(t, x) = h THEN i ELSE LeftOf(t, x)
             /\ RightOf(u, x) = IF RightOf(t, x) = h THEN i ELSE RightOf(t, x)
  BY <1>2, <1>3, <1>4
<1>6. LeftOf(u, i) = LeftOf(t, h) /\ RightOf(u, i) = RightOf(t, h)
  BY <1>2, <1>4
<1>7. \A x \in Indices : Up(u, x) = IF x = h THEN NIL
                                    ELSE IF x \in {LeftOf(t, h), RightOf(t, h)} THEN i
                                    ELSE IF x = i THEN Up(t, h) ELSE Up(t, x)
  BY <1>2, <1>4
<1>. HIDE DEF h
<1>8. u.root = IF t.root = h THEN i ELSE t.root
  BY <1>4 DEF h
<1>. QED
  BY <1>4, <1>5, <1>6, <1>7, <1>8 DEF Renamed, u, h

-------------------------------------------------------------------------------
(* The nodes under a node, level by level. *)

(* The children of the nodes of a level. *)
Deeper(t, level) == {c \in UNION {{LeftOf(t, x), RightOf(t, x)} : x \in level} : c # NIL}

(* The levels from i on. *)
Levels(f, t, i) == f = [n \in Indices |-> IF n = 0 THEN {i} ELSE Deeper(t, f[n - 1])]

(* They exist.                                                               *)
LEMMA LevelsExist ==
  ASSUME NEW t, NEW i
  PROVE  \E f : Levels(f, t, i)
<1>. DEFINE Is(f, m) == f = [n \in 0 .. m |-> IF n = 0 THEN {i} ELSE Deeper(t, f[n - 1])]
            K == {m \in Nat : \E f : Is(f, m)}
<1>1. 0 \in K
  <2>. DEFINE f == [n \in 0 .. 0 |-> {i}]
  <2>1. Is(f, 0)
    OBVIOUS
  <2>. QED
    BY <2>1
<1>2. ASSUME NEW m \in Nat, m \in K PROVE m + 1 \in K
  <2>1. PICK f : Is(f, m)
    BY <1>2
  <2>. DEFINE g == [n \in 0 .. m + 1 |-> IF n = m + 1 THEN Deeper(t, f[m]) ELSE f[n]]
              want == [n \in 0 .. m + 1 |-> IF n = 0 THEN {i} ELSE Deeper(t, g[n - 1])]
  <2>2. \A n \in 0 .. m + 1 : g[n] = want[n]
    <3>. SUFFICES ASSUME NEW n \in 0 .. m + 1 PROVE g[n] = want[n]
      OBVIOUS
    <3>1. CASE n = m + 1
      <4>1. n # 0 /\ n - 1 = m /\ m \in 0 .. m + 1 /\ m # m + 1
        BY <3>1
      <4>. QED
        BY <3>1, <4>1
    <3>2. CASE n # m + 1
      <4>1. n \in 0 .. m
        BY <3>2
      <4>2. f[n] = IF n = 0 THEN {i} ELSE Deeper(t, f[n - 1])
        BY <2>1, <4>1
      <4>3. n # 0 => n - 1 \in 0 .. m + 1 /\ n - 1 # m + 1
        BY <3>2
      <4>. QED
        BY <3>2, <4>2, <4>3
    <3>. QED
      BY <3>1, <3>2
  <2>3. g = want
    <3>1. DOMAIN g = 0 .. m + 1 /\ DOMAIN want = 0 .. m + 1
      OBVIOUS
    <3>. QED
      BY <2>2, <3>1
  <2>4. Is(g, m + 1)
    BY <2>3
  <2>. HIDE DEF Is, g
  <2>5. \E levels : Is(levels, m + 1)
    BY <2>4
  <2>. QED
    BY <2>5
<1>. HIDE DEF K
<1>3. WINDOW_SIZE - 1 \in Nat /\ Indices = 0 .. WINDOW_SIZE - 1
  BY RingSizes DEF Indices
<1>4. WINDOW_SIZE - 1 \in K
  BY <1>1, <1>2, <1>3, AllNumbers
<1>. QED
  BY <1>3, <1>4 DEF K, Levels

(* In the levels are exactly the nodes of the set.                           *)
LEMMA SubtreeIs ==
  ASSUME NEW ring \in [Indices -> Chars], NEW N, NEW sub, SearchTree(tree, ring, N, sub),
         NEW c \in N \cup {NIL}
  PROVE  Subtree(c) = Under(sub, c)
<1>1. CASE c = NIL
  BY <1>1 DEF Subtree, Under, NIL
<1>2. CASE c # NIL
  <2>. DEFINE level == CHOOSE f : Levels(f, tree, c)
              d == WINDOW_SIZE
              All == UNION {level[n] : n \in Indices}
  <2>1. Subtree(c) = All
    BY <1>2 DEF Subtree, Levels, Deeper, LeftOf, RightOf, NIL
  <2>2. Levels(level, tree, c)
    <3>1. \E f : Levels(f, tree, c)
      BY LevelsExist
    <3>. QED
      BY <3>1
  <2>. HIDE DEF level
  <2>3. \A n \in Indices : level[n] = IF n = 0 THEN {c} ELSE Deeper(tree, level[n - 1])
    BY <2>2 DEF Levels
  <2>4. d \in Nat \ {0} /\ Indices = 0 .. d - 1
    BY RingSizes DEF Indices
  <2>5. Nested(tree, N, sub) /\ Split(tree, N, sub)
    BY SortedSplit DEF SearchTree
  <2>6. c \in N
    BY <1>2
  <2>7. /\ \A x \in N : x \in sub[x] /\ sub[x] \subseteq N /\ Cardinality(sub[x]) \in 1 .. d
        /\ \A x \in N : \A e \in {LeftOf(tree, x), RightOf(tree, x)} \ {NIL} :
             e \in N /\ sub[e] \subseteq sub[x] /\ Cardinality(sub[e]) < Cardinality(sub[x])
    BY <2>5, SetSizes
  <2>8. \A y \in sub[c] : /\ y \in N /\ sub[y] \subseteq sub[c]
                          /\ y # c => /\ Up(tree, y) \in sub[c]
                                      /\ y \in {LeftOf(tree, Up(tree, y)), RightOf(tree, Up(tree, y))}
    BY <2>5, <2>6, ParentUnder
  <2>. HIDE DEF d
  <2>9. All \subseteq sub[c]
    <3>. DEFINE K == {n \in Nat : n < d => level[n] \subseteq sub[c]}
    <3>1. 0 \in K
      BY <2>3, <2>4, <2>6, <2>7
    <3>2. ASSUME NEW n \in Nat, n \in K PROVE n + 1 \in K
      <4>. SUFFICES ASSUME n + 1 < d, NEW y \in level[n + 1] PROVE y \in sub[c]
        OBVIOUS
      <4>1. n \in Indices /\ n + 1 \in Indices /\ n + 1 # 0 /\ (n + 1) - 1 = n /\ n < d
        BY <2>4
      <4>2. level[n + 1] = Deeper(tree, level[n])
        BY <2>3, <4>1
      <4>3. PICK x \in level[n] : y \in {LeftOf(tree, x), RightOf(tree, x)} /\ y # NIL
        BY <4>2 DEF Deeper
      <4>4. x \in sub[c]
        BY <3>2, <4>1, <4>3
      <4>. QED
        BY <2>7, <2>8, <4>3, <4>4
    <3>. HIDE DEF K
    <3>3. \A n \in Nat : n \in K
      BY <3>1, <3>2, AllNumbers
    <3>. QED
      BY <2>4, <3>3 DEF K
  <2>10. sub[c] \subseteq All
    <3>. DEFINE size(y) == Cardinality(sub[y])
                At(y) == \E n \in Indices : y \in level[n] /\ n + size(y) <= size(c)
                Bad == {y \in sub[c] : ~ At(y)}
                T == {d - size(y) : y \in Bad}
    <3>1. \A y \in N : size(y) \in 1 .. d
      BY <2>7
    <3>. HIDE DEF size
    <3>2. Bad \subseteq sub[c] /\ sub[c] \subseteq N
      BY <2>6, <2>7
    <3>3. ASSUME Bad # {} PROVE FALSE
      <4>1. T \in SUBSET Nat /\ T # {}
        BY <2>4, <3>1, <3>2, <3>3
      <4>2. Min(T) \in T /\ \A n \in T : Min(T) <= n
        BY <4>1, LeastElement
      <4>. HIDE DEF Bad
      <4>3. PICK y \in Bad : \A w \in Bad : d - size(y) <= d - size(w)
        BY <4>2
      <4>4. y \in sub[c] /\ y \in N
        BY <3>2, <4>3
      <4>5. y # c
        <5>1. 0 \in Indices /\ c \in level[0] /\ 0 + size(c) <= size(c)
          BY <2>3, <2>4, <2>6, <3>1
        <5>2. At(c)
          BY <5>1
        <5>. QED
          BY <4>3, <5>2 DEF Bad
      <4>. DEFINE x == Up(tree, y)
      <4>6. /\ x \in sub[c] /\ x \in N /\ y \in {LeftOf(tree, x), RightOf(tree, x)} /\ y # NIL
        BY <2>5, <2>8, <3>2, <4>4, <4>5, TreeWindow DEF Nested
      <4>7. size(y) < size(x)
        BY <2>7, <4>6 DEF size
      <4>. HIDE DEF x
      <4>8. x \notin Bad
        BY <2>4, <3>1, <4>3, <4>4, <4>6, <4>7
      <4>9. PICK n \in Indices : x \in level[n] /\ n + size(x) <= size(c)
        BY <4>6, <4>8 DEF Bad
      <4>10. /\ size(x) \in 1 .. d /\ size(y) \in 1 .. d /\ size(c) \in 1 .. d
        BY <2>6, <3>1, <4>4, <4>6
      <4>11. n + 1 \in Indices /\ n + 1 # 0 /\ (n + 1) - 1 = n /\ (n + 1) + size(y) <= size(c)
        BY <2>4, <4>7, <4>9, <4>10
      <4>12. y \in level[n + 1]
        <5>1. level[n + 1] = Deeper(tree, level[n])
          BY <2>3, <4>11
        <5>. QED
          BY <4>6, <4>9, <5>1 DEF Deeper
      <4>13. At(y)
        BY <4>11, <4>12
      <4>. QED
        BY <4>3, <4>13 DEF Bad
    <3>4. \A y \in sub[c] : At(y)
      BY <3>3
    <3>. QED
      BY <3>4
  <2>. QED
    BY <1>2, <2>1, <2>9, <2>10 DEF Under
<1>. QED
  BY <1>1, <1>2

-------------------------------------------------------------------------------
(* The search for a match in a tree. *)

(* From a node that differs from the lookahead in byte n on, no string on    *)
(* the other side has more than these n bytes in common.                     *)
LEMMA OtherSide ==
  ASSUME NEW ring \in [Indices -> Chars], NEW look \in Lookaheads, NEW head \in 0 .. MAX_CODED - 1,
         NEW i \in Indices, NEW j \in Indices, NEW n, n = Common(ring, look, head, i), n < MAX_CODED,
         NEW c, c = ring[Wrap(i + n, WINDOW_SIZE)] - look[Wrap(head + n, MAX_CODED)],
         \/ c > 0 /\ Before(ring, i, j)
         \/ ~ (c > 0) /\ Before(ring, j, i)
  PROVE  Common(ring, look, head, j) <= n
<1>. DEFINE d == MAX_CODED
            L(y) == look[Wrap(head + y, d)]
            l == Common(ring, look, head, j)
            B(x, y) == Byte(ring, x, y)
<1>1. d \in Nat \ {0}
  BY RingSizes
<1>2. /\ n \in 0 .. d - 1 /\ \A y \in 0 .. n - 1 : B(i, y) = L(y)
      /\ \A m \in 0 .. d : SameBytes(ring, i, look, head, m) => m <= n
  <2>1. /\ n \in 0 .. d /\ SameBytes(ring, i, look, head, n)
        /\ \A m \in 0 .. d : SameBytes(ring, i, look, head, m) => m <= n
    BY CommonIs
  <2>. QED
    BY <1>1, <2>1 DEF SameBytes, Byte
<1>3. l \in 0 .. d /\ \A y \in 0 .. l - 1 : B(j, y) = L(y)
  BY CommonIs DEF SameBytes, Byte
<1>4. \A y \in 0 .. d - 1 : B(i, y) \in Nat /\ B(j, y) \in Nat /\ L(y) \in Nat
  <2>. SUFFICES ASSUME NEW y \in 0 .. d - 1
       PROVE  B(i, y) \in Nat /\ B(j, y) \in Nat /\ L(y) \in Nat
    OBVIOUS
  <2>1. y \in 0 .. MAX_CODED
    BY <1>1
  <2>2. Wrap(head + y, d) \in 0 .. d - 1
    BY <1>1 DEF Wrap
  <2>3. L(y) \in Chars
    BY <2>2 DEF Lookaheads
  <2>. QED
    BY <2>1, <2>3, ByteIs, MatchersAssumption
<1>5. c = B(i, n) - L(n)
  BY DEF Byte
<1>6. B(i, n) # L(n)
  <2>. SUFFICES ASSUME B(i, n) = L(n) PROVE FALSE
    OBVIOUS
  <2>1. \A y \in 0 .. (n + 1) - 1 : y \in 0 .. n - 1 \/ y = n
    BY <1>2
  <2>2. \A y \in 0 .. (n + 1) - 1 : B(i, y) = L(y)
    BY <1>2, <2>1
  <2>3. SameBytes(ring, i, look, head, n + 1)
    BY <2>2 DEF SameBytes, Byte
  <2>. QED
    BY <1>1, <1>2, <2>3
<1>. HIDE DEF B, L, l, d
<1>7. ASSUME l > n PROVE FALSE
  <2>1. \A y \in 0 .. n - 1 : B(i, y) = B(j, y) /\ y \in 0 .. d - 1
    BY <1>1, <1>2, <1>3, <1>7
  <2>2. B(j, n) = L(n) /\ B(i, n) \in Nat /\ L(n) \in Nat
    BY <1>2, <1>3, <1>4, <1>7
  <2>3. ASSUME NEW x \in 0 .. d - 1, NEW a, NEW b, {a, b} = {i, j},
               \A y \in 0 .. x - 1 : B(a, y) = B(b, y), B(a, x) < B(b, x)
        PROVE  x = n
    <3>1. x < n => FALSE
      <4>. SUFFICES ASSUME x < n PROVE FALSE
        OBVIOUS
      <4>1. x \in 0 .. n - 1
        BY <1>2
      <4>2. B(i, x) = B(j, x) /\ B(i, x) \in Nat
        BY <1>4, <2>1, <4>1
      <4>3. a \in {i, j} /\ b \in {i, j}
        BY <2>3
      <4>. QED
        BY <2>3, <4>2, <4>3
    <3>2. x > n => FALSE
      <4>. SUFFICES ASSUME x > n PROVE FALSE
        OBVIOUS
      <4>1. n \in 0 .. x - 1
        BY <1>2
      <4>2. B(a, n) = B(b, n)
        BY <2>3, <4>1
      <4>3. B(i, n) = B(j, n) \/ (a = i /\ b = i) \/ (a = j /\ b = j)
        BY <2>3, <4>2
      <4>4. B(a, x) \in Nat
        BY <1>4, <2>3
      <4>5. a # b
        BY <2>3, <4>4
      <4>. QED
        BY <1>6, <2>2, <4>3, <4>5
    <3>. QED
      BY <1>2, <3>1, <3>2
  <2>4. CASE c > 0 /\ Before(ring, i, j)
    <3>1. PICK x \in 0 .. d - 1 : (\A y \in 0 .. x - 1 : B(i, y) = B(j, y)) /\ B(i, x) < B(j, x)
      BY <2>4 DEF Before, B, d
    <3>2. x = n
      BY <2>3, <3>1
    <3>. QED
      BY <1>5, <2>2, <2>4, <3>1, <3>2
  <2>5. CASE ~ (c > 0) /\ Before(ring, j, i)
    <3>1. PICK x \in 0 .. d - 1 : (\A y \in 0 .. x - 1 : B(j, y) = B(i, y)) /\ B(j, x) < B(i, x)
      BY <2>5 DEF Before, B, d
    <3>2. x = n
      BY <2>3, <3>1
    <3>. QED
      BY <1>5, <2>2, <2>5, <3>1, <3>2
  <2>. QED
    BY <2>4, <2>5
<1>. QED
  BY <1>2, <1>3, <1>7 DEF l

-------------------------------------------------------------------------------
(* What the functions of a tree keep. *)

Nodes(t) == {i \in Indices : Up(t, i) # NIL}

(* The answer so far is a match with a string of the tree. *)
Asked ==
  /\ lookahead \in Lookaheads /\ uncodedHead \in 0 .. MAX_CODED - 1 /\ match \in Answers
  /\ SameBytes(window, match.offset, lookahead, uncodedHead, match.length)
  /\ match.length = 0 \/ match.offset \in Nodes(tree)

(* No string in S is longer. *)
Beaten(S) == \A x \in S : Common(window, lookahead, uncodedHead, x) <= match.length

(* Of the strings that contain the byte, those before the m-th one are out,  *)
(* or those from it on. *)
OutBefore(m) == \A x \in 1 .. MAX_CODED + 1 : x < m => Behind(MAX_CODED)[x] \notin Nodes(tree)
OutFrom(m) == \A x \in 1 .. MAX_CODED + 1 : x >= m => Behind(MAX_CODED)[x] \notin Nodes(tree)

(* here is a descendant on the left of the string, and right of all others. *)
OnTheRight(sub) ==
  LET S == sub[LeftOf(tree, String)]
  IN /\ String \in Nodes(tree) /\ LeftOf(tree, String) # NIL /\ RightOf(tree, String) # NIL
     /\ here \in S
     /\ here = LeftOf(tree, String) \/ RightOf(tree, Up(tree, here)) = here
     /\ \A j \in S \ sub[here] : \A x \in sub[here] : Before(window, j, x)

(* The place of the string is under here. *)
BelongsHere(sub) ==
  /\ here \in Nodes(tree)
  /\ \A x \in Nodes(tree) :
       /\ here \in Under(sub, LeftOf(tree, x)) => Before(window, String, x)
       /\ here \in Under(sub, RightOf(tree, x)) => Before(window, x, String)

Phase(sub) ==
  /\ pc \in {"ready", "search", "found", "remove", "rightmost", "add", "descend"}
  /\ pc \in {"search", "found"} => Asked
  /\ pc = "search" => here \in Nodes(tree) \cup {NIL} /\ Beaten(Nodes(tree) \ Under(sub, here))
  /\ pc = "found" => Beaten(Nodes(tree))
  /\ pc \in {"remove", "rightmost"} => k \in 1 .. MAX_CODED + 2 /\ OutBefore(k)
  /\ pc = "rightmost" => k <= MAX_CODED + 1 /\ OnTheRight(sub)
  /\ pc \in {"add", "descend"} => k \in 1 .. MAX_CODED + 2 /\ OutFrom(k)
  /\ pc = "descend" => k <= MAX_CODED + 1 /\ Compare(tree.root) # 0 /\ BelongsHere(sub)

TreeInv ==
  method = "tree" /\ ~ emptied =>
    \E sub : SearchTree(tree, window, Nodes(tree), sub) /\ Phase(sub)

(* The nodes are those that the tree is about.                               *)
LEMMA NodesAre ==
  ASSUME NEW t, NEW ring, NEW N, NEW sub, SearchTree(t, ring, N, sub)
  PROVE  Nodes(t) = N
BY DEF SearchTree, Nested, Nodes

(* The tree of one node that the initialisation makes.                       *)
LEMMA RootOnlyIs ==
  ASSUME NEW ring
  PROVE  \E sub : SearchTree(Tree!RootOnly, ring, Nodes(Tree!RootOnly), sub)
<1>. DEFINE t == Tree!RootOnly
            root == (WINDOW_SIZE - MAX_CODED) - 1
            N == {root}
            sub == [x \in N |-> N]
            nil == [leftChild |-> NIL, rightChild |-> NIL, parent |-> NIL]
            top == [leftChild |-> NIL, rightChild |-> NIL, parent |-> TOP]
            zero == [leftChild |-> 0, rightChild |-> 0, parent |-> 0]
            nodes == [i \in Cells |-> IF i = root THEN top ELSE IF i \in Indices THEN nil ELSE zero]
<1>1. t = [node |-> nodes, root |-> root]
  <2>1. Tree!WINDOW_SIZE = WINDOW_SIZE /\ Tree!MAX_CODED = MAX_CODED /\ Tree!Indices = Indices
        /\ Tree!Memory = Cells
    BY TreeWindow
  <2>2. Tree!NullNode = nil /\ [Tree!NullNode EXCEPT !.parent = Tree!ROOT_INDEX] = top
        /\ Tree!Node(0, 0, 0) = zero
    BY DEF Tree!NullNode, Tree!Node, NIL, TOP
  <2>. QED
    BY <2>1, <2>2 DEF Tree!RootOnly
<1>2. root \in Indices /\ 0 \in Cells
  BY RingSizes, TreeWindow DEF Indices, Cells
<1>3. nil \in NodeRecords /\ top \in NodeRecords /\ zero \in NodeRecords
  BY <1>2, TreeWindow DEF NodeRecords
<1>4. nodes \in [Cells -> NodeRecords]
  BY <1>3
<1>5. t \in Trees /\ t.root = root
  BY <1>1, <1>2, <1>4, TreeWindow DEF Trees
<1>6. \A i \in Indices : Up(t, i) = IF i = root THEN TOP ELSE NIL
  BY <1>1, TreeWindow DEF Up
<1>7. LeftOf(t, root) = NIL /\ RightOf(t, root) = NIL
  BY <1>1, <1>2, TreeWindow DEF LeftOf, RightOf
<1>. HIDE DEF t, root
<1>8. Nodes(t) = N
  <2>1. \A i \in Indices : Up(t, i) # NIL <=> i = root
    BY <1>6, TreeWindow
  <2>. QED
    BY <1>2, <2>1 DEF Nodes
<1>9. SearchTree(t, ring, N, sub)
  BY <1>2, <1>5, <1>6, <1>7, TreeWindow DEF SearchTree, Nested, Sorted, Under
<1>. QED
  BY <1>8, <1>9 DEF t

(* A string that does not contain the replaced byte keeps its bytes.         *)
LEMMA OthersKeepBytes ==
  ASSUME windowHead \in Indices, NEW ring, NEW new,
         \A x \in Indices : x # windowHead => new[x] = ring[x],
         NEW i \in Indices, \A x \in 1 .. MAX_CODED + 1 : Behind(MAX_CODED)[x] # i
  PROVE  \A y \in 0 .. MAX_CODED - 1 : Byte(new, i, y) = Byte(ring, i, y)
<1>. SUFFICES ASSUME NEW y \in 0 .. MAX_CODED - 1 PROVE Byte(new, i, y) = Byte(ring, i, y)
  OBVIOUS
<1>1. MAX_CODED \in Nat \ {0} /\ MAX_CODED \in 0 .. MAX_CODED /\ y \in 0 .. MAX_CODED
      /\ y \in 0 .. WINDOW_SIZE
  BY RingSizes
<1>2. Wrap(i + y, WINDOW_SIZE) \in Indices
  BY <1>1, WrapInside
<1>3. MAX_CODED + 1 - y \in 1 .. MAX_CODED + 1
  BY <1>1
<1>4. Wrap(i + y, WINDOW_SIZE) # windowHead
  BY <1>1, <1>3, BehindIs
<1>. QED
  BY <1>2, <1>4 DEF Byte

(* The strings that contain the byte, while windowHead stays.                *)
LEMMA SameStrings ==
  ASSUME windowHead' = windowHead
  PROVE  /\ Behind(MAX_CODED)' = Behind(MAX_CODED)
         /\ k' = k => String' = String
<1>1. Behind(MAX_CODED)' = Behind(MAX_CODED)
  BY DEF Behind
<1>. QED
  BY <1>1 DEF String

(* They are strings, no two are the same, and String is one of them.         *)
LEMMA StringIs ==
  ASSUME ChainsInv
  PROVE  /\ MAX_CODED \in Nat \ {0}
         /\ \A x \in 1 .. MAX_CODED + 1 : Behind(MAX_CODED)[x] \in Indices
         /\ \A x, y \in 1 .. MAX_CODED + 1 : Behind(MAX_CODED)[x] = Behind(MAX_CODED)[y] => x = y
         /\ k \in 1 .. MAX_CODED + 1 => String = Behind(MAX_CODED)[k] /\ String \in Indices
<1>1. windowHead \in Indices /\ MAX_CODED \in Nat \ {0} /\ MAX_CODED \in 0 .. MAX_CODED
  BY RingSizes DEF ChainsInv
<1>2. /\ Behind(MAX_CODED) \in Seq(Indices) /\ Len(Behind(MAX_CODED)) = MAX_CODED + 1
      /\ \A x, y \in 1 .. MAX_CODED + 1 : Behind(MAX_CODED)[x] = Behind(MAX_CODED)[y] => x = y
  BY <1>1, BehindIs
<1>3. \A x \in 1 .. MAX_CODED + 1 : Behind(MAX_CODED)[x] \in Indices
  BY <1>2
<1>. QED
  BY <1>1, <1>2, <1>3 DEF String

(* The strings that contain the byte leave the tree.                         *)
LEMMA RemovedPhase ==
  ASSUME NEW ring \in [Indices -> Chars], NEW N, NEW sub, SearchTree(tree', ring, N, sub),
         ChainsInv, UNCHANGED <<windowHead, window>>, ring = window,
         pc' = "remove", k' = k + 1, k \in 1 .. MAX_CODED + 1,
         \A x \in 1 .. MAX_CODED + 1 : x < k + 1 => Behind(MAX_CODED)[x] \notin N
  PROVE  TreeInv'
<1>1. Nodes(tree') = N
  BY NodesAre
<1>2. Behind(MAX_CODED)' = Behind(MAX_CODED)
  BY SameStrings
<1>3. OutBefore(k)'
  BY <1>1, <1>2 DEF OutBefore
<1>4. k' \in 1 .. MAX_CODED + 2
  BY RingSizes
<1>5. Phase(sub)'
  BY <1>3, <1>4 DEF Phase
<1>6. SearchTree(tree', window', Nodes(tree'), sub)
  BY <1>1
<1>. QED
  BY <1>5, <1>6 DEF TreeInv

(* RemoveString: the string is not in the tree, or has one child at most.    *)
LEMMA SkipKeeps ==
  ASSUME ChainsInv, TreeInv, method = "tree", ~ emptied', SkipString \/ RemoveString
  PROVE  TreeInv'
<1>1. /\ pc = "remove" /\ k <= MAX_CODED + 1
      /\ UNCHANGED <<windowHead, window>> /\ pc' = "remove" /\ k' = k + 1
      /\ emptied' = (emptied \/ tree'.root = NIL)
      /\ \/ Up(tree, String) = NIL /\ tree' = tree
         \/ /\ Up(tree, String) # NIL /\ ~ Tree!HasBoth(String, tree)
            /\ tree' = Tree!TakenOut(String, Tree!OnlyChild(String, tree), tree)
  BY DEF SkipString, RemoveString, Unhook, Removing, InTree, TreeStep, Up, NIL
<1>. DEFINE N == Nodes(tree)
            i == String
<1>2. PICK sub : SearchTree(tree, window, N, sub) /\ Phase(sub)
  BY <1>1 DEF TreeInv
<1>3. k \in 1 .. MAX_CODED + 1 /\ \A x \in 1 .. MAX_CODED + 1 : x < k => Behind(MAX_CODED)[x] \notin N
  BY <1>1, <1>2, RingSizes DEF Phase, OutBefore
<1>4. i = Behind(MAX_CODED)[k] /\ i \in Indices /\ window \in [Indices -> Chars]
  BY <1>3, StringIs DEF ChainsInv
<1>5. ASSUME NEW M, i \notin M, M \subseteq N
      PROVE  \A x \in 1 .. MAX_CODED + 1 : x < k + 1 => Behind(MAX_CODED)[x] \notin M
  <2>1. \A x \in 1 .. MAX_CODED + 1 : x < k + 1 => x < k \/ x = k
    BY <1>3, RingSizes
  <2>. QED
    BY <1>3, <1>4, <1>5, <2>1
<1>. HIDE DEF i
<1>6. CASE Up(tree, i) = NIL /\ tree' = tree
  <2>1. i \notin N
    BY <1>6 DEF Nodes
  <2>. HIDE DEF N
  <2>. QED
    BY <1>1, <1>2, <1>3, <1>4, <1>5, <1>6, <2>1, RemovedPhase
<1>7. CASE /\ Up(tree, i) # NIL /\ ~ Tree!HasBoth(i, tree)
           /\ tree' = Tree!TakenOut(i, Tree!OnlyChild(i, tree), tree)
  <2>. DEFINE h == Tree!OnlyChild(i, tree)
              M == N \ {i}
              new == [x \in M |-> sub[x] \ {i}]
  <2>1. i \in N
    BY <1>4, <1>7 DEF Nodes
  <2>2. {LeftOf(tree, i), RightOf(tree, i)} = {h, NIL}
    BY <1>7 DEF Tree!HasBoth, Tree!OnlyChild, LeftOf, RightOf, NIL
  <2>3. tree.root = i => h # NIL
    <3>1. tree \in Trees /\ i \in Cells /\ h \in Cells
      <4>1. tree \in Trees /\ i \in Cells
        BY <1>2, <1>4, TreeWindow DEF SearchTree, Nested
      <4>2. h \in {LeftOf(tree, i), RightOf(tree, i)}
        BY <2>2
      <4>. QED
        BY <4>1, <4>2, FieldsInside
    <3>2. Tree!TakenOut(i, h, tree).root = IF tree.root = i THEN h ELSE tree.root
      BY <3>1, TakenOutIs
    <3>. QED
      BY <1>1, <1>7, <3>2
  <2>. HIDE DEF h, N
  <2>4. SearchTree(Tree!TakenOut(i, h, tree), window, M, new)
    BY <1>2, <1>4, <2>1, <2>2, <2>3, OneTakenOut
  <2>5. tree' = Tree!TakenOut(i, h, tree)
    BY <1>7 DEF h
  <2>6. \A x \in 1 .. MAX_CODED + 1 : x < k + 1 => Behind(MAX_CODED)[x] \notin M
    BY <1>5
  <2>. HIDE DEF M, new
  <2>. QED
    BY <1>1, <1>3, <1>4, <2>4, <2>5, <2>6, RemovedPhase
<1>. QED
  BY <1>1, <1>6, <1>7 DEF i

(* The way to the rightmost descendant.                                      *)
LEMMA RightmostKeeps ==
  ASSUME ChainsInv, TreeInv, method = "tree", ~ emptied, LookForRightmost \/ GoRight
  PROVE  TreeInv'
<1>. DEFINE N == Nodes(tree)
<1>1. PICK sub : SearchTree(tree, window, N, sub) /\ Phase(sub)
  BY DEF TreeInv
<1>2. UNCHANGED <<windowHead, window, tree, k>> /\ pc' = "rightmost"
  <2>1. CASE LookForRightmost
    BY <2>1 DEF LookForRightmost, TreeStep
  <2>2. CASE GoRight
    <3>1. pc = "rightmost"
      BY <2>2 DEF GoRight
    <3>. QED
      BY <2>2, <3>1 DEF GoRight, TreeStep
  <2>. QED
    BY <2>1, <2>2
<1>3. String' = String /\ Behind(MAX_CODED)' = Behind(MAX_CODED)
  BY <1>2, SameStrings
<1>4. k \in 1 .. MAX_CODED + 2 /\ OutBefore(k) /\ k <= MAX_CODED + 1
  BY <1>1 DEF Phase, LookForRightmost, GoRight, Removing
<1>5. /\ Nested(tree, N, sub) /\ Split(tree, N, sub) /\ Sorted(tree, window, N, sub)
      /\ window \in [Indices -> Chars]
  BY <1>1, SortedSplit DEF SearchTree, ChainsInv
<1>6. /\ N \subseteq Indices /\ sub \in [N -> SUBSET N]
      /\ \A x \in N : /\ x \in sub[x]
                      /\ LeftOf(tree, x) \in N \cup {NIL} /\ RightOf(tree, x) \in N \cup {NIL}
                      /\ sub[x] = {x} \cup Under(sub, LeftOf(tree, x)) \cup Under(sub, RightOf(tree, x))
                      /\ \A c \in {LeftOf(tree, x), RightOf(tree, x)} \ {NIL} : Up(tree, c) = x
  BY <1>5 DEF Nested
<1>7. OnTheRight(sub)'
  <2>. DEFINE l == LeftOf(tree, String)
              S == sub[l]
  <2>. SUFFICES /\ String \in N /\ l # NIL /\ RightOf(tree, String) # NIL
                /\ here' \in S
                /\ here' = l \/ RightOf(tree, Up(tree, here')) = here'
                /\ \A j \in S \ sub[here'] : \A x \in sub[here'] : Before(window, j, x)
    BY <1>2, <1>3 DEF OnTheRight
  <2>1. CASE LookForRightmost
    <3>1. String \in N
      <4>1. String \in Indices
        BY <1>4, StringIs
      <4>2. Up(tree, String) # NIL
        BY <2>1 DEF LookForRightmost, InTree, Up, NIL
      <4>. QED
        BY <4>1, <4>2 DEF Nodes
    <3>2. l # NIL /\ RightOf(tree, String) # NIL /\ here' = l
      BY <2>1 DEF LookForRightmost, Tree!HasBoth, LeftOf, RightOf, NIL
    <3>3. l \in S
      BY <1>6, <3>1, <3>2
    <3>. QED
      BY <3>1, <3>2, <3>3
  <2>2. CASE GoRight
    <3>. DEFINE r == here'
    <3>1. OnTheRight(sub)
      BY <1>1, <2>2 DEF Phase, GoRight
    <3>2. r = RightOf(tree, here) /\ r # NIL
      BY <2>2 DEF GoRight, Right, RightOf, NIL
    <3>3. /\ String \in N /\ l # NIL /\ RightOf(tree, String) # NIL /\ here \in S /\ l \in N
          /\ \A j \in S \ sub[here] : \A x \in sub[here] : Before(window, j, x)
      BY <1>6, <3>1 DEF OnTheRight
    <3>4. here \in N /\ sub[here] \subseteq S
      BY <1>5, <3>3, ParentUnder
    <3>. HIDE DEF r, S
    <3>5. /\ sub[here] = {here} \cup Under(sub, LeftOf(tree, here)) \cup sub[r]
          /\ r \in N /\ Up(tree, r) = here /\ r \in sub[r]
      BY <1>6, <3>2, <3>4 DEF Under
    <3>6. /\ \A j \in Under(sub, LeftOf(tree, here)) : Before(window, j, here)
          /\ \A x \in sub[r] : Before(window, here, x)
      BY <1>5, <3>2, <3>4 DEF Sorted, Under
    <3>7. ASSUME NEW j \in S \ sub[r], NEW x \in sub[r] PROVE Before(window, j, x)
      <4>1. CASE j \notin sub[here]
        BY <3>3, <3>5, <4>1
      <4>2. CASE j = here
        BY <3>6, <4>2
      <4>3. CASE j \in Under(sub, LeftOf(tree, here))
        <5>1. Before(window, j, here) /\ Before(window, here, x)
          BY <3>6, <4>3
        <5>2. j \in N /\ x \in N
          BY <1>6, <3>3, <3>5 DEF S
        <5>. QED
          BY <1>5, <1>6, <3>4, <5>1, <5>2, BeforeOrders
      <4>. QED
        BY <3>5, <4>1, <4>2, <4>3
    <3>8. r \in S /\ RightOf(tree, Up(tree, r)) = r
      BY <3>2, <3>4, <3>5
    <3>. QED
      BY <3>3, <3>7, <3>8 DEF r, S
  <2>. QED
    BY <2>1, <2>2
<1>8. OutBefore(k)'
  BY <1>2, <1>3, <1>4 DEF OutBefore
<1>9. Phase(sub)'
  BY <1>2, <1>4, <1>7, <1>8 DEF Phase
<1>. QED
  BY <1>1, <1>2, <1>9 DEF TreeInv

(* The rightmost descendant is promoted.                                     *)
LEMMA PromoteKeeps ==
  ASSUME ChainsInv, TreeInv, method = "tree", ~ emptied', Promote
  PROVE  TreeInv'
<1>. DEFINE N == Nodes(tree)
            i == String
<1>1. /\ pc = "rightmost" /\ RightOf(tree, here) = NIL
      /\ UNCHANGED <<windowHead, window>> /\ pc' = "remove" /\ k' = k + 1
      /\ emptied' = (emptied \/ tree'.root = NIL)
      /\ tree' = Tree!TakenOut(i, here, Tree!Promoted(i, here, tree))
  BY DEF Promote, Unhook, TreeStep, Right, RightOf, NIL
<1>2. PICK sub : SearchTree(tree, window, N, sub) /\ Phase(sub)
  BY <1>1 DEF TreeInv
<1>3. /\ k \in 1 .. MAX_CODED + 1 /\ OnTheRight(sub)
      /\ \A x \in 1 .. MAX_CODED + 1 : x < k => Behind(MAX_CODED)[x] \notin N
  BY <1>1, <1>2, RingSizes DEF Phase, OutBefore
<1>4. i = Behind(MAX_CODED)[k] /\ i \in Indices /\ window \in [Indices -> Chars]
  BY <1>3, StringIs DEF ChainsInv
<1>5. /\ i \in N /\ LeftOf(tree, i) # NIL /\ RightOf(tree, i) # NIL
      /\ here \in sub[LeftOf(tree, i)]
      /\ here = LeftOf(tree, i) \/ RightOf(tree, Up(tree, here)) = here
      /\ \A j \in sub[LeftOf(tree, i)] \ sub[here] : \A x \in sub[here] : Before(window, j, x)
  BY <1>3 DEF OnTheRight
<1>6. here \in sub[here]
  <2>1. Nested(tree, N, sub) /\ Split(tree, N, sub)
    BY <1>2, <1>4, SortedSplit DEF SearchTree
  <2>2. LeftOf(tree, i) \in N
    BY <1>5, <2>1 DEF Nested
  <2>3. here \in N
    BY <1>5, <2>1, <2>2, ParentUnder
  <2>. QED
    BY <2>1, <2>3, SetSizes
<1>. HIDE DEF i, N
<1>. DEFINE M == N \ {i}
<1>7. \A x \in 1 .. MAX_CODED + 1 : x < k + 1 => Behind(MAX_CODED)[x] \notin M
  <2>1. \A x \in 1 .. MAX_CODED + 1 : x < k + 1 => x < k \/ x = k
    BY <1>3, RingSizes
  <2>. QED
    BY <1>3, <1>4, <2>1
<1>8. \A j \in sub[LeftOf(tree, i)] \ sub[here] : Before(window, j, here)
  BY <1>5, <1>6
<1>. DEFINE new == [x \in M |-> IF x = here THEN sub[i] \ {i}
                                ELSE IF x \in sub[LeftOf(tree, i)] THEN sub[x] \ {here}
                                ELSE sub[x] \ {i}]
<1>9. SearchTree(Tree!TakenOut(i, here, Tree!Promoted(i, here, tree)), window, M, new)
  BY <1>1, <1>2, <1>4, <1>5, <1>8, OnePromoted
<1>. HIDE DEF M, new
<1>. QED
  BY <1>1, <1>3, <1>4, <1>7, <1>9, RemovedPhase

(* All strings that contain the byte are out when it is replaced.            *)
LEMMA StoreKeeps ==
  ASSUME ChainsInv, TreeInv, method = "tree", ~ emptied, StoreByte
  PROVE  TreeInv'
<1>. DEFINE N == Nodes(tree)
<1>1. /\ pc = "remove" /\ k = MAX_CODED + 2
      /\ UNCHANGED <<windowHead, tree, here>> /\ pc' = "add" /\ k' = 1
      /\ window' = [window EXCEPT ![windowHead] = replacement]
  BY DEF StoreByte, TreeStep
<1>2. PICK sub : SearchTree(tree, window, N, sub) /\ Phase(sub)
  BY DEF TreeInv
<1>3. /\ windowHead \in Indices /\ window \in [Indices -> Chars]
      /\ \A x \in Indices : x # windowHead => window'[x] = window[x]
  BY <1>1 DEF ChainsInv
<1>4. \A x \in 1 .. MAX_CODED + 1 : Behind(MAX_CODED)[x] \notin N
  BY <1>1, <1>2, RingSizes DEF Phase, OutBefore
<1>5. /\ Nested(tree, N, sub) /\ Sorted(tree, window, N, sub) /\ N \subseteq Indices
      /\ sub \in [N -> SUBSET N]
      /\ \A x \in N : LeftOf(tree, x) \in N \cup {NIL} /\ RightOf(tree, x) \in N \cup {NIL}
  BY <1>2 DEF SearchTree, Nested
<1>6. \A x \in N : \A y \in 0 .. MAX_CODED - 1 : Byte(window', x, y) = Byte(window, x, y)
  <2>. SUFFICES ASSUME NEW x \in N
       PROVE  \A y \in 0 .. MAX_CODED - 1 : Byte(window', x, y) = Byte(window, x, y)
    OBVIOUS
  <2>1. x \in Indices /\ \A y \in 1 .. MAX_CODED + 1 : Behind(MAX_CODED)[y] # x
    BY <1>4, <1>5
  <2>. QED
    BY <1>3, <2>1, OthersKeepBytes
<1>7. \A i, j \in N : Before(window, i, j) => Before(window', i, j)
  <2>1. \A x \in 0 .. MAX_CODED - 1 : \A y \in 0 .. x - 1 : y \in 0 .. MAX_CODED - 1
    BY RingSizes
  <2>. QED
    BY <1>6, <2>1 DEF Before
<1>8. Sorted(tree, window', N, sub)
  <2>1. \A x \in N : Under(sub, LeftOf(tree, x)) \subseteq N /\ Under(sub, RightOf(tree, x)) \subseteq N
    BY <1>5 DEF Under
  <2>. HIDE DEF N
  <2>. QED
    BY <1>5, <1>7, <2>1 DEF Sorted
<1>9. OutFrom(k)'
  <2>1. Behind(MAX_CODED)' = Behind(MAX_CODED)
    BY <1>1, SameStrings
  <2>. QED
    BY <1>1, <1>4, <2>1 DEF OutFrom
<1>10. Phase(sub)'
  BY <1>1, <1>9, RingSizes DEF Phase
<1>. QED
  BY <1>1, <1>5, <1>8, <1>10 DEF TreeInv, SearchTree

(* A string with the new byte joins the tree.                                *)
LEMMA AddedPhase ==
  ASSUME NEW N, NEW M, NEW sub, SearchTree(tree', window, M, sub),
         ChainsInv, UNCHANGED <<windowHead, window>>,
         pc' = "add", k' = k + 1, k \in 1 .. MAX_CODED + 1,
         \A x \in 1 .. MAX_CODED + 1 : x >= k => Behind(MAX_CODED)[x] \notin N,
         M \subseteq N \cup {String}
  PROVE  TreeInv'
<1>1. Nodes(tree') = M
  BY NodesAre
<1>2. Behind(MAX_CODED)' = Behind(MAX_CODED)
  BY SameStrings
<1>3. \A x \in 1 .. MAX_CODED + 1 : x >= k + 1 => Behind(MAX_CODED)[x] \notin M
  <2>. SUFFICES ASSUME NEW x \in 1 .. MAX_CODED + 1, x >= k + 1
       PROVE  Behind(MAX_CODED)[x] \notin M
    OBVIOUS
  <2>1. x >= k /\ x # k
    BY RingSizes
  <2>2. Behind(MAX_CODED)[x] # Behind(MAX_CODED)[k] /\ String = Behind(MAX_CODED)[k]
    BY <2>1, StringIs
  <2>. QED
    BY <2>1, <2>2
<1>4. OutFrom(k)'
  BY <1>1, <1>2, <1>3 DEF OutFrom
<1>5. k' \in 1 .. MAX_CODED + 2
  BY RingSizes
<1>6. Phase(sub)'
  BY <1>4, <1>5 DEF Phase
<1>7. SearchTree(tree', window', Nodes(tree'), sub)
  BY <1>1
<1>. QED
  BY <1>6, <1>7 DEF TreeInv

(* What AddString compares.                                                  *)
LEMMA CompareOrders ==
  ASSUME ChainsInv, String \in Indices, NEW i \in Indices
  PROVE  /\ Compare(i) < 0 => Before(window, String, i)
         /\ Compare(i) # 0 /\ ~ (Compare(i) < 0) => Before(window, i, String)
         /\ Compare(i) = 0 => Same(window, String, i)
<1>1. window \in [Indices -> Chars]
  BY DEF ChainsInv
<1>. DEFINE c == Compare(i)
<1>2. /\ c \in Int
      /\ c < 0 <=> Before(window, String, i)
      /\ c > 0 <=> Before(window, i, String)
      /\ c = 0 <=> Same(window, String, i)
  BY <1>1, CompareIs DEF Compare
<1>. HIDE DEF c
<1>3. c # 0 /\ ~ (c < 0) => c > 0
  BY <1>2
<1>. QED
  BY <1>2, <1>3 DEF c

(* AddString puts the string in the place of an equal one.                   *)
LEMMA RenameKeeps ==
  ASSUME ChainsInv, TreeInv, method = "tree", ~ emptied, AddAtRoot \/ ReplaceNode
  PROVE  TreeInv'
<1>. DEFINE N == Nodes(tree)
            i == String
            h == IF pc = "add" THEN tree.root ELSE here
<1>1. /\ UNCHANGED <<windowHead, window, emptied>> /\ pc' = "add" /\ k' = k + 1
      /\ \/ pc = "add" /\ k <= MAX_CODED + 1 /\ tree' = Tree!NewRoot(i, tree)
         \/ pc = "descend" /\ tree' = Tree!Replaced(i, here, tree)
      /\ Compare(h) = 0
  BY DEF AddAtRoot, ReplaceNode, Adding, Hook, TreeStep
<1>2. PICK sub : SearchTree(tree, window, N, sub) /\ Phase(sub)
  BY DEF TreeInv
<1>3. /\ k \in 1 .. MAX_CODED + 1
      /\ \A x \in 1 .. MAX_CODED + 1 : x >= k => Behind(MAX_CODED)[x] \notin N
      /\ pc = "descend" => here \in N /\ Compare(tree.root) # 0
  BY <1>1, <1>2, RingSizes DEF Phase, OutFrom, BelongsHere
<1>4. i = Behind(MAX_CODED)[k] /\ i \in Indices /\ window \in [Indices -> Chars]
  BY <1>3, StringIs DEF ChainsInv
<1>5. i \in Indices \ N
  BY <1>3, <1>4
<1>6. tree.root \in N /\ N \subseteq Indices
  BY <1>2 DEF SearchTree, Nested
<1>7. h \in N
  BY <1>1, <1>3, <1>6
<1>8. Same(window, i, h)
  BY <1>1, <1>4, <1>6, <1>7, CompareOrders
<1>. HIDE DEF N, i
<1>9. Renamed(tree, tree', N, i, h)
  <2>1. CASE pc = "add"
    <3>1. Renamed(tree, Tree!NewRoot(i, tree), N, i, tree.root)
      BY <1>2, <1>4, <1>5, NewRootRenames
    <3>. QED
      BY <1>1, <2>1, <3>1
  <2>2. CASE pc = "descend"
    <3>1. here \in N /\ here # tree.root /\ h = here
      BY <1>1, <1>3, <2>2
    <3>2. Renamed(tree, Tree!Replaced(i, here, tree), N, i, here)
      BY <1>2, <1>4, <1>5, <3>1, ReplacedRenames
    <3>. QED
      BY <1>1, <2>2, <3>1, <3>2
  <2>. QED
    BY <1>1, <2>1, <2>2
<1>. HIDE DEF h
<1>. DEFINE M == (N \ {h}) \cup {i}
<1>10. PICK new : SearchTree(tree', window, M, new)
  BY <1>2, <1>4, <1>5, <1>7, <1>8, <1>9, OneRenamed
<1>11. M \subseteq N \cup {String}
  BY DEF i
<1>. HIDE DEF M
<1>. QED
  BY <1>1, <1>3, <1>10, <1>11, AddedPhase

(* The way down to the place of the string.                                  *)
LEMMA DescendKeeps ==
  ASSUME ChainsInv, TreeInv, method = "tree", ~ emptied, StartAtRoot \/ Descend
  PROVE  TreeInv'
<1>. DEFINE N == Nodes(tree)
<1>1. PICK sub : SearchTree(tree, window, N, sub) /\ Phase(sub)
  BY DEF TreeInv
<1>2. UNCHANGED <<windowHead, window, tree, k>> /\ pc' = "descend"
  <2>1. CASE StartAtRoot
    BY <2>1 DEF StartAtRoot, TreeStep
  <2>2. CASE Descend
    <3>1. pc = "descend"
      BY <2>2 DEF Descend
    <3>. QED
      BY <2>2, <3>1 DEF Descend, TreeStep
  <2>. QED
    BY <2>1, <2>2
<1>3. String' = String /\ Behind(MAX_CODED)' = Behind(MAX_CODED)
  BY <1>2, SameStrings
<1>4. /\ k \in 1 .. MAX_CODED + 2 /\ OutFrom(k) /\ k <= MAX_CODED + 1
      /\ Compare(tree.root) # 0
  BY <1>1 DEF Phase, StartAtRoot, Descend, Adding
<1>5. /\ Nested(tree, N, sub) /\ Split(tree, N, sub) /\ Sorted(tree, window, N, sub)
      /\ window \in [Indices -> Chars]
  BY <1>1, SortedSplit DEF SearchTree, ChainsInv
<1>6. /\ N \subseteq Indices /\ tree.root \in N /\ NIL \notin N
      /\ \A x \in N : /\ x \in sub[x]
                      /\ LeftOf(tree, x) \in N \cup {NIL} /\ RightOf(tree, x) \in N \cup {NIL}
                      /\ \A c \in {LeftOf(tree, x), RightOf(tree, x)} \ {NIL} : Up(tree, c) = x
  BY <1>5, TreeWindow DEF Nested
<1>7. String \in Indices
  BY <1>4, StringIs
<1>8. here' \in N /\ \A x \in N :
        /\ here' \in Under(sub, LeftOf(tree, x)) => Before(window, String, x)
        /\ here' \in Under(sub, RightOf(tree, x)) => Before(window, x, String)
  <2>1. CASE StartAtRoot
    <3>1. here' = tree.root
      BY <2>1 DEF StartAtRoot
    <3>2. ASSUME NEW x \in N, NEW c \in {LeftOf(tree, x), RightOf(tree, x)}, here' \in Under(sub, c)
          PROVE  FALSE
      <4>1. c \in N /\ tree.root \in sub[c]
        BY <1>6, <3>1, <3>2 DEF Under
      <4>2. tree.root # c
        BY <1>5, ParentIs
      <4>3. Up(tree, tree.root) \in N
        BY <1>5, <4>1, <4>2, ParentUnder
      <4>. QED
        BY <1>5, <4>3, TreeWindow DEF Nested
    <3>. QED
      BY <1>6, <3>1, <3>2
  <2>2. CASE Descend
    <3>. DEFINE r == here'
                c == Compare(here)
    <3>1. r = (IF c < 0 THEN LeftOf(tree, here) ELSE RightOf(tree, here)) /\ r # NIL /\ c # 0
      BY <2>2 DEF Descend, Below, Tree!Child, LeftOf, RightOf, NIL
    <3>2. /\ here \in N
          /\ \A x \in N :
               /\ here \in Under(sub, LeftOf(tree, x)) => Before(window, String, x)
               /\ here \in Under(sub, RightOf(tree, x)) => Before(window, x, String)
      BY <1>1, <2>2 DEF Phase, Descend, BelongsHere
    <3>3. /\ c < 0 => Before(window, String, here)
          /\ ~ (c < 0) => Before(window, here, String)
      BY <1>6, <1>7, <3>1, <3>2, CompareOrders
    <3>. DEFINE less == c < 0
    <3>4. /\ r = IF less THEN LeftOf(tree, here) ELSE RightOf(tree, here)
          /\ less => Before(window, String, here)
          /\ ~ less => Before(window, here, String)
      BY <3>1, <3>3
    <3>. HIDE DEF r, c, less
    <3>5. r \in N /\ Up(tree, r) = here /\ r \in sub[r]
      BY <1>6, <3>1, <3>2, <3>4
    <3>6. ASSUME NEW x \in N, x # here, NEW d \in {LeftOf(tree, x), RightOf(tree, x)}, r \in Under(sub, d)
          PROVE  here \in Under(sub, d)
      <4>1. d \in N /\ r \in sub[d] /\ d # NIL /\ Up(tree, d) = x
        BY <1>6, <3>6 DEF Under
      <4>2. r # d
        BY <3>5, <3>6, <4>1
      <4>. QED
        BY <1>5, <3>5, <4>1, <4>2, ParentUnder DEF Under
    <3>7. /\ r \in Under(sub, LeftOf(tree, here)) => less
          /\ r \in Under(sub, RightOf(tree, here)) => ~ less
      <4>1. r \in Under(sub, r)
        BY <1>6, <3>5 DEF Under
      <4>2. Under(sub, LeftOf(tree, here)) \cap Under(sub, RightOf(tree, here)) = {}
        BY <1>5, <3>2 DEF Split
      <4>. QED
        BY <3>4, <4>1, <4>2
    <3>8. \A x \in N : /\ r \in Under(sub, LeftOf(tree, x)) => Before(window, String, x)
                       /\ r \in Under(sub, RightOf(tree, x)) => Before(window, x, String)
      BY <3>2, <3>4, <3>6, <3>7
    <3>. QED
      BY <3>5, <3>8 DEF r
  <2>. QED
    BY <2>1, <2>2
<1>9. OutFrom(k)'
  BY <1>2, <1>3, <1>4 DEF OutFrom
<1>10. BelongsHere(sub)'
  BY <1>2, <1>3, <1>8 DEF BelongsHere
<1>11. (Compare(tree.root) # 0)'
  BY <1>2, <1>3, <1>4 DEF Compare
<1>12. Phase(sub)'
  BY <1>2, <1>4, <1>9, <1>10, <1>11 DEF Phase
<1>. QED
  BY <1>1, <1>2, <1>12 DEF TreeInv

(* The string is a new leaf.                                                 *)
LEMMA AttachKeeps ==
  ASSUME ChainsInv, TreeInv, method = "tree", ~ emptied, AttachString
  PROVE  TreeInv'
<1>. DEFINE N == Nodes(tree)
            i == String
            c == Compare(here)
<1>1. /\ UNCHANGED <<windowHead, window, emptied>> /\ pc = "descend" /\ pc' = "add" /\ k' = k + 1
      /\ c # 0 /\ Tree!Child(here, c, tree) = NIL
      /\ tree' = Tree!Attached(i, here, c, tree)
  BY DEF AttachString, Below, Hook, TreeStep, NIL
<1>2. PICK sub : SearchTree(tree, window, N, sub) /\ Phase(sub)
  BY DEF TreeInv
<1>3. /\ k \in 1 .. MAX_CODED + 1
      /\ \A x \in 1 .. MAX_CODED + 1 : x >= k => Behind(MAX_CODED)[x] \notin N
      /\ here \in N
      /\ \A x \in N : /\ here \in Under(sub, LeftOf(tree, x)) => Before(window, i, x)
                      /\ here \in Under(sub, RightOf(tree, x)) => Before(window, x, i)
  BY <1>1, <1>2, RingSizes DEF Phase, OutFrom, BelongsHere
<1>4. i = Behind(MAX_CODED)[k] /\ i \in Indices /\ window \in [Indices -> Chars]
  BY <1>3, StringIs DEF ChainsInv
<1>5. i \in Indices \ N /\ here \in Indices
  BY <1>3, <1>4 DEF Nodes
<1>6. /\ c < 0 => Before(window, i, here)
      /\ ~ (c < 0) => Before(window, here, i)
  BY <1>1, <1>4, <1>5, CompareOrders
<1>7. N \cup {i} \subseteq N \cup {String}
  OBVIOUS
<1>. HIDE DEF N, i, c
<1>. DEFINE M == N \cup {i}
            new == [x \in M |-> IF x = i THEN {i}
                                ELSE IF here \in sub[x] THEN sub[x] \cup {i} ELSE sub[x]]
<1>8. SearchTree(Tree!Attached(i, here, c, tree), window, M, new)
  BY <1>1, <1>2, <1>3, <1>4, <1>5, <1>6, OneAttached
<1>. HIDE DEF M, new
<1>9. M \subseteq N \cup {String}
  BY <1>7 DEF M
<1>. QED
  BY <1>1, <1>3, <1>8, <1>9, AddedPhase

(* FindMatch: the search begins at the root.                                 *)
LEMMA FindKeeps ==
  ASSUME ChainsInv, TreeInv, method = "tree", ~ emptied, FindInTree
  PROVE  TreeInv'
<1>. DEFINE N == Nodes(tree)
<1>1. PICK sub : SearchTree(tree, window, N, sub) /\ Phase(sub)
  BY DEF TreeInv
<1>2. /\ UNCHANGED <<window, tree, method>> /\ pc' = "search" /\ here' = tree.root
      /\ match' = Match(0, 0) /\ lookahead' \in Lookaheads /\ uncodedHead' \in 0 .. MAX_CODED - 1
  BY DEF FindInTree, Ask
<1>3. match' \in Answers /\ match'.length = 0 /\ match'.offset = 0
  BY <1>2, RingSizes DEF Match, Answers, Indices
<1>4. Asked'
  BY <1>2, <1>3 DEF Asked, SameBytes
<1>5. here' \in N /\ N \ Under(sub, here') = {}
  <2>1. tree.root \in N /\ sub[tree.root] = N /\ N \subseteq Indices
    BY <1>1 DEF SearchTree, Nested
  <2>. QED
    BY <1>2, <2>1, TreeWindow DEF Under
<1>6. Beaten(Nodes(tree) \ Under(sub, here))'
  BY <1>2, <1>5 DEF Beaten
<1>7. Phase(sub)'
  BY <1>2, <1>4, <1>5, <1>6 DEF Phase
<1>. QED
  BY <1>1, <1>2, <1>7 DEF TreeInv

(* What is left out at a node has no longer match.                           *)
LEMMA SearchKeeps ==
  ASSUME ChainsInv, TreeInv, method = "tree", ~ emptied, SearchNode
  PROVE  TreeInv'
<1>. DEFINE N == Nodes(tree)
            n == Common(window, lookahead, uncodedHead, here)
            C(x) == Common(window, lookahead, uncodedHead, x)
            c == window[Wrap(here + n, WINDOW_SIZE)] - lookahead[Wrap(uncodedHead + n, MAX_CODED)]
            best == IF n > match.length THEN Match(here, n) ELSE match
<1>1. PICK sub : SearchTree(tree, window, N, sub) /\ Phase(sub)
  BY DEF TreeInv
<1>2. /\ UNCHANGED <<window, tree, method, emptied, lookahead, uncodedHead>>
      /\ pc = "search" /\ here # NIL
      /\ match' = best
      /\ IF n = MAX_CODED THEN pc' = "found" /\ here' = here
         ELSE pc' = "search" /\ here' = Tree!Child(here, - c, tree)
  <2>1. UNCHANGED <<window, tree, method, emptied, lookahead, uncodedHead>> /\ pc = "search" /\ here # NIL
    BY DEF SearchNode, NIL
  <2>2. CommonLength(here) = n
    BY <2>1 DEF CommonLength, Common
  <2>. QED
    BY <2>1, <2>2 DEF SearchNode, Longer
<1>3. /\ Asked /\ here \in N /\ Beaten(N \ Under(sub, here))
  BY <1>1, <1>2 DEF Phase
<1>4. /\ Nested(tree, N, sub) /\ Sorted(tree, window, N, sub) /\ window \in [Indices -> Chars]
  BY <1>1 DEF SearchTree, ChainsInv
<1>5. /\ N \subseteq Indices
      /\ \A x \in N : /\ LeftOf(tree, x) \in N \cup {NIL} /\ RightOf(tree, x) \in N \cup {NIL}
                      /\ sub[x] = {x} \cup Under(sub, LeftOf(tree, x)) \cup Under(sub, RightOf(tree, x))
                      /\ sub[x] \subseteq N
  BY <1>4 DEF Nested
<1>6. /\ n \in 0 .. MAX_CODED /\ SameBytes(window, here, lookahead, uncodedHead, n)
      /\ \A x : C(x) \in 0 .. MAX_CODED
      /\ MAX_CODED \in Nat /\ match \in Answers /\ match.length \in 0 .. MAX_CODED
      /\ here \in Indices
  BY <1>3, <1>5, CommonIs, RingSizes DEF Asked, Answers
<1>7. /\ best \in Answers /\ best.length \in 0 .. MAX_CODED
      /\ best.length >= n /\ best.length >= match.length
      /\ SameBytes(window, best.offset, lookahead, uncodedHead, best.length)
      /\ best.length = 0 \/ best.offset \in N
  <2>1. CASE n > match.length
    <3>1. best = Match(here, n)
      BY <2>1
    <3>2. Match(here, n) \in Answers /\ Match(here, n).offset = here /\ Match(here, n).length = n
      BY <1>6 DEF Match, Answers
    <3>. QED
      BY <1>3, <1>6, <2>1, <3>1, <3>2
  <2>2. CASE ~ (n > match.length)
    <3>1. best = match
      BY <2>2
    <3>. QED
      BY <1>3, <1>6, <2>2, <3>1 DEF Asked
  <2>. QED
    BY <2>1, <2>2
<1>. HIDE DEF best
<1>8. Asked'
  BY <1>2, <1>3, <1>7 DEF Asked
<1>9. \A x \in N \ Under(sub, here) : C(x) <= best.length
  BY <1>3, <1>6, <1>7 DEF Beaten
<1>10. here # NIL /\ Under(sub, here) = sub[here]
  BY <1>2 DEF Under
<1>11. CASE n = MAX_CODED
  <2>1. \A x \in N : C(x) <= best.length
    BY <1>6, <1>7, <1>11
  <2>2. Beaten(Nodes(tree))'
    BY <1>2, <2>1 DEF Beaten
  <2>3. Phase(sub)'
    BY <1>2, <1>8, <1>11, <2>2 DEF Phase
  <2>. QED
    BY <1>1, <1>2, <2>3 DEF TreeInv
<1>12. CASE n # MAX_CODED
  <2>. DEFINE l == LeftOf(tree, here)
              r == RightOf(tree, here)
              down == here'
              greater == c > 0
  <2>1. down = IF greater THEN l ELSE r
    <3>1. c \in Int
      <4>1. n \in 0 .. MAX_CODED - 1 /\ n \in 0 .. WINDOW_SIZE
        BY <1>6, <1>12, RingSizes
      <4>2. Wrap(here + n, WINDOW_SIZE) \in Indices
        BY <1>6, <4>1, WrapInside
      <4>3. Wrap(uncodedHead + n, MAX_CODED) \in 0 .. MAX_CODED - 1
        BY <1>3, <4>1, RingSizes DEF Asked, Wrap
      <4>4. window[Wrap(here + n, WINDOW_SIZE)] \in Chars
            /\ lookahead[Wrap(uncodedHead + n, MAX_CODED)] \in Chars
        BY <1>3, <1>4, <4>2, <4>3 DEF Asked, Lookaheads
      <4>5. \A a, b \in Chars : a - b \in Int
        BY MatchersAssumption
      <4>. HIDE DEF n
      <4>. DEFINE a == window[Wrap(here + n, WINDOW_SIZE)]
                  b == lookahead[Wrap(uncodedHead + n, MAX_CODED)]
      <4>6. a \in Chars /\ b \in Chars /\ c = a - b
        BY <4>4
      <4>. HIDE DEF a, b, c
      <4>. QED
        BY <4>5, <4>6
    <3>2. down = IF - c < 0 THEN l ELSE r
      BY <1>2, <1>12 DEF Tree!Child, LeftOf, RightOf
    <3>. HIDE DEF c, down, l, r
    <3>3. - c < 0 <=> c > 0
      BY <3>1
    <3>. QED
      BY <3>2, <3>3
  <2>2. l \in N \cup {NIL} /\ r \in N \cup {NIL}
        /\ sub[here] = {here} \cup Under(sub, l) \cup Under(sub, r)
    BY <1>3, <1>5
  <2>3. /\ \A j \in Under(sub, l) : Before(window, j, here)
        /\ \A j \in Under(sub, r) : Before(window, here, j)
        /\ Under(sub, l) \subseteq N /\ Under(sub, r) \subseteq N
    <3>1. /\ \A j \in Under(sub, l) : Before(window, j, here)
          /\ \A j \in Under(sub, r) : Before(window, here, j)
      BY <1>3, <1>4 DEF Sorted
    <3>. QED
      BY <1>3, <1>5, <2>2, <3>1
  <2>4. ASSUME NEW j \in Under(sub, IF greater THEN r ELSE l)
        PROVE  C(j) <= n
    <3>1. j \in Indices /\ n < MAX_CODED
      BY <1>5, <1>6, <1>12, <2>3, <2>4
    <3>2. \/ c > 0 /\ Before(window, here, j)
          \/ ~ (c > 0) /\ Before(window, j, here)
      <4>. HIDE DEF c
      <4>. QED
        BY <2>3, <2>4
    <3>3. lookahead \in Lookaheads /\ uncodedHead \in 0 .. MAX_CODED - 1
      BY <1>3 DEF Asked
    <3>. HIDE DEF n
    <3>4. n = Common(window, lookahead, uncodedHead, here)
      BY DEF n
    <3>. QED
      BY <1>4, <1>6, <3>1, <3>2, <3>3, <3>4, OtherSide
  <2>. HIDE DEF l, r, down, greater
  <2>5. \A x \in N \ Under(sub, down) : C(x) <= best.length
    <3>. SUFFICES ASSUME NEW x \in N, x \notin Under(sub, down) PROVE C(x) <= best.length
      OBVIOUS
    <3>1. x \notin sub[here] => C(x) <= best.length
      BY <1>9, <1>10
    <3>2. x = here => C(x) <= best.length
      BY <1>7
    <3>3. x \in sub[here] /\ x # here => C(x) <= n
      BY <2>1, <2>2, <2>4
    <3>. HIDE DEF C, n
    <3>4. C(x) \in 0 .. MAX_CODED /\ n \in 0 .. MAX_CODED
      BY <1>6
    <3>. QED
      BY <1>6, <1>7, <3>1, <3>2, <3>3, <3>4
  <2>6. pc' = "search" /\ down \in N \cup {NIL}
    BY <1>2, <1>12, <2>1, <2>2
  <2>7. Beaten(Nodes(tree) \ Under(sub, here))'
    BY <1>2, <2>5 DEF Beaten, down
  <2>8. Phase(sub)'
    BY <1>2, <1>8, <2>6, <2>7 DEF Phase, down
  <2>. QED
    BY <1>1, <1>2, <2>8 DEF TreeInv
<1>. QED
  BY <1>11, <1>12

(* The calls that change neither the tree nor the match.                     *)
LEMMA OthersKeep ==
  ASSUME ChainsInv, TreeInv, method = "tree", ~ emptied,
         \/ EndOfSearch \/ Return \/ EndOfReplacing
         \/ \E c \in Chars : ReplaceInTree(c)
  PROVE  TreeInv'
<1>1. PICK sub : SearchTree(tree, window, Nodes(tree), sub) /\ Phase(sub)
  BY DEF TreeInv
<1>2. CASE EndOfSearch
  <2>1. /\ UNCHANGED <<window, tree, lookahead, uncodedHead, match>>
        /\ pc = "search" /\ pc' = "found" /\ here = NIL
    BY <1>2 DEF EndOfSearch, query, NIL
  <2>2. Asked /\ Beaten(Nodes(tree))
    BY <1>1, <2>1 DEF Phase, Under, Beaten
  <2>3. Asked' /\ Beaten(Nodes(tree))'
    BY <2>1, <2>2 DEF Asked, Beaten
  <2>4. Phase(sub)'
    BY <2>1, <2>3 DEF Phase
  <2>. QED
    BY <1>1, <2>1, <2>4 DEF TreeInv
<1>3. CASE Return \/ EndOfReplacing
  <2>1. UNCHANGED <<window, tree>> /\ pc' = "ready"
    BY <1>3 DEF Return, EndOfReplacing
  <2>2. Phase(sub)'
    BY <2>1 DEF Phase
  <2>. QED
    BY <1>1, <2>1, <2>2 DEF TreeInv
<1>4. ASSUME NEW c \in Chars, ReplaceInTree(c) PROVE TreeInv'
  <2>1. UNCHANGED <<window, tree>> /\ pc' = "remove" /\ k' = 1
    BY <1>4 DEF ReplaceInTree
  <2>2. OutBefore(k)'
    BY <2>1 DEF OutBefore
  <2>3. Phase(sub)'
    BY <2>1, <2>2, RingSizes DEF Phase
  <2>. QED
    BY <1>1, <2>1, <2>3 DEF TreeInv
<1>. QED
  BY <1>2, <1>3, <1>4

(* No step of tree.cpp breaks it.                                            *)
LEMMA TreeInvStep == ChainsInv /\ TreeInv /\ [Next]_vars => TreeInv'
<1>. SUFFICES ASSUME ChainsInv, TreeInv, [Next]_vars, method' = "tree", ~ emptied' PROVE TreeInv'
  BY DEF TreeInv
<1>1. CASE UNCHANGED vars
  <2>1. UNCHANGED <<method, window, windowHead, tree, lookahead, uncodedHead, match, pc, k, here, emptied>>
    BY <1>1 DEF vars, query, work
  <2>2. String' = String /\ Behind(MAX_CODED)' = Behind(MAX_CODED)
    BY <2>1, SameStrings
  <2>3. PICK sub : SearchTree(tree, window, Nodes(tree), sub) /\ Phase(sub)
    BY <2>1 DEF TreeInv
  <2>4. /\ Asked => Asked'
        /\ Beaten(Nodes(tree)) => Beaten(Nodes(tree))'
        /\ Beaten(Nodes(tree) \ Under(sub, here)) => Beaten(Nodes(tree) \ Under(sub, here))'
    BY <2>1 DEF Asked, Beaten
  <2>5. /\ OutBefore(k) => OutBefore(k)'
        /\ OutFrom(k) => OutFrom(k)'
        /\ OnTheRight(sub) => OnTheRight(sub)'
        /\ BelongsHere(sub) => BelongsHere(sub)'
        /\ Compare(tree.root)' = Compare(tree.root)
    BY <2>1, <2>2 DEF OutBefore, OutFrom, OnTheRight, BelongsHere, Compare
  <2>6. Phase(sub)'
    BY <2>1, <2>3, <2>4, <2>5 DEF Phase
  <2>. QED
    BY <2>1, <2>3, <2>6 DEF TreeInv
<1>2. CASE Next
  <2>1. method = "tree"
    BY <1>2 DEF Next, Search, Replace, TreeRemoves, TreeAdds, FindMatch, FindInTree, SearchNode,
                EndOfSearch, Return, ReplaceChar, ReplaceInTree, SkipString, RemoveString,
                LookForRightmost, GoRight, Promote, StoreByte, AddAtRoot, StartAtRoot, Descend,
                AttachString, ReplaceNode, EndOfReplacing, Unhook, Hook, TreeStep
  <2>2. ~ emptied
    BY <1>2 DEF Next, Search, Replace, TreeRemoves, TreeAdds, FindMatch, FindInTree, SearchNode,
                EndOfSearch, Return, ReplaceChar, ReplaceInTree, SkipString, RemoveString,
                LookForRightmost, GoRight, Promote, StoreByte, AddAtRoot, StartAtRoot, Descend,
                AttachString, ReplaceNode, EndOfReplacing, Unhook, Hook, TreeStep
  <2>3. ~ FindMatch /\ \A c \in Chars : ~ ReplaceChar(c)
    BY <2>1 DEF FindMatch, ReplaceChar
  <2>4. CASE FindInTree
    BY <2>1, <2>2, <2>4, FindKeeps
  <2>5. CASE SearchNode
    BY <2>1, <2>2, <2>5, SearchKeeps
  <2>6. CASE EndOfSearch \/ Return \/ EndOfReplacing \/ \E c \in Chars : ReplaceInTree(c)
    BY <2>1, <2>2, <2>6, OthersKeep
  <2>7. CASE SkipString \/ RemoveString
    BY <2>1, <2>7, SkipKeeps
  <2>8. CASE LookForRightmost \/ GoRight
    BY <2>1, <2>2, <2>8, RightmostKeeps
  <2>9. CASE Promote
    BY <2>1, <2>9, PromoteKeeps
  <2>10. CASE StoreByte
    BY <2>1, <2>2, <2>10, StoreKeeps
  <2>11. CASE AddAtRoot \/ ReplaceNode
    BY <2>1, <2>2, <2>11, RenameKeeps
  <2>12. CASE StartAtRoot \/ Descend
    BY <2>1, <2>2, <2>12, DescendKeeps
  <2>13. CASE AttachString
    BY <2>1, <2>2, <2>13, AttachKeeps
  <2>. QED
    BY <1>2, <2>3, <2>4, <2>5, <2>6, <2>7, <2>8, <2>9, <2>10, <2>11, <2>12, <2>13
       DEF Next, Search, Replace, TreeRemoves, TreeAdds
<1>. QED
  BY <1>1, <1>2

(* It holds in the beginning.                                                *)
LEMMA TreeInvInit == Init => TreeInv
<1>. SUFFICES ASSUME Init, method = "tree" PROVE TreeInv
  BY DEF TreeInv
<1>1. tree = Tree!RootOnly /\ pc = "ready"
  BY DEF Init
<1>2. PICK sub : SearchTree(tree, window, Nodes(tree), sub)
  BY <1>1, RootOnlyIs
<1>3. Phase(sub)
  BY <1>1 DEF Phase
<1>. QED
  BY <1>2, <1>3 DEF TreeInv

(* What the tree promises, and what its search finds.                        *)
LEMMA TreeInvImplies ==
  ASSUME ChainsInv, TreeInv
  PROVE  TreeIsSearchTree /\ (method = "tree" => FindsLongest)
<1>1. ASSUME method = "tree", ~ emptied
      PROVE  {i \in Indices : InTree(i)} = Nodes(tree)
  BY DEF InTree, Nodes, Up, NIL
<1>2. TreeIsSearchTree
  <2>. SUFFICES ASSUME method = "tree", ~ emptied PROVE TreeIsSearchTree
    BY DEF TreeIsSearchTree
  <2>. DEFINE N == Nodes(tree)
  <2>1. PICK sub : SearchTree(tree, window, N, sub)
    BY DEF TreeInv
  <2>2. window \in [Indices -> Chars]
    BY DEF ChainsInv
  <2>3. \A c \in N \cup {NIL} : Subtree(c) = Under(sub, c)
    BY <2>1, <2>2, SubtreeIs
  <2>4. Nested(tree, N, sub) /\ Sorted(tree, window, N, sub)
    BY <2>1 DEF SearchTree
  <2>5. N = Subtree(tree.root)
    <3>1. tree.root \in N /\ sub[tree.root] = N /\ N \subseteq Indices
      BY <2>4 DEF Nested
    <3>. QED
      BY <2>3, <3>1, TreeWindow DEF Under
  <2>6. ASSUME NEW i \in N
        PROVE  LET left == tree.node[i].leftChild
                   right == tree.node[i].rightChild
               IN /\ \A c \in {left, right} \ {Tree!NULL_INDEX} : tree.node[c].parent = i
                  /\ \A j \in Subtree(left) : Tree!CompareString(window, j, i) < 0
                  /\ \A j \in Subtree(right) : Tree!CompareString(window, i, j) < 0
    <3>. DEFINE left == LeftOf(tree, i)
                right == RightOf(tree, i)
    <3>1. /\ left \in N \cup {NIL} /\ right \in N \cup {NIL} /\ N \subseteq Indices
          /\ \A c \in {left, right} \ {NIL} : Up(tree, c) = i
          /\ sub \in [N -> SUBSET N]
      BY <2>4 DEF Nested
    <3>2. /\ \A j \in Under(sub, left) : Before(window, j, i)
          /\ \A j \in Under(sub, right) : Before(window, i, j)
      BY <2>4 DEF Sorted
    <3>3. Under(sub, left) \subseteq Indices /\ Under(sub, right) \subseteq Indices
      BY <3>1 DEF Under
    <3>4. Subtree(left) = Under(sub, left) /\ Subtree(right) = Under(sub, right)
      BY <2>3, <3>1
    <3>. HIDE DEF N
    <3>5. i \in Indices
      BY <2>6, <3>1
    <3>6. /\ \A j \in Subtree(left) : Tree!CompareString(window, j, i) < 0
          /\ \A j \in Subtree(right) : Tree!CompareString(window, i, j) < 0
      BY <2>2, <3>2, <3>3, <3>4, <3>5, CompareIs
    <3>. QED
      BY <3>1, <3>6 DEF LeftOf, RightOf, Up, NIL
  <2>. QED
    BY <1>1, <2>5, <2>6 DEF TreeIsSearchTree
<1>3. ASSUME method = "tree" PROVE FindsLongest
  <2>. SUFFICES ASSUME pc = "found", ~ emptied PROVE FindsLongest
    BY DEF FindsLongest
  <2>. DEFINE N == Nodes(tree)
              T == {n \in 0 .. MAX_CODED : n = 0 \/
                      \E i \in N : SameBytes(window, i, lookahead, uncodedHead, n)}
  <2>1. Asked /\ Beaten(N)
    BY <1>3 DEF TreeInv, Phase
  <2>2. MAX_CODED \in Nat /\ T \in SUBSET (0 .. MAX_CODED) /\ 0 \in T
    BY RingSizes
  <2>3. Max(T) \in T /\ \A x \in T : x <= Max(T)
    BY <2>2, MaxIn
  <2>4. match.length \in 0 .. MAX_CODED /\ match.length \in T
    BY <2>1 DEF Asked, Answers
  <2>5. ASSUME NEW n \in T PROVE n <= match.length
    <3>1. CASE n = 0
      BY <2>4, <3>1
    <3>2. ASSUME NEW i \in N, SameBytes(window, i, lookahead, uncodedHead, n)
          PROVE  n <= match.length
      <4>1. /\ Common(window, lookahead, uncodedHead, i) \in 0 .. MAX_CODED
            /\ n <= Common(window, lookahead, uncodedHead, i)
        BY <2>2, <3>2, CommonIs
      <4>2. Common(window, lookahead, uncodedHead, i) <= match.length
        BY <2>1 DEF Beaten
      <4>. QED
        BY <2>2, <2>4, <4>1, <4>2
    <3>. QED
      BY <3>1, <3>2
  <2>6. match.length = Max(T)
    <3>. HIDE DEF T
    <3>1. match.length <= Max(T) /\ Max(T) <= match.length /\ Max(T) \in 0 .. MAX_CODED
      BY <2>2, <2>3, <2>4, <2>5
    <3>. QED
      BY <2>2, <2>4, <3>1
  <2>7. IsMatch
    BY <2>1 DEF IsMatch, Asked
  <2>. QED
    BY <1>1, <1>3, <2>6, <2>7 DEF FindsLongest
<1>. QED
  BY <1>2, <1>3

(* The tree of tree.cpp is a search tree between the calls: all its nodes    *)
(* are under the root and known to their parents, with the smaller strings   *)
(* of the window as it is now on the left and the greater ones on the right. *)
(* For all sizes and all bytes.                                              *)
THEOREM TreeStaysSorted == Spec => []TreeIsSearchTree
<1>1. Init => ChainsInv /\ TreeInv
  BY ChainsInvInit, TreeInvInit
<1>2. (ChainsInv /\ TreeInv) /\ [Next]_vars => (ChainsInv /\ TreeInv)'
  BY ChainsInvStep, TreeInvStep
<1>3. ChainsInv /\ TreeInv => TreeIsSearchTree
  BY TreeInvImplies
<1>. QED
  BY <1>1, <1>2, <1>3, PTL DEF Spec

(* All five matchers find the longest match, or one that is too short to be  *)
(* encoded if all are: brute.cpp, list.cpp and hash.cpp always, kmp.cpp      *)
(* where it wraps no index twice, tree.cpp among the strings in its tree     *)
(* as long as that has a node.  For all sizes and all bytes.                 *)
THEOREM LongestIsFound == Spec => []FindsLongest
<1>1. Init => ChainsInv /\ FoundInv /\ TreeInv
  BY ChainsInvInit, TreeInvInit DEF Init, FoundInv
<1>2. (ChainsInv /\ FoundInv /\ TreeInv) /\ [Next]_vars => (ChainsInv /\ FoundInv /\ TreeInv)'
  BY ChainsInvStep, FoundStep, TreeInvStep
<1>3. ChainsInv /\ FoundInv /\ TreeInv => FindsLongest
  <2>. SUFFICES ASSUME ChainsInv, FoundInv, TreeInv PROVE FindsLongest
    OBVIOUS
  <2>1. CASE method = "tree"
    BY <2>1, TreeInvImplies
  <2>2. CASE method # "tree"
    <3>. SUFFICES ASSUME pc = "found" PROVE FindsLongest
      BY DEF FindsLongest
    <3>1. (IF method = "tree" THEN {i \in Indices : InTree(i)} ELSE Indices) = Indices
      BY <2>2
    <3>2. ~ OnceAround(windowHead) => windowHead + WINDOW_SIZE + MAX_CODED - 2 >= 2 * WINDOW_SIZE
      BY RingSizes DEF ChainsInv, OnceAround, Indices
    <3>. QED
      BY <2>2, <3>1, <3>2 DEF FindsLongest, FoundInv, Answered, Longest, IsMatch
  <2>. QED
    BY <2>1, <2>2
<1>. QED
  BY <1>1, <1>2, <1>3, PTL DEF Spec
================================================================================
