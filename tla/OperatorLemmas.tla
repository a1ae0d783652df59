---------------------------- MODULE OperatorLemmas ----------------------------
(***************************************************************************)
(* What the operators return that the models are built from: those of the  *)
(* library on sequences, sets and functions, as far as its own theorem     *)
(* modules do not say it, the cuts of Partition and the bits and bytes of  *)
(* Bitstream.                                                              *)
(***************************************************************************)
EXTENDS Bitstream, SequencesExt, SequenceTheorems, FiniteSetTheorems,
        WellFoundedInduction, TLAPS

-----------------------------------------------------------------------------
(* The sequence operators that the model uses. *)

(* The last element of a sequence and what is left without it.               *)
LEMMA LastFront ==
  ASSUME NEW S, NEW s \in Seq(S), s # << >>
  PROVE  /\ Len(s) \in Nat \ {0}
         /\ Last(s) \in S /\ Last(s) = s[Len(s)]
         /\ Front(s) \in Seq(S) /\ Len(Front(s)) = Len(s) - 1
         /\ \A x \in 1 .. Len(s) - 1 : Front(s)[x] = s[x]
<1>1. Len(s) \in Nat \ {0}
  BY EmptySeq
<1>2. Last(s) = s[Len(s)] /\ Front(s) = SubSeq(s, 1, Len(s) - 1)
  BY DEF Last, Front
<1>3. \A x \in 1 .. Len(s) : s[x] \in S
  OBVIOUS
<1>4. \A x \in 1 .. Len(s) - 1 : s[x] \in S
  BY <1>1, <1>3
<1>5. Last(s) \in S
  BY <1>1, <1>2, <1>3
<1>6. /\ Front(s) \in Seq(S) /\ Len(Front(s)) = Len(s) - 1
      /\ \A x \in 1 .. Len(s) - 1 : Front(s)[x] = s[x]
  <2>. DEFINE f == SubSeq(s, 1, Len(s) - 1)
  <2>1. /\ f \in Seq(S)
        /\ Len(f) = IF 1 <= Len(s) - 1 THEN Len(s) - 1 - 1 + 1 ELSE 0
        /\ \A x \in 1 .. Len(s) - 1 - 1 + 1 : f[x] = s[1 + x - 1]
    BY <1>1, <1>4, SubSeqProperties
  <2>2. Front(s) = f
    BY <1>2
  <2>. HIDE DEF f
  <2>. QED
    BY <1>1, <2>1, <2>2
<1>. QED
  BY <1>1, <1>2, <1>5, <1>6

(* A set of natural numbers that is not empty holds its minimum. *)
LEMMA LeastElement ==
  ASSUME NEW T \in SUBSET Nat, T # {}
  PROVE  Min(T) \in T /\ \A y \in T : Min(T) <= y
<1>1. \E x \in T : \A y \in T : ~ (<<y, x>> \in OpToRel(<, Nat))
  BY WFMin, NatLessThanWellFounded
<1>2. \E x \in T : \A y \in T : ~ (y < x)
  BY <1>1 DEF OpToRel
<1>3. \E x \in T : \A y \in T : x <= y
  BY <1>2
<1>. QED
  BY <1>3 DEF Min

(* RemoveFirst takes out one element that equals e.                          *)
LEMMA RemoveFirstProperties ==
  ASSUME NEW S, NEW s \in Seq(S), NEW e, Contains(s, e)
  PROVE  \E i \in 1 .. Len(s) :
           /\ s[i] = e
           /\ RemoveFirst(s, e) \in Seq(S)
           /\ Len(RemoveFirst(s, e)) = Len(s) - 1
           /\ \A x \in 1 .. Len(s) - 1 :
                RemoveFirst(s, e)[x] = IF x < i THEN s[x] ELSE s[x + 1]
<1>. DEFINE places == {x \in 1 .. Len(s) : s[x] = e}
            i == Min(places)
<1>1. i \in 1 .. Len(s) /\ s[i] = e
  <2>1. places # {} /\ places \subseteq Nat
    BY DEF Contains
  <2>. QED
    BY <2>1, LeastElement
<1>2. RemoveFirst(s, e) = SubSeq(s, 1, i - 1) \o SubSeq(s, i + 1, Len(s))
  BY DEF RemoveFirst, RemoveAt, SelectInSeq, Contains
<1>. HIDE DEF i
<1>3. /\ SubSeq(s, 1, i - 1) \in Seq(S) /\ SubSeq(s, i + 1, Len(s)) \in Seq(S)
      /\ Len(SubSeq(s, 1, i - 1)) = i - 1 /\ Len(SubSeq(s, i + 1, Len(s))) = Len(s) - i
      /\ \A x \in 1 .. i - 1 : SubSeq(s, 1, i - 1)[x] = s[x]
      /\ \A x \in 1 .. Len(s) - i : SubSeq(s, i + 1, Len(s))[x] = s[i + x]
  BY <1>1
<1>4. /\ RemoveFirst(s, e) \in Seq(S)
      /\ Len(RemoveFirst(s, e)) = Len(s) - 1
      /\ \A x \in 1 .. Len(s) - 1 :
           RemoveFirst(s, e)[x] = IF x < i THEN s[x] ELSE s[x + 1]
  <2>. DEFINE a == SubSeq(s, 1, i - 1)
              b == SubSeq(s, i + 1, Len(s))
  <2>1. /\ a \in Seq(S) /\ b \in Seq(S) /\ Len(a) = i - 1 /\ Len(b) = Len(s) - i
        /\ \A x \in 1 .. i - 1 : a[x] = s[x]
        /\ \A x \in 1 .. Len(s) - i : b[x] = s[i + x]
    BY <1>3
  <2>2. RemoveFirst(s, e) = a \o b
    BY <1>2
  <2>. HIDE DEF a, b
  <2>3. /\ a \o b \in Seq(S)
        /\ Len(a \o b) = Len(a) + Len(b)
        /\ \A x \in 1 .. Len(a) + Len(b) :
             (a \o b)[x] = IF x <= Len(a) THEN a[x] ELSE b[x - Len(a)]
    BY <2>1, ConcatProperties
  <2>. QED
    BY <1>1, <2>1, <2>2, <2>3
<1>. QED
  BY <1>1, <1>4

(* A sequence turned round has the same length and its elements in the order *)
(* from the last to the first.                                               *)
LEMMA ReverseProperties ==
  ASSUME NEW S, NEW s \in Seq(S)
  PROVE  /\ Reverse(s) \in Seq(S) /\ Len(Reverse(s)) = Len(s)
         /\ \A x \in 1 .. Len(s) : Reverse(s)[x] = s[Len(s) - x + 1]
<1>. DEFINE r == [x \in 1 .. Len(s) |-> s[(Len(s) - x) + 1]]
<1>1. Reverse(s) = r
  BY DEF Reverse
<1>2. Len(s) \in Nat
  OBVIOUS
<1>3. r \in [1 .. Len(s) -> S]
  <2>1. \A x \in 1 .. Len(s) : (Len(s) - x) + 1 \in 1 .. Len(s)
    BY <1>2
  <2>. QED
    BY <2>1
<1>4. r \in Seq(S) /\ Len(r) = Len(s)
  BY <1>2, <1>3
<1>. QED
  BY <1>1, <1>4

(* What was first is last when a sequence is turned round.                   *)
LEMMA ReverseCons ==
  ASSUME NEW S, NEW s \in Seq(S), NEW b \in S
  PROVE  Reverse(<< b >> \o s) = Append(Reverse(s), b)
<1>. DEFINE t == << b >> \o s
            l == Reverse(t)
            r == Append(Reverse(s), b)
<1>1. /\ t \in Seq(S) /\ Len(t) = Len(s) + 1 /\ t[1] = b
      /\ \A x \in 2 .. Len(s) + 1 : t[x] = s[x - 1]
  OBVIOUS
<1>2. /\ Reverse(s) \in Seq(S) /\ Len(Reverse(s)) = Len(s)
      /\ \A x \in 1 .. Len(s) : Reverse(s)[x] = s[Len(s) - x + 1]
  BY ReverseProperties
<1>. HIDE DEF t
<1>3. /\ l \in Seq(S) /\ Len(l) = Len(t)
      /\ \A x \in 1 .. Len(t) : l[x] = t[Len(t) - x + 1]
  BY <1>1, ReverseProperties
<1>4. /\ r \in Seq(S) /\ Len(r) = Len(s) + 1 /\ r[Len(s) + 1] = b
      /\ \A x \in 1 .. Len(s) : r[x] = Reverse(s)[x]
  <2>. DEFINE q == Reverse(s)
  <2>. HIDE DEF q
  <2>1. /\ Append(q, b) \in Seq(S) /\ Len(Append(q, b)) = Len(q) + 1
        /\ \A x \in 1 .. Len(q) : Append(q, b)[x] = q[x]
        /\ Append(q, b)[Len(q) + 1] = b
    BY <1>2, AppendProperties DEF q
  <2>. QED
    BY <1>2, <2>1 DEF q
<1>. HIDE DEF l, r
<1>5. ASSUME NEW x \in 1 .. Len(l) PROVE l[x] = r[x]
  <2>0. Len(s) \in Nat /\ x \in 1 .. Len(s) + 1 /\ l[x] = t[Len(s) + 1 - x + 1]
    BY <1>1, <1>3
  <2>1. CASE x = Len(s) + 1
    BY <1>1, <1>4, <2>0, <2>1
  <2>2. CASE x # Len(s) + 1
    <3>1. x \in 1 .. Len(s) /\ Len(s) + 1 - x + 1 \in 2 .. Len(s) + 1
      BY <2>0, <2>2
    <3>2. Len(s) + 1 - x + 1 - 1 = Len(s) - x + 1
      BY <2>0
    <3>3. l[x] = s[Len(s) - x + 1]
      BY <1>1, <2>0, <3>1, <3>2
    <3>4. r[x] = s[Len(s) - x + 1]
      BY <1>2, <1>4, <3>1
    <3>. QED
      BY <3>3, <3>4
  <2>. QED
    BY <2>1, <2>2
<1>6. l = r
  BY <1>1, <1>3, <1>4, <1>5, SeqEqual
<1>. QED
  BY <1>6 DEF l, r, t

(* A prefix agrees with the longer sequence at each of its places.           *)
LEMMA PrefixAgrees ==
  ASSUME NEW S, NEW s \in Seq(S), NEW t \in Seq(S), IsPrefix(s, t)
  PROVE  Len(s) <= Len(t) /\ \A x \in 1 .. Len(s) : s[x] = t[x]
<1>1. Len(s) <= Len(t) /\ SubSeq(s, 1, Len(s)) = SubSeq(t, 1, Len(s))
  BY DEF IsPrefix
<1>2. ASSUME NEW x \in 1 .. Len(s) PROVE s[x] = t[x]
  <2>1. SubSeq(s, 1, Len(s))[x] = s[x]
    OBVIOUS
  <2>2. SubSeq(t, 1, Len(s))[x] = t[x]
    BY <1>1
  <2>. QED
    BY <1>1, <2>1, <2>2
<1>. QED
  BY <1>1, <1>2

-----------------------------------------------------------------------------
(* A function has no more values than arguments.                             *)
LEMMA ImageSize ==
  ASSUME NEW S, IsFiniteSet(S), NEW f
  PROVE  /\ IsFiniteSet({f[x] : x \in S})
         /\ Cardinality({f[x] : x \in S}) <= Cardinality(S)
<1>. DEFINE T == {f[x] : x \in S}
<1>1. [x \in S |-> f[x]] \in Surjection(S, T)
  BY DEF Surjection
<1>. HIDE DEF T
<1>2. IsFiniteSet(T) /\ Cardinality(T) <= Cardinality(S)
  BY <1>1, FS_Surjection
<1>. QED
  BY <1>2 DEF T

-----------------------------------------------------------------------------
(* Sums over finite sets. *)

(* A set of numbers that holds 0 and each successor holds all numbers.       *)
LEMMA AllNumbers ==
  ASSUME NEW T, 0 \in T, \A k \in Nat : k \in T => k + 1 \in T
  PROVE  \A k \in Nat : k \in T
<1>. DEFINE U == Nat \ T
            m == Min(U)
<1>. SUFFICES ASSUME U # {} PROVE FALSE
  OBVIOUS
<1>1. U \in SUBSET Nat
  OBVIOUS
<1>2. m \in U /\ \A y \in U : m <= y
  BY <1>1, LeastElement
<1>. HIDE DEF m
<1>3. m - 1 \in Nat /\ m - 1 \notin U /\ (m - 1) + 1 = m
  BY <1>2
<1>. QED
  BY <1>2, <1>3

(* A finite set without one of its elements.                                 *)
LEMMA OneLess ==
  ASSUME NEW S, IsFiniteSet(S), NEW x \in S, NEW j \in Nat, Cardinality(S) = j + 1
  PROVE  Cardinality(S \ {x}) = j
<1>1. Cardinality(S \ {x}) = Cardinality(S) - 1
  BY FS_RemoveElement
<1>2. j + 1 - 1 = j
  OBVIOUS
<1>. QED
  BY <1>1, <1>2

(* The element that the sum takes next.                                      *)
Chosen(s) == CHOOSE x \in s : TRUE

(* The function that the sum of the values of f is computed with.            *)
SumsUpTo(h, f, T) ==
  h = [s \in SUBSET T |-> IF s = {} THEN 0 ELSE f[Chosen(s)] + h[s \ {Chosen(s)}]]

(* The sum is what that function gives for the whole set.                    *)
LEMMA SumIs ==
  ASSUME NEW f, NEW T
  PROVE  SumFunctionOnSet(f, T) = (CHOOSE h : SumsUpTo(h, f, T))[T]
BY DEF SumFunctionOnSet, FoldFunctionOnSet, MapThenFoldSet, SumsUpTo, Chosen

(* There is such a function of the subsets of a finite set.                  *)
LEMMA SumsExist ==
  ASSUME NEW f, NEW T, IsFiniteSet(T)
  PROVE  \E h : SumsUpTo(h, f, T)
<1>. DEFINE Small(j) == {s \in SUBSET T : Cardinality(s) < j}
            Is(h, j) == h = [s \in Small(j) |->
                               IF s = {} THEN 0 ELSE f[Chosen(s)] + h[s \ {Chosen(s)}]]
            K == {j \in Nat : \E h : Is(h, j)}
<1>1. \A s \in SUBSET T : IsFiniteSet(s) /\ Cardinality(s) \in Nat /\ Cardinality(s) <= Cardinality(T)
  BY FS_Subset, FS_CardinalityType
<1>2. 0 \in K
  <2>. DEFINE g == [s \in {} |-> 0]
  <2>1. Small(0) = {}
    BY <1>1
  <2>2. Is(g, 0)
    BY <2>1
  <2>. QED
    BY <2>2
<1>3. ASSUME NEW j \in Nat, j \in K PROVE j + 1 \in K
  <2>1. PICK h : Is(h, j)
    BY <1>3
  <2>. DEFINE g == [s \in Small(j + 1) |->
                      IF s = {} THEN 0 ELSE f[Chosen(s)] + h[s \ {Chosen(s)}]]
  <2>2. ASSUME NEW s \in Small(j + 1), s # {}
        PROVE  s \ {Chosen(s)} \in Small(j)
    <3>1. Chosen(s) \in s
      BY <2>2 DEF Chosen
    <3>2. Cardinality(s \ {Chosen(s)}) = Cardinality(s) - 1
      BY <1>1, <3>1, FS_RemoveElement
    <3>. QED
      BY <1>1, <3>2
  <2>3. Small(j) \subseteq Small(j + 1)
    BY <1>1
  <2>4. \A s \in Small(j) : g[s] = h[s]
    BY <2>1, <2>3
  <2>5. ASSUME NEW s \in Small(j + 1)
        PROVE  (IF s = {} THEN 0 ELSE f[Chosen(s)] + h[s \ {Chosen(s)}])
                 = (IF s = {} THEN 0 ELSE f[Chosen(s)] + g[s \ {Chosen(s)}])
    BY <2>2, <2>4
  <2>6. Is(g, j + 1)
    <3>. DEFINE R(s) == IF s = {} THEN 0 ELSE f[Chosen(s)] + g[s \ {Chosen(s)}]
                Q(s) == IF s = {} THEN 0 ELSE f[Chosen(s)] + h[s \ {Chosen(s)}]
                S1 == Small(j + 1)
    <3>1. \A s \in S1 : Q(s) = R(s)
      BY <2>5
    <3>2. g = [s \in S1 |-> Q(s)]
      OBVIOUS
    <3>. HIDE DEF g, R, Q, S1
    <3>3. g = [s \in S1 |-> R(s)]
      BY <3>1, <3>2
    <3>. QED
      BY <3>3 DEF R, S1
  <2>. HIDE DEF g, Is
  <2>7. j + 1 \in Nat
    OBVIOUS
  <2>. QED
    BY <2>6, <2>7
<1>. HIDE DEF K
<1>4. Cardinality(T) + 1 \in K
  <2>1. Cardinality(T) + 1 \in Nat
    BY <1>1
  <2>. QED
    BY <1>2, <1>3, <2>1, AllNumbers
<1>. USE DEF K
<1>5. PICK h : Is(h, Cardinality(T) + 1)
  BY <1>4
<1>6. Small(Cardinality(T) + 1) = SUBSET T
  BY <1>1
<1>. QED
  BY <1>5, <1>6 DEF SumsUpTo

(* The sum over a set can be computed as part of that over a larger one.     *)
LEMMA SumsAgree ==
  ASSUME NEW f, NEW T, IsFiniteSet(T), NEW h, SumsUpTo(h, f, T),
         NEW U, NEW g, SumsUpTo(g, f, U)
  PROVE  \A s \in (SUBSET T) \cap (SUBSET U) : h[s] = g[s]
<1>. DEFINE K == {j \in Nat : \A r \in (SUBSET T) \cap (SUBSET U) :
                                Cardinality(r) = j => h[r] = g[r]}
<1>1. \A r \in SUBSET T : IsFiniteSet(r) /\ Cardinality(r) \in Nat
  BY FS_Subset, FS_CardinalityType
<1>2. /\ \A r \in SUBSET T : h[r] = IF r = {} THEN 0 ELSE f[Chosen(r)] + h[r \ {Chosen(r)}]
      /\ \A r \in SUBSET U : g[r] = IF r = {} THEN 0 ELSE f[Chosen(r)] + g[r \ {Chosen(r)}]
  BY DEF SumsUpTo
<1>3. 0 \in K
  <2>1. ASSUME NEW r \in (SUBSET T) \cap (SUBSET U), Cardinality(r) = 0 PROVE h[r] = g[r]
    <3>1. r = {}
      BY <1>1, <2>1, FS_EmptySet
    <3>. QED
      BY <1>2, <3>1
  <2>. QED
    BY <2>1
<1>4. ASSUME NEW j \in Nat, j \in K PROVE j + 1 \in K
  <2>1. ASSUME NEW r \in (SUBSET T) \cap (SUBSET U), Cardinality(r) = j + 1 PROVE h[r] = g[r]
    <3>1. r # {}
      BY <2>1, FS_EmptySet
    <3>2. Chosen(r) \in r
      BY <3>1 DEF Chosen
    <3>. DEFINE q == r \ {Chosen(r)}
    <3>3. Cardinality(q) = j
      BY <1>1, <2>1, <3>2, FS_RemoveElement
    <3>4. h[q] = g[q]
      BY <1>4, <3>3
    <3>5. h[r] = f[Chosen(r)] + h[q] /\ g[r] = f[Chosen(r)] + g[q]
      BY <1>2, <3>1
    <3>. QED
      BY <3>4, <3>5
  <2>. QED
    BY <2>1
<1>. HIDE DEF K
<1>5. \A s \in SUBSET T : Cardinality(s) \in K
  BY <1>1, <1>3, <1>4, AllNumbers
<1>. QED
  BY <1>5 DEF K

(* The sum over no element is 0, and every other one is the chosen element's *)
(* value and the sum over the others.                                        *)
LEMMA SumChosen ==
  ASSUME NEW f, NEW T, IsFiniteSet(T)
  PROVE  SumFunctionOnSet(f, T) =
           IF T = {} THEN 0 ELSE f[Chosen(T)] + SumFunctionOnSet(f, T \ {Chosen(T)})
<1>. DEFINE U == T \ {Chosen(T)}
            h == CHOOSE x : SumsUpTo(x, f, T)
            g == CHOOSE x : SumsUpTo(x, f, U)
<1>1. IsFiniteSet(U)
  BY FS_Subset
<1>2. SumsUpTo(h, f, T) /\ SumsUpTo(g, f, U)
  BY <1>1, SumsExist
<1>3. SumFunctionOnSet(f, T) = h[T] /\ SumFunctionOnSet(f, U) = g[U]
  BY SumIs
<1>. HIDE DEF h, g
<1>4. h[U] = g[U]
  <2>1. U \in (SUBSET T) \cap (SUBSET U)
    OBVIOUS
  <2>. HIDE DEF U
  <2>2. \A s \in (SUBSET T) \cap (SUBSET U) : h[s] = g[s]
    BY <1>2, SumsAgree
  <2>. QED
    BY <2>1, <2>2
<1>5. h[T] = IF T = {} THEN 0 ELSE f[Chosen(T)] + h[U]
  BY <1>2 DEF SumsUpTo
<1>. QED
  BY <1>3, <1>4, <1>5

(* A sum of integers is an integer.                                          *)
LEMMA SumIsInteger ==
  ASSUME NEW f, NEW T, IsFiniteSet(T), \A x \in T : f[x] \in Int
  PROVE  SumFunctionOnSet(f, T) \in Int
<1>. DEFINE K == {j \in Nat : \A r \in SUBSET T : Cardinality(r) = j =>
                                SumFunctionOnSet(f, r) \in Int}
<1>1. \A r \in SUBSET T : IsFiniteSet(r) /\ Cardinality(r) \in Nat
  BY FS_Subset, FS_CardinalityType
<1>2. 0 \in K
  <2>1. ASSUME NEW r \in SUBSET T, Cardinality(r) = 0
        PROVE  SumFunctionOnSet(f, r) \in Int
    <3>1. IsFiniteSet(r) /\ r = {}
      BY <1>1, <2>1, FS_EmptySet
    <3>2. SumFunctionOnSet(f, r) = 0
      BY <3>1, SumChosen
    <3>. QED
      BY <3>2
  <2>. QED
    BY <2>1
<1>3. ASSUME NEW j \in Nat, j \in K PROVE j + 1 \in K
  <2>1. ASSUME NEW r \in SUBSET T, Cardinality(r) = j + 1
        PROVE  SumFunctionOnSet(f, r) \in Int
    <3>. DEFINE x == Chosen(r)
                q == r \ {x}
    <3>1. r # {} /\ IsFiniteSet(r)
      BY <1>1, <2>1, FS_EmptySet
    <3>2. x \in r /\ x \in T
      BY <3>1 DEF Chosen
    <3>3. SumFunctionOnSet(f, r) = f[x] + SumFunctionOnSet(f, q)
      BY <3>1, SumChosen
    <3>4. Cardinality(q) = j
      BY <2>1, <3>1, <3>2, OneLess
    <3>5. q \in SUBSET T
      OBVIOUS
    <3>. HIDE DEF q, x
    <3>6. SumFunctionOnSet(f, q) \in Int
      BY <1>3, <3>4, <3>5
    <3>. QED
      BY <3>2, <3>3, <3>6
  <2>2. j + 1 \in Nat
    OBVIOUS
  <2>. QED
    BY <2>1, <2>2
<1>. HIDE DEF K
<1>4. Cardinality(T) \in K
  BY <1>1, <1>2, <1>3, AllNumbers
<1>. QED
  BY <1>4 DEF K

(* A sum of natural numbers is a natural number.                             *)
LEMMA SumIsNatural ==
  ASSUME NEW f, NEW T, IsFiniteSet(T), \A x \in T : f[x] \in Nat
  PROVE  SumFunctionOnSet(f, T) \in Nat
<1>. DEFINE K == {j \in Nat : \A r \in SUBSET T : Cardinality(r) = j =>
                                SumFunctionOnSet(f, r) \in Nat}
<1>1. \A r \in SUBSET T : IsFiniteSet(r) /\ Cardinality(r) \in Nat
  BY FS_Subset, FS_CardinalityType
<1>2. 0 \in K
  <2>1. ASSUME NEW r \in SUBSET T, Cardinality(r) = 0
        PROVE  SumFunctionOnSet(f, r) \in Nat
    <3>1. IsFiniteSet(r) /\ r = {}
      BY <1>1, <2>1, FS_EmptySet
    <3>2. SumFunctionOnSet(f, r) = 0
      BY <3>1, SumChosen
    <3>. QED
      BY <3>2
  <2>. QED
    BY <2>1
<1>3. ASSUME NEW j \in Nat, j \in K PROVE j + 1 \in K
  <2>1. ASSUME NEW r \in SUBSET T, Cardinality(r) = j + 1
        PROVE  SumFunctionOnSet(f, r) \in Nat
    <3>. DEFINE x == Chosen(r)
                q == r \ {x}
    <3>1. r # {} /\ IsFiniteSet(r)
      BY <1>1, <2>1, FS_EmptySet
    <3>2. x \in r /\ x \in T
      BY <3>1 DEF Chosen
    <3>3. SumFunctionOnSet(f, r) = f[x] + SumFunctionOnSet(f, q)
      BY <3>1, SumChosen
    <3>4. Cardinality(q) = j
      BY <2>1, <3>1, <3>2, OneLess
    <3>5. q \in SUBSET T
      OBVIOUS
    <3>. HIDE DEF q, x
    <3>6. SumFunctionOnSet(f, q) \in Nat
      BY <1>3, <3>4, <3>5
    <3>. QED
      BY <3>2, <3>3, <3>6
  <2>2. j + 1 \in Nat
    OBVIOUS
  <2>. QED
    BY <2>1, <2>2
<1>. HIDE DEF K
<1>4. Cardinality(T) \in K
  BY <1>1, <1>2, <1>3, AllNumbers
<1>. QED
  BY <1>4 DEF K

(* A sum of integers is the same whichever element is taken first.           *)
LEMMA SumRemove ==
  ASSUME NEW f, NEW T, IsFiniteSet(T), \A x \in T : f[x] \in Int, NEW e \in T
  PROVE  SumFunctionOnSet(f, T) = f[e] + SumFunctionOnSet(f, T \ {e})
<1>. DEFINE AnyFirst(r) == \A y \in r : SumFunctionOnSet(f, r) = f[y] + SumFunctionOnSet(f, r \ {y})
            K == {j \in Nat : \A r \in SUBSET T : Cardinality(r) = j => AnyFirst(r)}
<1>1. \A r \in SUBSET T : IsFiniteSet(r) /\ Cardinality(r) \in Nat
  BY FS_Subset, FS_CardinalityType
<1>2. \A r \in SUBSET T : SumFunctionOnSet(f, r) \in Int
  BY <1>1, SumIsInteger
<1>3. 0 \in K
  <2>1. ASSUME NEW r \in SUBSET T, Cardinality(r) = 0 PROVE AnyFirst(r)
    <3>1. r = {}
      BY <1>1, <2>1, FS_EmptySet
    <3>. QED
      BY <3>1
  <2>. QED
    BY <2>1
<1>4. ASSUME NEW j \in Nat, j \in K PROVE j + 1 \in K
  <2>1. ASSUME NEW r \in SUBSET T, Cardinality(r) = j + 1, NEW y \in r
        PROVE  SumFunctionOnSet(f, r) = f[y] + SumFunctionOnSet(f, r \ {y})
    <3>. DEFINE x == Chosen(r)
                p == r \ {x}
                o == r \ {y}
                q == r \ {x, y}
    <3>1. r # {} /\ IsFiniteSet(r)
      BY <1>1, <2>1, FS_EmptySet
    <3>2. x \in r /\ x \in T /\ y \in T
      BY <3>1 DEF Chosen
    <3>3. SumFunctionOnSet(f, r) = f[x] + SumFunctionOnSet(f, p)
      BY <3>1, SumChosen
    <3>4. Cardinality(p) = j /\ Cardinality(o) = j
      BY <2>1, <3>1, <3>2, OneLess
    <3>5. p \in SUBSET T /\ o \in SUBSET T /\ q \in SUBSET T
      OBVIOUS
    <3>. HIDE DEF x
    <3>6. AnyFirst(p) /\ AnyFirst(o)
      BY <1>4, <3>4, <3>5
    <3>7. CASE y = x
      BY <3>3, <3>7
    <3>8. CASE y # x
      <4>1. /\ y \in p /\ p \ {y} = q
            /\ x \in o /\ o \ {x} = q
        BY <3>2, <3>8
      <4>. HIDE DEF p, o, q
      <4>2. SumFunctionOnSet(f, p) = f[y] + SumFunctionOnSet(f, q)
        BY <3>6, <4>1
      <4>3. SumFunctionOnSet(f, o) = f[x] + SumFunctionOnSet(f, q)
        BY <3>6, <4>1
      <4>4. f[x] \in Int /\ f[y] \in Int /\ SumFunctionOnSet(f, q) \in Int
        BY <1>2, <3>2, <3>5
      <4>5. SumFunctionOnSet(f, r) = f[y] + SumFunctionOnSet(f, o)
        BY <3>3, <4>2, <4>3, <4>4
      <4>. QED
        BY <4>5 DEF o
    <3>. QED
      BY <3>7, <3>8
  <2>2. j + 1 \in Nat
    OBVIOUS
  <2>. QED
    BY <2>1, <2>2
<1>. HIDE DEF K
<1>5. Cardinality(T) \in K
  BY <1>1, <1>3, <1>4, AllNumbers
<1>. QED
  BY <1>5 DEF K

(* The sum over two sets that share no element.                              *)
LEMMA SumUnion ==
  ASSUME NEW f, NEW A, IsFiniteSet(A), NEW B, IsFiniteSet(B), A \cap B = {},
         \A x \in A \cup B : f[x] \in Int
  PROVE  SumFunctionOnSet(f, A \cup B) = SumFunctionOnSet(f, A) + SumFunctionOnSet(f, B)
<1>. DEFINE K == {j \in Nat : \A r \in SUBSET B : Cardinality(r) = j =>
                    SumFunctionOnSet(f, A \cup r)
                      = SumFunctionOnSet(f, A) + SumFunctionOnSet(f, r)}
<1>1. \A r \in SUBSET B : IsFiniteSet(r) /\ Cardinality(r) \in Nat
  BY FS_Subset, FS_CardinalityType
<1>2. /\ SumFunctionOnSet(f, A) \in Int
      /\ \A r \in SUBSET B : /\ SumFunctionOnSet(f, r) \in Int
                             /\ IsFiniteSet(A \cup r)
                             /\ SumFunctionOnSet(f, A \cup r) \in Int
  BY <1>1, SumIsInteger, FS_Union
<1>3. 0 \in K
  <2>1. ASSUME NEW r \in SUBSET B, Cardinality(r) = 0
        PROVE  SumFunctionOnSet(f, A \cup r) = SumFunctionOnSet(f, A) + SumFunctionOnSet(f, r)
    <3>1. r = {} /\ IsFiniteSet(r) /\ A \cup r = A
      BY <1>1, <2>1, FS_EmptySet
    <3>2. SumFunctionOnSet(f, r) = 0
      BY <3>1, SumChosen
    <3>. QED
      BY <1>2, <3>1, <3>2
  <2>. QED
    BY <2>1
<1>4. ASSUME NEW j \in Nat, j \in K PROVE j + 1 \in K
  <2>1. ASSUME NEW r \in SUBSET B, Cardinality(r) = j + 1
        PROVE  SumFunctionOnSet(f, A \cup r) = SumFunctionOnSet(f, A) + SumFunctionOnSet(f, r)
    <3>1. r # {} /\ IsFiniteSet(r)
      BY <1>1, <2>1, FS_EmptySet
    <3>2. PICK y \in r : TRUE
      BY <3>1
    <3>. DEFINE q == r \ {y}
    <3>3. Cardinality(q) = j /\ q \in SUBSET B
      BY <2>1, <3>1, OneLess
    <3>4. SumFunctionOnSet(f, r) = f[y] + SumFunctionOnSet(f, q)
      BY <3>1, SumRemove
    <3>5. (A \cup r) \ {y} = A \cup q /\ y \in A \cup r
      OBVIOUS
    <3>. DEFINE o == A \cup r
    <3>6. IsFiniteSet(o) /\ y \in o /\ \A x \in o : f[x] \in Int
      BY <1>2
    <3>. HIDE DEF o
    <3>7. SumFunctionOnSet(f, o) = f[y] + SumFunctionOnSet(f, o \ {y})
      BY <3>6, SumRemove
    <3>. USE DEF o
    <3>8. SumFunctionOnSet(f, A \cup r) = f[y] + SumFunctionOnSet(f, A \cup q)
      BY <3>5, <3>7
    <3>. HIDE DEF q, o
    <3>9. SumFunctionOnSet(f, A \cup q) = SumFunctionOnSet(f, A) + SumFunctionOnSet(f, q)
      BY <1>4, <3>3
    <3>10. f[y] \in Int /\ SumFunctionOnSet(f, A) \in Int /\ SumFunctionOnSet(f, q) \in Int
      BY <1>2, <3>3
    <3>. QED
      BY <3>4, <3>8, <3>9, <3>10
  <2>2. j + 1 \in Nat
    OBVIOUS
  <2>. QED
    BY <2>1, <2>2
<1>. HIDE DEF K
<1>5. Cardinality(B) \in K
  BY <1>1, <1>3, <1>4, AllNumbers
<1>. QED
  BY <1>5 DEF K

(* Functions that agree on a set have the same sum over it.                  *)
LEMMA SumSame ==
  ASSUME NEW f, NEW g, NEW T, IsFiniteSet(T), \A x \in T : f[x] = g[x]
  PROVE  SumFunctionOnSet(f, T) = SumFunctionOnSet(g, T)
<1>. DEFINE K == {j \in Nat : \A r \in SUBSET T : Cardinality(r) = j =>
                                SumFunctionOnSet(f, r) = SumFunctionOnSet(g, r)}
<1>1. \A r \in SUBSET T : IsFiniteSet(r) /\ Cardinality(r) \in Nat
  BY FS_Subset, FS_CardinalityType
<1>2. 0 \in K
  <2>1. ASSUME NEW r \in SUBSET T, Cardinality(r) = 0
        PROVE  SumFunctionOnSet(f, r) = SumFunctionOnSet(g, r)
    <3>1. IsFiniteSet(r) /\ r = {}
      BY <1>1, <2>1, FS_EmptySet
    <3>2. SumFunctionOnSet(f, r) = 0 /\ SumFunctionOnSet(g, r) = 0
      BY <3>1, SumChosen
    <3>. QED
      BY <3>2
  <2>. QED
    BY <2>1
<1>3. ASSUME NEW j \in Nat, j \in K PROVE j + 1 \in K
  <2>1. ASSUME NEW r \in SUBSET T, Cardinality(r) = j + 1
        PROVE  SumFunctionOnSet(f, r) = SumFunctionOnSet(g, r)
    <3>. DEFINE x == Chosen(r)
                q == r \ {x}
    <3>1. r # {} /\ IsFiniteSet(r)
      BY <1>1, <2>1, FS_EmptySet
    <3>2. x \in r /\ x \in T
      BY <3>1 DEF Chosen
    <3>3. /\ SumFunctionOnSet(f, r) = f[x] + SumFunctionOnSet(f, q)
          /\ SumFunctionOnSet(g, r) = g[x] + SumFunctionOnSet(g, q)
      BY <3>1, SumChosen
    <3>4. Cardinality(q) = j
      BY <2>1, <3>1, <3>2, OneLess
    <3>5. q \in SUBSET T
      OBVIOUS
    <3>. HIDE DEF q, x
    <3>6. SumFunctionOnSet(f, q) = SumFunctionOnSet(g, q)
      BY <1>3, <3>4, <3>5
    <3>. QED
      BY <3>2, <3>3, <3>6
  <2>2. j + 1 \in Nat
    OBVIOUS
  <2>. QED
    BY <2>1, <2>2
<1>. HIDE DEF K
<1>4. Cardinality(T) \in K
  BY <1>1, <1>2, <1>3, AllNumbers
<1>. QED
  BY <1>4 DEF K

(* A sum lies in every set of numbers that holds 0 and is closed under       *)
(* adding one of its terms.                                                  *)
LEMMA SumInSet ==
  ASSUME NEW f, NEW T, IsFiniteSet(T), NEW V, 0 \in V,
         \A x \in T : \A v \in V : f[x] + v \in V
  PROVE  SumFunctionOnSet(f, T) \in V
<1>. DEFINE K == {j \in Nat : \A r \in SUBSET T : Cardinality(r) = j =>
                                SumFunctionOnSet(f, r) \in V}
<1>1. \A r \in SUBSET T : IsFiniteSet(r) /\ Cardinality(r) \in Nat
  BY FS_Subset, FS_CardinalityType
<1>2. 0 \in K
  <2>1. ASSUME NEW r \in SUBSET T, Cardinality(r) = 0
        PROVE  SumFunctionOnSet(f, r) \in V
    <3>1. IsFiniteSet(r) /\ r = {}
      BY <1>1, <2>1, FS_EmptySet
    <3>. QED
      BY <3>1, SumChosen
  <2>. QED
    BY <2>1
<1>3. ASSUME NEW j \in Nat, j \in K PROVE j + 1 \in K
  <2>1. ASSUME NEW r \in SUBSET T, Cardinality(r) = j + 1
        PROVE  SumFunctionOnSet(f, r) \in V
    <3>. DEFINE x == Chosen(r)
                q == r \ {x}
    <3>1. r # {} /\ IsFiniteSet(r)
      BY <1>1, <2>1, FS_EmptySet
    <3>2. x \in r /\ x \in T
      BY <3>1 DEF Chosen
    <3>3. SumFunctionOnSet(f, r) = f[x] + SumFunctionOnSet(f, q)
      BY <3>1, SumChosen
    <3>4. Cardinality(q) = j
      BY <2>1, <3>1, <3>2, OneLess
    <3>5. q \in SUBSET T
      OBVIOUS
    <3>. HIDE DEF q, x
    <3>6. SumFunctionOnSet(f, q) \in V
      BY <1>3, <3>4, <3>5
    <3>. QED
      BY <3>2, <3>3, <3>6
  <2>2. j + 1 \in Nat
    OBVIOUS
  <2>. QED
    BY <2>1, <2>2
<1>. HIDE DEF K
<1>4. Cardinality(T) \in K
  BY <1>1, <1>2, <1>3, AllNumbers
<1>. QED
  BY <1>4 DEF K

(* A sum with one term replaced.                                            *)
LEMMA SumReplaced ==
  ASSUME NEW f, NEW g, NEW T, IsFiniteSet(T), NEW e \in T,
         \A x \in T : f[x] \in Int /\ g[x] \in Int,
         \A x \in T \ {e} : f[x] = g[x]
  PROVE  /\ SumFunctionOnSet(f, T) \in Int
         /\ SumFunctionOnSet(g, T) = SumFunctionOnSet(f, T) - f[e] + g[e]
<1>. DEFINE R == T \ {e}
<1>1. IsFiniteSet(R) /\ \A x \in R : f[x] \in Int /\ f[x] = g[x]
  BY FS_Subset
<1>2. /\ SumFunctionOnSet(f, T) = f[e] + SumFunctionOnSet(f, R)
      /\ SumFunctionOnSet(g, T) = g[e] + SumFunctionOnSet(g, R)
  BY SumRemove
<1>. HIDE DEF R
<1>3. SumFunctionOnSet(f, R) = SumFunctionOnSet(g, R) /\ SumFunctionOnSet(f, R) \in Int
  BY <1>1, SumSame, SumIsInteger
<1>4. f[e] \in Int /\ g[e] \in Int
  OBVIOUS
<1>. QED
  BY <1>2, <1>3, <1>4

(* Two terms of a sum set apart.                                            *)
LEMMA SumOfTwo ==
  ASSUME NEW f, NEW T, IsFiniteSet(T), NEW a \in T, NEW b \in T, a # b,
         \A x \in T : f[x] \in Int
  PROVE  /\ SumFunctionOnSet(f, T \ {a, b}) \in Int
         /\ SumFunctionOnSet(f, T) = f[a] + f[b] + SumFunctionOnSet(f, T \ {a, b})
<1>. DEFINE R == T \ {a}
            Q == T \ {a, b}
<1>1. IsFiniteSet(R) /\ IsFiniteSet(Q) /\ b \in R /\ R \ {b} = Q
  BY FS_Subset
<1>2. SumFunctionOnSet(f, T) = f[a] + SumFunctionOnSet(f, R)
  BY SumRemove
<1>3. \A x \in R : f[x] \in Int
  OBVIOUS
<1>4. \A x \in Q : f[x] \in Int
  OBVIOUS
<1>. HIDE DEF R, Q
<1>5. SumFunctionOnSet(f, R) = f[b] + SumFunctionOnSet(f, Q)
  BY <1>1, <1>3, SumRemove
<1>6. SumFunctionOnSet(f, Q) \in Int
  BY <1>1, <1>4, SumIsInteger
<1>7. f[a] \in Int /\ f[b] \in Int
  OBVIOUS
<1>. QED
  BY <1>2, <1>5, <1>6, <1>7 DEF Q

-----------------------------------------------------------------------------
(* Powers of two. *)

(* A power of two is positive and half of the next one: the subsets of a set *)
(* with one element more are twice as many.                                  *)
LEMMA PowerOfTwo ==
  ASSUME NEW k \in Nat
  PROVE  /\ 2 ^ k \in Nat
         /\ 2 ^ (k + 1) = 2 ^ k + 2 ^ k
<1>. DEFINE S == 1 .. k
            x == k + 1
            T == S \cup {x}
            P == SUBSET S
            Q == {s \cup {x} : s \in P}
<1>1. IsFiniteSet(S) /\ Cardinality(S) = k /\ x \notin S
  BY FS_Interval
<1>2. IsFiniteSet(T) /\ Cardinality(T) = k + 1
  BY <1>1, FS_AddElement
<1>3. IsFiniteSet(P) /\ Cardinality(P) = 2 ^ k
  BY <1>1, FS_SUBSET
<1>4. IsFiniteSet(SUBSET T) /\ Cardinality(SUBSET T) = 2 ^ (k + 1)
  BY <1>2, FS_SUBSET
<1>. HIDE DEF S, x
<1>5. SUBSET T = P \cup Q /\ P \cap Q = {}
  <2>1. ASSUME NEW s \in SUBSET T PROVE s \in P \cup Q
    <3>1. CASE x \in s
      <4>1. s \ {x} \in P /\ s = (s \ {x}) \cup {x}
        BY <3>1
      <4>. QED
        BY <4>1
    <3>2. CASE x \notin s
      BY <3>2
    <3>. QED
      BY <3>1, <3>2
  <2>2. P \cup Q \subseteq SUBSET T
    OBVIOUS
  <2>3. P \cap Q = {}
    BY <1>1
  <2>. QED
    BY <2>1, <2>2, <2>3
<1>6. IsFiniteSet(Q) /\ Cardinality(Q) = Cardinality(P)
  <2>. DEFINE g == [s \in P |-> s \cup {x}]
  <2>1. g \in Bijection(P, Q)
    <3>1. g \in [P -> Q] /\ \A q \in Q : \E s \in P : g[s] = q
      OBVIOUS
    <3>2. ASSUME NEW s \in P, NEW r \in P, g[s] = g[r] PROVE s = r
      <4>1. s \cup {x} = r \cup {x} /\ x \notin s /\ x \notin r
        BY <1>1, <3>2
      <4>. QED
        BY <4>1
    <3>. QED
      BY <3>1, <3>2 DEF Bijection, Injection, Surjection, IsInjective
  <2>. HIDE DEF g, P, Q
  <2>. QED
    BY <1>3, <2>1, FS_Bijection DEF ExistsBijection
<1>. HIDE DEF P, Q, T
<1>7. Cardinality(SUBSET T) = Cardinality(P) + Cardinality(Q)
  <2>1. Cardinality(P \cup Q) = Cardinality(P) + Cardinality(Q) - Cardinality(P \cap Q)
    BY <1>3, <1>6, FS_Union
  <2>2. Cardinality(P \cap Q) = 0 /\ Cardinality(P) \in Nat /\ Cardinality(Q) \in Nat
    BY <1>3, <1>5, <1>6, FS_EmptySet, FS_CardinalityType
  <2>. QED
    <3>1. Cardinality(P) + Cardinality(Q) - 0 = Cardinality(P) + Cardinality(Q)
      BY <2>2
    <3>. QED
      BY <1>5, <2>1, <2>2, <3>1
<1>8. Cardinality(P) \in Nat
  BY <1>3, FS_CardinalityType
<1>. QED
  BY <1>3, <1>4, <1>6, <1>7, <1>8

(* The first power of two is 1, and all are positive.                        *)
LEMMA PowersPositive ==
  /\ 2 ^ 0 = 1
  /\ \A k \in Nat : 2 ^ k \in Nat \ {0}
<1>. DEFINE K == {k \in Nat : 2 ^ k \in Nat \ {0}}
<1>1. 2 ^ 0 = 1
  OBVIOUS
<1>2. 0 \in K
  BY <1>1
<1>3. ASSUME NEW k \in Nat, k \in K PROVE k + 1 \in K
  <2>1. 2 ^ (k + 1) = 2 ^ k + 2 ^ k
    BY PowerOfTwo
  <2>. DEFINE p == 2 ^ k
              q == 2 ^ (k + 1)
  <2>2. p \in Nat \ {0} /\ q = p + p
    BY <1>3, <2>1
  <2>. HIDE DEF p, q
  <2>3. q \in Nat \ {0} /\ k + 1 \in Nat
    BY <2>2
  <2>. QED
    BY <2>3 DEF q
<1>. HIDE DEF K
<1>4. \A k \in Nat : k \in K
  BY <1>2, <1>3, AllNumbers
<1>. QED
  BY <1>1, <1>4 DEF K

(* The power of a sum, and the powers ascend.                                *)
LEMMA PowerOfSum ==
  ASSUME NEW a \in Nat, NEW b \in Nat
  PROVE  2 ^ (a + b) = 2 ^ a * 2 ^ b /\ 2 ^ a <= 2 ^ (a + b)
<1>. DEFINE K == {k \in Nat : 2 ^ (a + k) = 2 ^ a * 2 ^ k /\ 2 ^ a <= 2 ^ (a + k)}
            p == 2 ^ a
<1>1. 2 ^ 0 = 1 /\ p \in Nat \ {0}
  BY PowersPositive
<1>2. 0 \in K
  <2>1. a + 0 = a
    OBVIOUS
  <2>. HIDE DEF p
  <2>2. p * 1 = p /\ p <= p
    BY <1>1
  <2>. USE DEF p
  <2>. QED
    BY <1>1, <2>1, <2>2
<1>3. ASSUME NEW k \in Nat, k \in K PROVE k + 1 \in K
  <2>. DEFINE q == 2 ^ k
              r == 2 ^ (a + k)
              q2 == 2 ^ (k + 1)
              r2 == 2 ^ ((a + k) + 1)
  <2>1. q \in Nat /\ r \in Nat
    BY PowersPositive
  <2>2. q2 = q + q
    BY PowerOfTwo
  <2>3. r2 = r + r
    <3>1. a + k \in Nat
      OBVIOUS
    <3>. QED
      BY <3>1, PowerOfTwo
  <2>4. r = p * q /\ p <= r
    BY <1>3
  <2>5. a + (k + 1) = (a + k) + 1
    OBVIOUS
  <2>. HIDE DEF p, q, r, q2, r2
  <2>6. p * (q + q) = p * q + p * q
    BY <1>1, <2>1
  <2>7. r2 = p * q2 /\ p <= r2
    BY <1>1, <2>1, <2>2, <2>3, <2>4, <2>6
  <2>8. k + 1 \in Nat
    OBVIOUS
  <2>. QED
    BY <2>5, <2>7, <2>8 DEF p, q2, r2
<1>. HIDE DEF K
<1>4. b \in K
  BY <1>2, <1>3, AllNumbers
<1>. QED
  BY <1>4 DEF K

-----------------------------------------------------------------------------
(* Division. *)

(* A number is divided in one way only.                                      *)
LEMMA Remainder ==
  ASSUME NEW d \in Nat \ {0}
  PROVE  /\ \A x \in Nat : /\ x \div d \in Nat /\ x % d \in 0 .. d - 1
                           /\ x = d * (x \div d) + (x % d)
         /\ \A q \in Nat, r \in 0 .. d - 1 : (d * q + r) \div d = q /\ (d * q + r) % d = r
<1>1. ASSUME NEW x \in Nat
      PROVE  /\ x \div d \in Nat /\ x % d \in 0 .. d - 1
             /\ x = d * (x \div d) + (x % d)
  BY SMT
<1>2. ASSUME NEW q \in Nat, NEW r \in 0 .. d - 1
      PROVE  (d * q + r) \div d = q /\ (d * q + r) % d = r
  <2>. DEFINE x == d * q + r
              p == x \div d
              m == x % d
  <2>1. d * q \in Nat /\ x \in Nat
    BY SMT
  <2>2. p \in Nat /\ m \in 0 .. d - 1 /\ x = d * p + m
    BY <1>1, <2>1
  <2>. HIDE DEF p, m
  <2>3. ~ (p < q)
    <3>. SUFFICES ASSUME p < q PROVE FALSE
      OBVIOUS
    <3>. DEFINE e == q - p - 1
    <3>1. e \in Nat /\ q = p + 1 + e
      BY <2>2
    <3>. HIDE DEF e
    <3>2. d * q = d * p + d + d * e /\ d * e \in Nat /\ d * p \in Nat
      BY <2>2, <3>1
    <3>. QED
      BY <2>2, <3>2
  <2>4. ~ (q < p)
    <3>. SUFFICES ASSUME q < p PROVE FALSE
      OBVIOUS
    <3>. DEFINE e == p - q - 1
    <3>1. e \in Nat /\ p = q + 1 + e
      BY <2>2
    <3>. HIDE DEF e
    <3>2. d * p = d * q + d + d * e /\ d * e \in Nat /\ d * q \in Nat
      BY <2>1, <2>2, <3>1
    <3>. QED
      BY <2>2, <3>2
  <2>5. p = q
    BY <2>2, <2>3, <2>4
  <2>6. m = r
    BY <2>1, <2>2, <2>5
  <2>. QED
    BY <2>5, <2>6 DEF p, m
<1>. QED
  BY <1>1, <1>2

(* The remainder of a sum, for a ring that is gone round once at most.       *)
LEMMA RemainderOfSum ==
  ASSUME NEW d \in Nat \ {0}, NEW x \in Nat, NEW k \in 0 .. d
  PROVE  (x + k) % d = IF (x % d) + k < d THEN (x % d) + k ELSE (x % d) + k - d
<1>. DEFINE q == x \div d
            r == x % d
<1>1. q \in Nat /\ r \in 0 .. d - 1 /\ x = d * q + r
  BY Remainder
<1>. HIDE DEF q, r
<1>2. CASE r + k < d
  <2>1. r + k \in 0 .. d - 1 /\ x + k = d * q + (r + k)
    BY <1>1, <1>2
  <2>2. (d * q + (r + k)) % d = r + k
    BY <1>1, <2>1, Remainder
  <2>. QED
    BY <1>2, <2>1, <2>2 DEF r
<1>3. CASE ~ (r + k < d)
  <2>1. r + k - d \in 0 .. d - 1 /\ q + 1 \in Nat
    BY <1>1, <1>3
  <2>2. d * (q + 1) = d * q + d /\ d * q \in Nat
    BY <1>1
  <2>3. x + k = d * (q + 1) + (r + k - d)
    BY <1>1, <2>1, <2>2
  <2>4. (d * (q + 1) + (r + k - d)) % d = r + k - d
    BY <2>1, Remainder
  <2>. QED
    BY <1>3, <2>3, <2>4 DEF r
<1>. QED
  BY <1>2, <1>3

-----------------------------------------------------------------------------
(* Folds. *)

(* The function that a fold is computed with: c chooses the element that is  *)
(* taken last and g combines it with the result for the others.              *)
IsFold(h, g, c, base, T) ==
  \A s \in SUBSET T : h[s] = IF s = {} THEN base ELSE g[<<c[s], h[s \ {c[s]}]>>]

(* For a finite set there is such a function.                                *)
LEMMA FoldExists ==
  ASSUME NEW T, IsFiniteSet(T), NEW V, NEW base \in V,
         NEW c, \A s \in SUBSET T : s # {} => c[s] \in s,
         NEW g, \A x \in T, v \in V : g[<<x, v>>] \in V
  PROVE  \E h \in [SUBSET T -> V] : IsFold(h, g, c, base, T)
<1>. DEFINE Small(j) == {s \in SUBSET T : Cardinality(s) < j}
            Next(h, s) == IF s = {} THEN base ELSE g[<<c[s], h[s \ {c[s]}]>>]
            Is(h, j) == h \in [Small(j) -> V] /\ \A s \in Small(j) : h[s] = Next(h, s)
            K == {j \in Nat : \E h : Is(h, j)}
<1>1. \A s \in SUBSET T : IsFiniteSet(s) /\ Cardinality(s) \in Nat /\ Cardinality(s) <= Cardinality(T)
  BY FS_Subset, FS_CardinalityType
<1>2. 0 \in K
  <2>. DEFINE f == [s \in Small(0) |-> base]
  <2>1. Small(0) = {}
    BY <1>1
  <2>2. Is(f, 0)
    BY <2>1
  <2>. HIDE DEF f, Is
  <2>. QED
    BY <2>2
<1>3. ASSUME NEW j \in Nat, j \in K PROVE j + 1 \in K
  <2>1. PICK h : Is(h, j)
    BY <1>3
  <2>. DEFINE f == [s \in Small(j + 1) |-> Next(h, s)]
  <2>2. ASSUME NEW s \in Small(j + 1), s # {}
        PROVE  s \ {c[s]} \in Small(j)
    <3>1. c[s] \in s
      BY <2>2
    <3>2. Cardinality(s \ {c[s]}) = Cardinality(s) - 1
      BY <1>1, <3>1, FS_RemoveElement
    <3>. QED
      BY <1>1, <3>2
  <2>3. Small(j) \subseteq Small(j + 1)
    BY <1>1
  <2>4. ASSUME NEW s \in Small(j + 1) PROVE Next(h, s) \in V
    <3>1. CASE s = {}
      BY <3>1
    <3>2. CASE s # {}
      <4>1. h[s \ {c[s]}] \in V
        BY <2>1, <2>2, <3>2
      <4>2. c[s] \in T
        BY <3>2
      <4>. QED
        BY <3>2, <4>1, <4>2
    <3>. QED
      BY <3>1, <3>2
  <2>5. ASSUME NEW s \in Small(j) PROVE f[s] = h[s]
    BY <2>1, <2>3
  <2>6. ASSUME NEW s \in Small(j + 1) PROVE f[s] = Next(f, s)
    <3>1. f[s] = Next(h, s)
      OBVIOUS
    <3>. HIDE DEF f
    <3>2. CASE s = {}
      BY <3>1, <3>2
    <3>3. CASE s # {}
      <4>1. f[s \ {c[s]}] = h[s \ {c[s]}]
        BY <2>2, <2>5, <3>3
      <4>. QED
        BY <3>1, <3>3, <4>1
    <3>. QED
      BY <3>2, <3>3
  <2>7. f \in [Small(j + 1) -> V]
    BY <2>4
  <2>. HIDE DEF f, Next, Small
  <2>8. Is(f, j + 1)
    BY <2>6, <2>7
  <2>9. j + 1 \in Nat
    OBVIOUS
  <2>. HIDE DEF Is
  <2>. QED
    BY <2>8, <2>9
<1>. HIDE DEF K
<1>4. Cardinality(T) + 1 \in K
  <2>1. Cardinality(T) + 1 \in Nat
    BY <1>1
  <2>. QED
    BY <1>2, <1>3, <2>1, AllNumbers
<1>5. PICK h : Is(h, Cardinality(T) + 1)
  BY <1>4 DEF K
<1>6. Small(Cardinality(T) + 1) = SUBSET T
  BY <1>1
<1>7. h \in [SUBSET T -> V] /\ IsFold(h, g, c, base, T)
  BY <1>5, <1>6 DEF IsFold
<1>. QED
  BY <1>7

(* The greatest and the least of some numbers up to n are among them.        *)
LEMMA MaxIn ==
  ASSUME NEW n \in Nat, NEW T \in SUBSET (0 .. n), T # {}
  PROVE  /\ Max(T) \in T /\ \A x \in T : x <= Max(T)
         /\ Min(T) \in T /\ \A x \in T : Min(T) <= x
<1>. DEFINE U == {n - x : x \in T}
            m == Min(U)
<1>1. U \in SUBSET Nat
  OBVIOUS
<1>2. U # {}
  OBVIOUS
<1>3. m \in U /\ \A y \in U : m <= y
  BY <1>1, <1>2, LeastElement
<1>. HIDE DEF m
<1>4. PICK x \in T : m = n - x
  BY <1>3
<1>5. ASSUME NEW y \in T PROVE x >= y
  <2>1. n - y \in U
    OBVIOUS
  <2>2. m <= n - y
    BY <1>3, <2>1
  <2>. HIDE DEF U
  <2>3. x \in Int /\ y \in Int /\ n \in Int
    OBVIOUS
  <2>. QED
    BY <1>4, <2>2, <2>3
<1>6. Max(T) \in T /\ \A y \in T : Max(T) >= y
  BY <1>5 DEF Max
<1>7. \A y \in T : y <= Max(T)
  BY <1>6
<1>8. T \in SUBSET Nat
  OBVIOUS
<1>9. Min(T) \in T /\ \A y \in T : Min(T) <= y
  BY <1>8, LeastElement
<1>. QED
  BY <1>6, <1>7, <1>9

(* The greatest and the least number of an interval.                         *)
LEMMA IntervalEnds ==
  ASSUME NEW a \in Int, NEW b \in Int, a <= b
  PROVE  Max(a .. b) = b /\ Min(a .. b) = a
<1>1. \A x \in a .. b : x <= b /\ a <= x
  OBVIOUS
<1>2. a \in a .. b /\ b \in a .. b
  OBVIOUS
<1>3. \A x \in a .. b : (\A y \in a .. b : x >= y) => x = b
  BY <1>2
<1>4. \A x \in a .. b : (\A y \in a .. b : x <= y) => x = a
  BY <1>2
<1>. QED
  BY <1>1, <1>2, <1>3, <1>4 DEF Max, Min

(* A fold over 1 .. n from the left: the greatest element of a set is the    *)
(* one that is combined last; from the right, it is the least.               *)
IsLeftFold(h, g, base, n) ==
  \A s \in SUBSET (1 .. n) :
    h[s] = IF s = {} THEN base ELSE g[<<Max(s), h[s \ {Max(s)}]>>]

IsRightFold(h, g, base, n) ==
  \A s \in SUBSET (1 .. n) :
    h[s] = IF s = {} THEN base ELSE g[<<Min(s), h[s \ {Min(s)}]>>]

(* There are such folds.                                                     *)
LEMMA LeftFoldExists ==
  ASSUME NEW n \in Nat, NEW V, NEW base \in V,
         NEW g, \A x \in 1 .. n, v \in V : g[<<x, v>>] \in V
  PROVE  \E h \in [SUBSET (1 .. n) -> V] : IsLeftFold(h, g, base, n)
<1>. DEFINE T == 1 .. n
            c == [s \in SUBSET T |-> Max(s)]
<1>1. IsFiniteSet(T)
  BY FS_Interval
<1>2. ASSUME NEW s \in SUBSET T, s # {} PROVE c[s] = Max(s) /\ c[s] \in s
  <2>1. s \in SUBSET (0 .. n)
    OBVIOUS
  <2>. QED
    BY <1>2, <2>1, MaxIn
<1>. HIDE DEF c, T
<1>3. \E h \in [SUBSET T -> V] : IsFold(h, g, c, base, T)
  <2>1. \A s \in SUBSET T : s # {} => c[s] \in s
    BY <1>2
  <2>2. \A x \in T, v \in V : g[<<x, v>>] \in V
    BY DEF T
  <2>. QED
    BY <1>1, <2>1, <2>2, FoldExists
<1>4. PICK h \in [SUBSET T -> V] : IsFold(h, g, c, base, T)
  BY <1>3
<1>5. \A s \in SUBSET T : h[s] = IF s = {} THEN base ELSE g[<<Max(s), h[s \ {Max(s)}]>>]
  BY <1>2, <1>4 DEF IsFold
<1>6. h \in [SUBSET (1 .. n) -> V] /\ IsLeftFold(h, g, base, n)
  BY <1>4, <1>5 DEF T, IsLeftFold
<1>. QED
  BY <1>6

(* And so there is from the right.                                           *)
LEMMA RightFoldExists ==
  ASSUME NEW n \in Nat, NEW V, NEW base \in V,
         NEW g, \A x \in 1 .. n, v \in V : g[<<x, v>>] \in V
  PROVE  \E h \in [SUBSET (1 .. n) -> V] : IsRightFold(h, g, base, n)
<1>. DEFINE T == 1 .. n
            c == [s \in SUBSET T |-> Min(s)]
<1>1. IsFiniteSet(T)
  BY FS_Interval
<1>2. ASSUME NEW s \in SUBSET T, s # {} PROVE c[s] = Min(s) /\ c[s] \in s
  <2>1. s \in SUBSET (0 .. n)
    OBVIOUS
  <2>. QED
    BY <1>2, <2>1, MaxIn
<1>. HIDE DEF c, T
<1>3. \E h \in [SUBSET T -> V] : IsFold(h, g, c, base, T)
  <2>1. \A s \in SUBSET T : s # {} => c[s] \in s
    BY <1>2
  <2>2. \A x \in T, v \in V : g[<<x, v>>] \in V
    BY DEF T
  <2>. QED
    BY <1>1, <2>1, <2>2, FoldExists
<1>4. PICK h \in [SUBSET T -> V] : IsFold(h, g, c, base, T)
  BY <1>3
<1>5. \A s \in SUBSET T : h[s] = IF s = {} THEN base ELSE g[<<Min(s), h[s \ {Min(s)}]>>]
  BY <1>2, <1>4 DEF IsFold
<1>6. h \in [SUBSET (1 .. n) -> V] /\ IsRightFold(h, g, base, n)
  BY <1>4, <1>5 DEF T, IsRightFold
<1>. QED
  BY <1>6

(* The sets that such folds go through.                                      *)
LEMMA PrefixSteps ==
  ASSUME NEW n \in Nat, NEW k \in 1 .. n
  PROVE  /\ 1 .. k \in SUBSET (1 .. n) /\ 1 .. k # {}
         /\ Max(1 .. k) = k /\ (1 .. k) \ {k} = 1 .. (k - 1)
<1>1. k \in Int /\ 1 <= k /\ 1 \in Int /\ k <= n
  OBVIOUS
<1>2. Max(1 .. k) = k
  BY <1>1, IntervalEnds
<1>3. k \in 1 .. k /\ (1 .. k) \ {k} = 1 .. (k - 1)
  BY <1>1
<1>4. \A x \in 1 .. k : x \in 1 .. n
  BY <1>1
<1>. QED
  BY <1>2, <1>3, <1>4

(* Those of a fold from the right.                                           *)
LEMMA SuffixSteps ==
  ASSUME NEW n \in Nat, NEW k \in 1 .. n
  PROVE  /\ k .. n \in SUBSET (1 .. n) /\ k .. n # {}
         /\ Min(k .. n) = k /\ (k .. n) \ {k} = (k + 1) .. n
<1>1. k \in Int /\ k <= n /\ n \in Int /\ 1 <= k
  OBVIOUS
<1>2. Min(k .. n) = k
  BY <1>1, IntervalEnds
<1>3. k \in k .. n /\ (k .. n) \ {k} = (k + 1) .. n
  BY <1>1
<1>4. \A x \in k .. n : x \in 1 .. n
  BY <1>1
<1>. QED
  BY <1>2, <1>3, <1>4

(* What holds of the empty prefix and passes on from each prefix to the next *)
(* one holds of the whole.                                                   *)
LEMMA PrefixInduction ==
  ASSUME NEW n \in Nat, NEW h, NEW V, h[1 .. 0] \in V[0],
         \A k \in 1 .. n : h[1 .. (k - 1)] \in V[k - 1] => h[1 .. k] \in V[k]
  PROVE  h[1 .. n] \in V[n]
<1>. DEFINE K == {k \in Nat : k <= n => h[1 .. k] \in V[k]}
<1>1. 0 \in K
  OBVIOUS
<1>2. ASSUME NEW k \in Nat, k \in K PROVE k + 1 \in K
  <2>. SUFFICES ASSUME k + 1 <= n PROVE h[1 .. (k + 1)] \in V[k + 1]
    OBVIOUS
  <2>1. k + 1 \in 1 .. n /\ k <= n /\ (k + 1) - 1 = k
    OBVIOUS
  <2>2. h[1 .. k] \in V[k]
    BY <1>2, <2>1
  <2>. QED
    BY <2>1, <2>2
<1>. HIDE DEF K
<1>3. \A k \in Nat : k \in K
  BY <1>1, <1>2, AllNumbers
<1>. QED
  BY <1>3 DEF K

(* The same for a fold from the right.                                       *)
LEMMA SuffixInduction ==
  ASSUME NEW n \in Nat, NEW h, NEW V, h[(n + 1) .. n] \in V[0],
         \A k \in 1 .. n : h[(k + 1) .. n] \in V[n - k] => h[k .. n] \in V[n - k + 1]
  PROVE  h[1 .. n] \in V[n]
<1>. DEFINE K == {k \in Nat : k <= n => h[(n + 1 - k) .. n] \in V[k]}
<1>1. 0 \in K
  OBVIOUS
<1>2. ASSUME NEW k \in Nat, k \in K PROVE k + 1 \in K
  <2>. SUFFICES ASSUME k + 1 <= n PROVE h[(n + 1 - (k + 1)) .. n] \in V[k + 1]
    OBVIOUS
  <2>. DEFINE x == n - k
  <2>1. /\ x \in 1 .. n /\ k <= n /\ n + 1 - (k + 1) = x /\ n + 1 - k = x + 1
        /\ n - x = k /\ n - x + 1 = k + 1
    OBVIOUS
  <2>. HIDE DEF x
  <2>2. h[(x + 1) .. n] \in V[k]
    BY <1>2, <2>1
  <2>. QED
    BY <2>1, <2>2
<1>. HIDE DEF K
<1>3. n \in K
  BY <1>1, <1>2, AllNumbers
<1>4. n + 1 - n = 1
  OBVIOUS
<1>. QED
  BY <1>3, <1>4 DEF K

-----------------------------------------------------------------------------
(* Sequences that are joined. *)

(* A sequence that agrees with the beginning of another is a prefix of it.   *)
LEMMA AgreesPrefix ==
  ASSUME NEW S, NEW s \in Seq(S), NEW t \in Seq(S), Len(s) <= Len(t),
         \A x \in 1 .. Len(s) : s[x] = t[x]
  PROVE  /\ IsPrefix(s, t)
         /\ s = SubSeq(t, 1, Len(s))
         /\ Len(s) = Len(t) => s = t
<1>. DEFINE n == Len(s)
<1>1. n \in Nat /\ Len(t) \in Nat
  BY LenProperties
<1>2. /\ SubSeq(s, 1, n) \in Seq(S) /\ Len(SubSeq(s, 1, n)) = n
      /\ \A x \in 1 .. n : SubSeq(s, 1, n)[x] = s[x]
  BY <1>1
<1>3. /\ SubSeq(t, 1, n) \in Seq(S) /\ Len(SubSeq(t, 1, n)) = n
      /\ \A x \in 1 .. n : SubSeq(t, 1, n)[x] = t[x]
  BY <1>1
<1>4. s = SubSeq(t, 1, n)
  BY <1>3, SeqEqual
<1>5. s = SubSeq(s, 1, n)
  BY <1>2, SeqEqual
<1>6. Len(s) = Len(t) => s = t
  BY SeqEqual
<1>. QED
  BY <1>4, <1>5, <1>6 DEF IsPrefix

(* The function that sequences are joined with one after the other.          *)
IsFlatTo(f, s, n) == f = [x \in 1 .. n |-> IF x = 1 THEN s[1] ELSE f[x - 1] \o s[x]]
IsFlat(f, s) == IsFlatTo(f, s, Len(s))

(* Its values.                                                               *)
LEMMA FlatValue ==
  ASSUME NEW f, NEW s, NEW n, IsFlatTo(f, s, n), NEW x \in 1 .. n
  PROVE  f[x] = IF x = 1 THEN s[1] ELSE f[x - 1] \o s[x]
<1>. DEFINE g == [y \in 1 .. n |-> IF y = 1 THEN s[1] ELSE f[y - 1] \o s[y]]
<1>1. g[x] = IF x = 1 THEN s[1] ELSE f[x - 1] \o s[x]
  OBVIOUS
<1>2. f = g
  BY DEF IsFlatTo
<1>. HIDE DEF g
<1>. QED
  BY <1>1, <1>2, Zenon

(* What FlattenSeq returns is the last value of that function.               *)
LEMMA FlattenIs ==
  ASSUME NEW s, Len(s) # 0
  PROVE  FlattenSeq(s) = (CHOOSE f : IsFlat(f, s))[Len(s)]
BY DEF FlattenSeq, IsFlat, IsFlatTo

(* There is such a function.                                                 *)
LEMMA FlatExists ==
  ASSUME NEW S, NEW s \in Seq(Seq(S))
  PROVE  \E f : IsFlat(f, s) /\ \A x \in 1 .. Len(s) : f[x] \in Seq(S)
<1>. DEFINE Is(f, n) == IsFlatTo(f, s, n) /\ \A x \in 1 .. n : f[x] \in Seq(S)
            K == {n \in Nat : n <= Len(s) => \E f : Is(f, n)}
<1>1. 0 \in K
  <2>1. Is(<< >>, 0)
    BY DEF IsFlatTo
  <2>. QED
    BY <2>1
<1>2. ASSUME NEW n \in Nat, n \in K PROVE n + 1 \in K
  <2>. SUFFICES ASSUME n + 1 <= Len(s) PROVE \E g : Is(g, n + 1)
    OBVIOUS
  <2>1. PICK f : Is(f, n)
    <3>1. n <= Len(s)
      OBVIOUS
    <3>2. n \in K
      BY <1>2
    <3>. QED
      BY <3>1, <3>2
  <2>. DEFINE v == IF n = 0 THEN s[1] ELSE f[n] \o s[n + 1]
              g == [x \in 1 .. n + 1 |-> IF x = n + 1 THEN v ELSE f[x]]
  <2>2. v \in Seq(S)
    <3>1. s[n + 1] \in Seq(S) /\ (n # 0 => f[n] \in Seq(S))
      BY <2>1
    <3>. QED
      BY <3>1
  <2>3. \A x \in 1 .. n + 1 : g[x] = IF x = 1 THEN s[1] ELSE g[x - 1] \o s[x]
    <3>. SUFFICES ASSUME NEW x \in 1 .. n + 1
                  PROVE  g[x] = IF x = 1 THEN s[1] ELSE g[x - 1] \o s[x]
      OBVIOUS
    <3>1. CASE x = n + 1
      BY <3>1
    <3>2. CASE x # n + 1
      <4>1. x \in 1 .. n /\ g[x] = f[x] /\ (x # 1 => g[x - 1] = f[x - 1])
        BY <3>2
      <4>2. f[x] = IF x = 1 THEN s[1] ELSE f[x - 1] \o s[x]
        BY <2>1, <4>1 DEF IsFlatTo
      <4>. QED
        BY <4>1, <4>2
    <3>. QED
      BY <3>1, <3>2
  <2>4. \A x \in 1 .. n + 1 : g[x] \in Seq(S)
    BY <2>1, <2>2
  <2>5. DOMAIN g = 1 .. n + 1 /\ g = [x \in DOMAIN g |-> g[x]]
    OBVIOUS
  <2>. HIDE DEF g
  <2>6. IsFlatTo(g, s, n + 1)
    BY <2>3, <2>5, Zenon DEF IsFlatTo
  <2>. QED
    BY <2>4, <2>6
<1>. HIDE DEF K
<1>3. Len(s) \in K
  BY <1>1, <1>2, AllNumbers
<1>4. PICK f : Is(f, Len(s))
  BY <1>3 DEF K
<1>. QED
  BY <1>4 DEF IsFlat

(* The function for a sequence gives what that for its first elements gives. *)
LEMMA FlatsAgree ==
  ASSUME NEW s, NEW r, NEW f, NEW g, IsFlat(f, s), IsFlat(g, r),
         Len(s) \in Nat, Len(r) \in Nat, Len(s) <= Len(r),
         \A x \in 1 .. Len(s) : s[x] = r[x]
  PROVE  \A x \in 1 .. Len(s) : f[x] = g[x]
<1>. DEFINE K == {n \in Nat : n \in 1 .. Len(s) => f[n] = g[n]}
<1>1. 0 \in K
  OBVIOUS
<1>2. ASSUME NEW n \in Nat, n \in K PROVE n + 1 \in K
  <2>. SUFFICES ASSUME n + 1 \in 1 .. Len(s) PROVE f[n + 1] = g[n + 1]
    OBVIOUS
  <2>1. f[n + 1] = IF n + 1 = 1 THEN s[1] ELSE f[n + 1 - 1] \o s[n + 1]
    BY FlatValue DEF IsFlat
  <2>2. n + 1 \in 1 .. Len(r) /\ g[n + 1] = IF n + 1 = 1 THEN r[1] ELSE g[n + 1 - 1] \o r[n + 1]
    BY FlatValue DEF IsFlat
  <2>3. s[1] = r[1] /\ s[n + 1] = r[n + 1]
    OBVIOUS
  <2>4. n + 1 # 1 => f[n + 1 - 1] = g[n + 1 - 1]
    BY <1>2
  <2>. QED
    BY <2>1, <2>2, <2>3, <2>4
<1>. HIDE DEF K
<1>3. \A n \in Nat : n \in K
  BY <1>1, <1>2, AllNumbers
<1>. QED
  BY <1>3 DEF K

(* Nothing joined is nothing, and one sequence more is put at the end.       *)
LEMMA FlattenSteps ==
  ASSUME NEW S, NEW s \in Seq(Seq(S))
  PROVE  /\ FlattenSeq(<< >>) = << >>
         /\ FlattenSeq(s) \in Seq(S)
         /\ \A e \in Seq(S) : FlattenSeq(Append(s, e)) = FlattenSeq(s) \o e
<1>1. FlattenSeq(<< >>) = << >>
  BY DEF FlattenSeq
<1>. DEFINE f == CHOOSE h : IsFlat(h, s)
<1>2. IsFlat(f, s)
  BY FlatExists
<1>. HIDE DEF f
<1>3. \A x \in 1 .. Len(s) : f[x] \in Seq(S)
  <2>1. PICK h : IsFlat(h, s) /\ \A x \in 1 .. Len(s) : h[x] \in Seq(S)
    BY FlatExists
  <2>2. \A x \in 1 .. Len(s) : f[x] = h[x]
    BY <1>2, <2>1, FlatsAgree
  <2>. QED
    BY <2>1, <2>2
<1>4. FlattenSeq(s) \in Seq(S) /\ (Len(s) # 0 => FlattenSeq(s) = f[Len(s)])
  <2>1. CASE Len(s) = 0
    <3>1. s = << >> /\ << >> \in Seq(S)
      BY <2>1, EmptySeq
    <3>. QED
      BY <1>1, <2>1, <3>1
  <2>2. CASE Len(s) # 0
    <3>1. FlattenSeq(s) = f[Len(s)] /\ Len(s) \in 1 .. Len(s)
      BY <2>2, FlattenIs DEF f
    <3>. QED
      BY <1>3, <2>2, <3>1
  <2>. QED
    BY <2>1, <2>2
<1>5. ASSUME NEW e \in Seq(S)
      PROVE  FlattenSeq(Append(s, e)) = FlattenSeq(s) \o e
  <2>. DEFINE r == Append(s, e)
              g == CHOOSE h : IsFlat(h, r)
  <2>1. r \in Seq(Seq(S)) /\ Len(r) = Len(s) + 1 /\ r[Len(s) + 1] = e
        /\ \A x \in 1 .. Len(s) : s[x] = r[x]
    BY AppendProperties
  <2>. HIDE DEF r
  <2>2. IsFlat(g, r)
    BY <2>1, FlatExists
  <2>. HIDE DEF g
  <2>3. FlattenSeq(r) = g[Len(s) + 1]
    BY <2>1, FlattenIs DEF g
  <2>4. g[Len(s) + 1] = IF Len(s) + 1 = 1 THEN r[1] ELSE g[Len(s) + 1 - 1] \o r[Len(s) + 1]
    <3>1. Len(s) + 1 \in 1 .. Len(r) /\ IsFlatTo(g, r, Len(r))
      BY <2>1, <2>2 DEF IsFlat
    <3>. QED
      BY <3>1, FlatValue
  <2>5. CASE Len(s) = 0
    <3>1. s = << >> /\ << >> \o e = e
      BY <2>5, EmptySeq
    <3>2. FlattenSeq(r) = e
      BY <2>1, <2>3, <2>4, <2>5
    <3>. QED
      BY <1>1, <3>1, <3>2 DEF r
  <2>6. CASE Len(s) # 0
    <3>1. Len(s) \in 1 .. Len(s) /\ Len(s) + 1 - 1 = Len(s) /\ Len(s) + 1 # 1
      BY <2>6
    <3>2. f[Len(s)] = g[Len(s)]
      <4>1. Len(s) \in Nat /\ Len(r) \in Nat /\ Len(s) <= Len(r)
        BY <2>1
      <4>2. \A x \in 1 .. Len(s) : s[x] = r[x]
        BY <2>1
      <4>3. \A x \in 1 .. Len(s) : f[x] = g[x]
        BY <1>2, <2>2, <4>1, <4>2, FlatsAgree
      <4>. QED
        BY <3>1, <4>3
    <3>3. FlattenSeq(r) = f[Len(s)] \o e
      BY <2>1, <2>3, <2>4, <3>1, <3>2
    <3>. QED
      BY <1>4, <2>6, <3>3 DEF r
  <2>. QED
    BY <2>5, <2>6
<1>. QED
  BY <1>1, <1>4, <1>5

-----------------------------------------------------------------------------
(* The two cuts of Partition. *)

(* Euclidean division. *)
LEMMA Division ==
  ASSUME NEW x \in Nat, NEW d \in Nat \ {0}
  PROVE  /\ x \div d \in Nat
         /\ x % d \in 0 .. d - 1
         /\ x = d * (x \div d) + (x % d)
BY SMT

(* A product grows with each factor. *)
LEMMA ProductMonotonic ==
  ASSUME NEW c \in Nat, NEW x \in Nat, NEW y \in Nat, x <= y
  PROVE  c * x <= c * y
BY SMT

(* UPDIV rounds up: the pieces are large enough for all items and, unless   *)
(* there are no items, not empty.                                           *)
LEMMA UPDIVRoundsUp ==
  ASSUME NEW n \in Nat, NEW p \in Nat \ {0}
  PROVE  /\ UPDIV(n, p) \in Nat
         /\ n <= UPDIV(n, p) * p
         /\ n > 0 => UPDIV(n, p) > 0
<1> DEFINE x == n + p - 1
<1>1. x \in Nat OBVIOUS
<1>2. /\ x \div p \in Nat
      /\ x % p \in 0 .. p - 1
      /\ x = p * (x \div p) + (x % p)
  BY <1>1, Division
<1>3. n <= p * (x \div p)
  BY <1>2, SMT
<1>4. p * (x \div p) = (x \div p) * p
  BY <1>2, SMT
<1>5. n > 0 => x \div p # 0
  BY <1>2, <1>3, SMT
<1> QED BY <1>2, <1>3, <1>4, <1>5 DEF UPDIV

(* The pieces of the explicit cut lie one behind the other. *)
LEMMA ChunkBounds ==
  ASSUME NEW n \in Nat, NEW p \in Nat \ {0}, NEW t \in Nat
  PROVE  /\ ChunkStart(n, p, t) \in Nat
         /\ ChunkEnd(n, p, t) \in Nat
         /\ ChunkEnd(n, p, t) <= n
         /\ ChunkStart(n, p, t + 1) = ChunkStart(n, p, t) + UPDIV(n, p)
         /\ ChunkEnd(n, p, t) = Least(ChunkStart(n, p, t + 1), n)
         /\ ChunkStart(n, p, 0) = 0
<1>1. UPDIV(n, p) \in Nat BY UPDIVRoundsUp
<1> DEFINE c == UPDIV(n, p)
<1>2. c * t \in Nat /\ c * (t + 1) = c * t + c /\ c * 0 = 0
  <2> HIDE DEF c
  <2>1. c \in Nat BY <1>1 DEF c
  <2> QED BY <2>1, SMT
<1> QED BY <1>1, <1>2 DEF ChunkStart, ChunkEnd, Least

(* The chunks follow one another.                                            *)
LEMMA ChunksAscend ==
  ASSUME NEW n \in Nat, NEW p \in Nat \ {0}, NEW t \in Nat, NEW u \in Nat, t < u
  PROVE  ChunkStart(n, p, t + 1) <= ChunkStart(n, p, u)
<1>1. UPDIV(n, p) \in Nat BY UPDIVRoundsUp
<1>2. t + 1 <= u OBVIOUS
<1> QED BY <1>1, <1>2, ProductMonotonic DEF ChunkStart

(* The last piece of the explicit cut reaches the last item. *)
LEMMA ChunksReachEnd ==
  ASSUME NEW n \in Nat, NEW p \in Nat \ {0}
  PROVE  n <= ChunkStart(n, p, p)
BY UPDIVRoundsUp DEF ChunkStart

(* Each item is in the piece of some thread ... *)
LEMMA ChunksCover ==
  ASSUME NEW n \in Nat, NEW p \in Nat \ {0}, NEW k \in 0 .. n - 1
  PROVE  \E t \in 0 .. p - 1 : ChunkStart(n, p, t) <= k /\ k < ChunkEnd(n, p, t)
<1> DEFINE c == UPDIV(n, p)
           t == k \div c
<1>1. c \in Nat \ {0} /\ n <= c * p
  BY UPDIVRoundsUp
<1> HIDE DEF c
<1>2. /\ t \in Nat
      /\ k % c \in 0 .. c - 1
      /\ k = c * t + (k % c)
  <2>1. k \in Nat OBVIOUS
  <2> QED BY <1>1, <2>1, Division
<1>3. c * t <= k /\ k < c * t + c
  BY <1>1, <1>2, SMT
<1>4. t < p
  <2>1. SUFFICES ASSUME t >= p PROVE FALSE
    BY <1>2, SMT
  <2>2. c * p <= c * t BY <1>1, <1>2, <2>1, ProductMonotonic
  <2> QED BY <1>1, <1>2, <1>3, <2>2
<1>5. ChunkStart(n, p, t) = c * t
  BY DEF ChunkStart, c
<1>6. ChunkEnd(n, p, t) = Least(c * t + c, n)
  BY DEF ChunkEnd, ChunkStart, c
<1>7. ChunkStart(n, p, t) <= k /\ k < ChunkEnd(n, p, t)
  BY <1>1, <1>2, <1>3, <1>5, <1>6 DEF Least
<1>8. t \in 0 .. p - 1 BY <1>2, <1>4
<1> QED BY <1>7, <1>8

(* ... and of no other thread. *)
LEMMA ChunksDisjoint ==
  ASSUME NEW n \in Nat, NEW p \in Nat \ {0}, NEW t \in Nat, NEW u \in Nat,
         NEW k \in Nat,
         ChunkStart(n, p, t) <= k, k < ChunkEnd(n, p, t),
         ChunkStart(n, p, u) <= k, k < ChunkEnd(n, p, u)
  PROVE  t = u
<1>1. /\ ChunkStart(n, p, t) \in Nat /\ ChunkStart(n, p, t + 1) \in Nat
      /\ ChunkEnd(n, p, t) = Least(ChunkStart(n, p, t + 1), n)
  BY ChunkBounds
<1>2. /\ ChunkStart(n, p, u) \in Nat /\ ChunkStart(n, p, u + 1) \in Nat
      /\ ChunkEnd(n, p, u) = Least(ChunkStart(n, p, u + 1), n)
  BY ChunkBounds
<1>3. ~ (t < u) BY <1>1, <1>2, ChunksAscend DEF Least
<1>4. ~ (u < t) BY <1>1, <1>2, ChunksAscend DEF Least
<1> QED BY <1>3, <1>4
-------------------------------------------------------------------------------
(* The two cuts against each other. *)

(* Quotient and remainder are unique. *)
LEMMA DivisionUnique ==
  ASSUME NEW d \in Nat \ {0}, NEW q \in Nat, NEW r \in 0 .. d - 1
  PROVE  (d * q + r) \div d = q
<1> DEFINE x == d * q + r
           y == x \div d
<1>1. d * q \in Nat /\ x \in Nat BY SMT
<1>2. y \in Nat /\ x % d \in 0 .. d - 1 /\ x = d * y + (x % d)
  BY <1>1, Division
<1>3. ~ (y < q)
  <2> SUFFICES ASSUME y < q PROVE FALSE OBVIOUS
  <2> HIDE DEF y
  <2>1. d * (y + 1) <= d * q BY <1>2, ProductMonotonic
  <2>2. d * (y + 1) = d * y + d BY <1>2, SMT
  <2> QED BY <1>1, <1>2, <2>1, <2>2
<1>4. ~ (q < y)
  <2> SUFFICES ASSUME q < y PROVE FALSE OBVIOUS
  <2> HIDE DEF y
  <2>1. d * (q + 1) <= d * y BY <1>2, ProductMonotonic
  <2>2. d * (q + 1) = d * q + d BY SMT
  <2>3. d * y \in Nat BY <1>2, SMT
  <2> QED BY <1>1, <1>2, <2>1, <2>2, <2>3
<1> QED BY <1>2, <1>3, <1>4

(* The size of the explicit pieces in terms of quotient and remainder. *)
LEMMA UPDIVValue ==
  ASSUME NEW n \in Nat, NEW p \in Nat \ {0}
  PROVE  UPDIV(n, p) = IF n % p = 0 THEN n \div p ELSE (n \div p) + 1
<1> DEFINE q == n \div p
           r == n % p
<1>1. q \in Nat /\ r \in 0 .. p - 1 /\ n = p * q + r BY Division
<1> HIDE DEF q, r
<1>2. CASE r = 0
  <2>1. n + p - 1 = p * q + (p - 1) BY <1>1, <1>2, SMT
  <2>2. (p * q + (p - 1)) \div p = q BY <1>1, DivisionUnique
  <2> QED BY <1>2, <2>1, <2>2 DEF UPDIV, q, r
<1>3. CASE r # 0
  <2>1. n + p - 1 = p * (q + 1) + (r - 1) BY <1>1, <1>3, SMT
  <2>2. r - 1 \in 0 .. p - 1 /\ q + 1 \in Nat BY <1>1, <1>3
  <2>3. (p * (q + 1) + (r - 1)) \div p = q + 1 BY <2>2, DivisionUnique
  <2> QED BY <1>3, <2>1, <2>3 DEF UPDIV, q, r
<1> QED BY <1>2, <1>3

(* Both threads' bounds, with the quotient and the remainder spelt out. *)
LEMMA CutBounds ==
  ASSUME NEW n \in Nat, NEW p \in Nat \ {0}, NEW t \in 0 .. p - 1
  PROVE  LET q == n \div p
             r == n % p
         IN /\ q * t \in Nat
            /\ q * t + q <= p * q
            /\ ChunkStart(n, p, t) = IF r = 0 THEN q * t ELSE q * t + t
            /\ ChunkEnd(n, p, t) = Least(IF r = 0 THEN q * t + q
                                         ELSE q * t + t + q + 1, n)
            /\ StaticStart(n, p, t) = q * t + Least(t, r)
            /\ StaticEnd(n, p, t) = q * t + q + Least(t + 1, r)
<1> DEFINE q == n \div p
           r == n % p
<1>1. q \in Nat /\ r \in 0 .. p - 1 BY Division
<1>2. UPDIV(n, p) = IF r = 0 THEN q ELSE q + 1 BY UPDIVValue
<1>3. StaticStart(n, p, t) = q * t + Least(t, r) BY DEF StaticStart
<1>4. StaticEnd(n, p, t) = q * (t + 1) + Least(t + 1, r)
  BY DEF StaticEnd, StaticStart
<1> HIDE DEF q, r
<1>5. q * t \in Nat /\ q * (t + 1) = q * t + q /\ (q + 1) * t = q * t + t
  BY <1>1, SMT
<1>6. ChunkStart(n, p, t) = IF r = 0 THEN q * t ELSE q * t + t
  BY <1>2, <1>5 DEF ChunkStart
<1>7. ChunkEnd(n, p, t) = Least(IF r = 0 THEN q * t + q
                                 ELSE q * t + t + q + 1, n)
  BY <1>1, <1>2, <1>5, <1>6 DEF ChunkEnd
<1>8. q * t + q <= p * q
  <2>1. q * (t + 1) <= q * p BY <1>1, ProductMonotonic
  <2>2. q * p = p * q BY <1>1, SMT
  <2> QED BY <1>5, <2>1, <2>2
<1> QED BY <1>3, <1>4, <1>5, <1>6, <1>7, <1>8 DEF q, r

(* get_out_size measures the pieces that do_encode writes for exactly these *)
(* sizes of the input: multiples of the team, those that one byte is        *)
(* missing to, and those that are smaller than the team.  For all others    *)
(* some thread writes another piece than was measured for it.               *)
THEOREM CutsAgree ==
  ASSUME NEW n \in Nat, NEW p \in Nat \ {0}
  PROVE  SameCut(n, p) <=> n % p \in {0, p - 1} \/ n < p
<1> DEFINE q == n \div p
           r == n % p
           Explicit(t, k) == ChunkStart(n, p, t) <= k /\ k < ChunkEnd(n, p, t)
           Static(t, k) == StaticStart(n, p, t) <= k /\ k < StaticEnd(n, p, t)
<1>1. q \in Nat /\ r \in 0 .. p - 1 /\ n = p * q + r BY Division
<1>2. ASSUME NEW t \in 0 .. p - 1
      PROVE  /\ q * t \in Nat
             /\ ChunkStart(n, p, t) = IF r = 0 THEN q * t ELSE q * t + t
             /\ ChunkEnd(n, p, t) = Least(IF r = 0 THEN q * t + q
                                          ELSE q * t + t + q + 1, n)
             /\ StaticStart(n, p, t) = q * t + Least(t, r)
             /\ StaticEnd(n, p, t) = q * t + q + Least(t + 1, r)
             /\ q * t + q <= p * q
  BY CutBounds
<1> HIDE DEF q, r
<1>3. ASSUME r \in {0, p - 1} \/ n < p
      PROVE  SameCut(n, p)
  <2> SUFFICES ASSUME NEW t \in 0 .. p - 1, NEW k \in 0 .. n - 1
               PROVE  Explicit(t, k) <=> Static(t, k)
    BY DEF SameCut
  <2>1. CASE r = 0
    BY <1>1, <1>2, <2>1 DEF Least
  <2>2. CASE r # 0 /\ r = p - 1
    BY <1>1, <1>2, <2>2 DEF Least
  <2>3. CASE n < p
    <3>1. q = 0 /\ r = n
      <4>1. (p * 0 + n) \div p = 0 BY <2>3, DivisionUnique
      <4>2. p * 0 + n = n OBVIOUS
      <4>3. q = 0 BY <4>1, <4>2 DEF q
      <4> QED BY <1>1, <4>2, <4>3
    <3>2. q * t = 0 BY <3>1
    <3> QED BY <1>2, <2>3, <3>1, <3>2 DEF Least
  <2> QED BY <1>3, <2>1, <2>2, <2>3
<1>4. ASSUME r \notin {0, p - 1}, n >= p
      PROVE  ~ SameCut(n, p)
  <2> DEFINE t == r + 1
             k == q * t + r
  <2>1. t \in 0 .. p - 1 BY <1>1, <1>4
  <2>2. q > 0
    <3> SUFFICES ASSUME q = 0 PROVE FALSE BY <1>1
    <3> QED BY <1>1, <1>4
  <2>3. q * t \in Nat /\ q * t + q <= p * q BY <1>2, <2>1
  <2>4. k \in 0 .. n - 1
    <3> DEFINE a == q * t
               c == p * q
    <3>1. c \in Nat BY <1>1, SMT
    <3>2. a \in Nat /\ a + q <= c /\ n = c + r /\ k = a + r BY <1>1, <2>3
    <3> HIDE DEF a, c, k
    <3> QED BY <1>1, <2>2, <3>1, <3>2
  <2>5. Static(t, k) BY <1>1, <1>2, <2>1, <2>2, <2>3 DEF Least
  <2>6. ~ Explicit(t, k) BY <1>1, <1>2, <1>4, <2>1, <2>3
  <2> QED BY <2>1, <2>4, <2>5, <2>6 DEF SameCut
<1> QED BY <1>1, <1>3, <1>4 DEF r

-----------------------------------------------------------------------------
(* The bits of a compressed chunk. *)

(* The bits of the symbols at the positions lo to x - 1, one code after the  *)
(* other.                                                                    *)
Bits(c, d, lo, x) == CodeBits(d, lo, x, c)

(* The symbols at these positions have codes.                                *)
Coded(c, d, lo, x) == \A y \in lo .. x - 1 : c[d[y]] \in Seq({0, 1})

(* The codes are joined symbol by symbol.                                    *)
LEMMA BitsSteps ==
  ASSUME NEW c, NEW d, NEW lo \in Int, NEW x \in Int
  PROVE  /\ x <= lo => Bits(c, d, lo, x) = << >>
         /\ Coded(c, d, lo, x) => Bits(c, d, lo, x) \in Seq({0, 1})
         /\ lo <= x /\ Coded(c, d, lo, x + 1) =>
              Bits(c, d, lo, x + 1) = Bits(c, d, lo, x) \o c[d[x]]
<1>. DEFINE Codes0(z) == [y \in 1 .. z - lo |-> c[d[lo + y - 1]]]
<1>1. ASSUME NEW z \in Int
      PROVE  Bits(c, d, lo, z) = FlattenSeq(Codes0(z))
  BY DEF Bits, CodeBits
<1>2. ASSUME NEW z \in Int, z <= lo
      PROVE  Codes0(z) = << >>
  <2>1. 1 .. z - lo = {}
    BY <1>2
  <2>. QED
    BY <2>1
<1>3. ASSUME NEW z \in Int, Coded(c, d, lo, z)
      PROVE  Codes0(z) \in Seq(Seq({0, 1}))
  <2>1. CASE z <= lo
    BY <1>2, <2>1
  <2>2. CASE z > lo
    <3>1. z - lo \in Nat
      BY <2>2
    <3>2. ASSUME NEW y \in 1 .. z - lo PROVE c[d[lo + y - 1]] \in Seq({0, 1})
      <4>1. lo + y - 1 \in lo .. z - 1
        OBVIOUS
      <4>. QED
        BY <1>3, <4>1 DEF Coded
    <3>. QED
      BY <3>1, <3>2, IsASeq
  <2>. QED
    BY <2>1, <2>2
<1>4. x <= lo => Bits(c, d, lo, x) = << >>
  <2>1. FlattenSeq(<< >>) = << >>
    BY FlattenSteps, EmptySeq
  <2>. QED
    BY <1>1, <1>2, <2>1
<1>5. Coded(c, d, lo, x) => Bits(c, d, lo, x) \in Seq({0, 1})
  BY <1>1, <1>3, FlattenSteps
<1>6. ASSUME lo <= x, Coded(c, d, lo, x + 1)
      PROVE  Bits(c, d, lo, x + 1) = Bits(c, d, lo, x) \o c[d[x]]
  <2>. DEFINE s == Codes0(x)
              r == Codes0(x + 1)
              e == c[d[x]]
  <2>1. x \in lo .. x + 1 - 1 /\ lo .. x - 1 \subseteq lo .. x + 1 - 1
    BY <1>6
  <2>2. Coded(c, d, lo, x) /\ e \in Seq({0, 1})
    BY <1>6, <2>1 DEF Coded
  <2>3. s \in Seq(Seq({0, 1})) /\ r \in Seq(Seq({0, 1}))
    <3>. HIDE DEF Codes0
    <3>1. x + 1 \in Int
      OBVIOUS
    <3>. QED
      BY <1>3, <1>6, <2>2, <3>1
  <2>4. Len(s) = x - lo /\ Len(r) = Len(s) + 1
    <3>1. x - lo \in Nat /\ x - lo + 1 \in Nat /\ x + 1 - lo = x - lo + 1
      BY <1>6
    <3>. QED
      BY <2>3, <3>1
  <2>5. /\ \A y \in 1 .. Len(s) : s[y] = r[y]
        /\ r[Len(s) + 1] = e
    <3>1. ASSUME NEW y \in 1 .. x - lo PROVE s[y] = r[y]
      <4>1. y \in 1 .. x + 1 - lo
        BY <1>6
      <4>. QED
        BY <4>1
    <3>2. r[x - lo + 1] = e
      <4>1. x - lo + 1 \in 1 .. x + 1 - lo /\ lo + (x - lo + 1) - 1 = x
        BY <1>6
      <4>. QED
        BY <4>1
    <3>. HIDE DEF s, r
    <3>. QED
      BY <2>4, <3>1, <3>2
  <2>6. r = Append(s, e) /\ FlattenSeq(Append(s, e)) = FlattenSeq(s) \o e
    <3>. HIDE DEF s, r, e
    <3>0. Len(s) \in Nat
      BY <2>3, LenProperties
    <3>1. /\ Append(s, e) \in Seq(Seq({0, 1})) /\ Len(Append(s, e)) = Len(s) + 1
          /\ \A y \in 1 .. Len(s) : Append(s, e)[y] = s[y]
          /\ Append(s, e)[Len(s) + 1] = e
      BY <2>2, <2>3, AppendProperties
    <3>2. \A y \in 1 .. Len(r) : r[y] = Append(s, e)[y]
      BY <2>4, <2>5, <3>0, <3>1
    <3>3. r = Append(s, e)
      BY <2>3, <2>4, <3>1, <3>2, SeqEqual
    <3>4. FlattenSeq(Append(s, e)) = FlattenSeq(s) \o e
      BY <2>2, <2>3, FlattenSteps
    <3>. QED
      BY <3>3, <3>4
  <2>7. Bits(c, d, lo, x) = FlattenSeq(s) /\ Bits(c, d, lo, x + 1) = FlattenSeq(r)
    <3>. HIDE DEF Codes0
    <3>. QED
      BY <1>1
  <2>. HIDE DEF s, r
  <2>. QED
    BY <2>6, <2>7
<1>. QED
  BY <1>4, <1>5, <1>6

(* The bits of the first positions are the first bits.                       *)
LEMMA BitsGrow ==
  ASSUME NEW c, NEW d, NEW lo \in Int, NEW x \in Int, NEW y \in Int, lo <= x, x <= y,
         Coded(c, d, lo, y)
  PROVE  /\ Len(Bits(c, d, lo, x)) \in Nat /\ Len(Bits(c, d, lo, y)) \in Nat
         /\ Len(Bits(c, d, lo, x)) <= Len(Bits(c, d, lo, y))
         /\ \A z \in 1 .. Len(Bits(c, d, lo, x)) : Bits(c, d, lo, y)[z] = Bits(c, d, lo, x)[z]
<1>. DEFINE B(z) == Bits(c, d, lo, z)
            OK(n) == /\ Len(B(x)) <= Len(B(x + n))
                     /\ \A z \in 1 .. Len(B(x)) : B(x + n)[z] = B(x)[z]
            K == {n \in Nat : x + n <= y => OK(n)}
<1>1. ASSUME NEW z \in Int, z <= y
      PROVE  B(z) \in Seq({0, 1}) /\ Len(B(z)) \in Nat
  <2>1. Coded(c, d, lo, z)
    BY <1>1 DEF Coded
  <2>2. B(z) \in Seq({0, 1})
    BY <2>1, BitsSteps
  <2>. QED
    BY <2>2, LenProperties
<1>2. 0 \in K
  <2>1. x + 0 = x
    OBVIOUS
  <2>2. Len(B(x)) \in Nat
    BY <1>1
  <2>. HIDE DEF B
  <2>. QED
    BY <2>1, <2>2
<1>3. ASSUME NEW n \in Nat, n \in K PROVE n + 1 \in K
  <2>. SUFFICES ASSUME x + (n + 1) <= y PROVE OK(n + 1)
    OBVIOUS
  <2>. DEFINE w == x + n
  <2>1. /\ w \in Int /\ w <= y /\ lo <= w /\ w + 1 <= y /\ w + 1 = x + (n + 1)
        /\ w \in lo .. y - 1
    OBVIOUS
  <2>2. OK(n)
    BY <1>3, <2>1
  <2>3. Coded(c, d, lo, w + 1) /\ c[d[w]] \in Seq({0, 1})
    BY <2>1 DEF Coded
  <2>4. B(w + 1) = B(w) \o c[d[w]]
    <3>. HIDE DEF w
    <3>. QED
      BY <2>1, <2>3, BitsSteps
  <2>5. B(w) \in Seq({0, 1}) /\ B(x) \in Seq({0, 1})
    BY <1>1, <2>1
  <2>. DEFINE u == B(w)
              v == B(x)
              e == c[d[w]]
  <2>6. Len(v) <= Len(u) /\ \A z \in 1 .. Len(v) : u[z] = v[z]
    BY <2>2
  <2>7. Len(v) <= Len(u \o e) /\ \A z \in 1 .. Len(v) : (u \o e)[z] = v[z]
    <3>. HIDE DEF u, v, e
    <3>0. u \in Seq({0, 1}) /\ v \in Seq({0, 1}) /\ e \in Seq({0, 1})
      BY <2>3, <2>5 DEF u, v, e
    <3>1. /\ Len(u \o e) = Len(u) + Len(e)
          /\ \A z \in 1 .. Len(u) : (u \o e)[z] = u[z]
          /\ Len(u) \in Nat /\ Len(e) \in Nat /\ Len(v) \in Nat
      BY <3>0, ConcatProperties, LenProperties
    <3>. QED
      BY <2>6, <3>1
  <2>8. B(x + (n + 1)) = u \o e
    <3>. HIDE DEF B
    <3>. QED
      BY <2>1, <2>4
  <2>. HIDE DEF B
  <2>. QED
    BY <2>7, <2>8
<1>. HIDE DEF K
<1>4. y - x \in K
  BY <1>2, <1>3, AllNumbers
<1>5. x + (y - x) = y
  OBVIOUS
<1>6. OK(y - x)
  <2>. HIDE DEF OK
  <2>. QED
    BY <1>4, <1>5 DEF K
<1>. HIDE DEF B
<1>7. Len(B(x)) <= Len(B(y)) /\ \A z \in 1 .. Len(B(x)) : B(y)[z] = B(x)[z]
  BY <1>5, <1>6
<1>. QED
  BY <1>1, <1>7 DEF B

(* The code of the symbol at x lies in the bits up to y behind the bits of   *)
(* the symbols before x.                                                     *)
LiesIn(c, d, lo, x, y) ==
  /\ c[d[x]] \in Seq({0, 1})
  /\ Len(Bits(c, d, lo, x + 1)) = Len(Bits(c, d, lo, x)) + Len(c[d[x]])
  /\ Len(Bits(c, d, lo, x)) + Len(c[d[x]]) <= Len(Bits(c, d, lo, y))
  /\ \A z \in 1 .. Len(c[d[x]]) :
       Bits(c, d, lo, y)[Len(Bits(c, d, lo, x)) + z] = c[d[x]][z]

(* So does each code of a chunk.                                             *)
LEMMA CodeInside ==
  ASSUME NEW c, NEW d, NEW lo \in Int, NEW x \in Int, NEW y \in Int, lo <= x, x < y,
         Coded(c, d, lo, y)
  PROVE  LiesIn(c, d, lo, x, y)
<1>. DEFINE u == Bits(c, d, lo, x)
            v == Bits(c, d, lo, x + 1)
            f == Bits(c, d, lo, y)
            e == c[d[x]]
<1>1. /\ e \in Seq({0, 1})
      /\ Coded(c, d, lo, x) /\ Coded(c, d, lo, x + 1)
  BY DEF Coded
<1>2. u \in Seq({0, 1}) /\ v = u \o e
  BY <1>1, BitsSteps
<1>3. /\ Len(v) <= Len(f) /\ \A z \in 1 .. Len(v) : f[z] = v[z]
  <2>1. x + 1 \in Int /\ lo <= x + 1 /\ x + 1 <= y
    OBVIOUS
  <2>. QED
    BY <2>1, BitsGrow
<1>. HIDE DEF u, v, f, e
<1>4. /\ Len(v) = Len(u) + Len(e)
      /\ \A z \in 1 .. Len(e) : v[Len(u) + z] = e[z]
      /\ Len(u) \in Nat /\ Len(e) \in Nat
  BY <1>1, <1>2, ConcatProperties, LenProperties
<1>5. ASSUME NEW z \in 1 .. Len(e) PROVE f[Len(u) + z] = e[z]
  <2>1. Len(u) + z \in 1 .. Len(v)
    BY <1>4
  <2>. QED
    BY <1>3, <1>4, <2>1
<1>6. /\ e \in Seq({0, 1}) /\ Len(v) = Len(u) + Len(e) /\ Len(u) + Len(e) <= Len(f)
      /\ \A z \in 1 .. Len(e) : f[Len(u) + z] = e[z]
  BY <1>1, <1>3, <1>4, <1>5
<1>. QED
  BY <1>6 DEF u, v, f, e, LiesIn

(* No code is the beginning of another.                                      *)
IsPrefixCode(c) == \A s, q \in DOMAIN c : s # q => ~ IsPrefix(c[s], c[q])

(* A node of the tree that the bits of a code lead to.                       *)
OnWay(node, e) ==
  node \in Seq({0, 1}) /\ Len(node) <= Len(e) /\ \A x \in 1 .. Len(node) : node[x] = e[x]

(* The bytes that hold bits: as many as the division rounded up gives, and   *)
(* of each its bits.                                                         *)
LEMMA PackParts ==
  ASSUME NEW bits, Len(bits) \in Nat, NEW w \in Nat \ {0}
  PROVE  /\ UPDIV(Len(bits), w) \in Nat
         /\ DOMAIN PackBits(bits, w) = 0 .. UPDIV(Len(bits), w) - 1
         /\ IsFiniteSet(DOMAIN PackBits(bits, w))
         /\ Cardinality(DOMAIN PackBits(bits, w)) = UPDIV(Len(bits), w)
         /\ \A q \in 0 .. UPDIV(Len(bits), w) - 1 :
              PackBits(bits, w)[q] = {x \in 0 .. w - 1 : q * w + x < Len(bits) /\ bits[q * w + x + 1] = 1}
<1>. DEFINE n == UPDIV(Len(bits), w)
<1>2. n \in Nat
  BY UPDIVRoundsUp
<1>3. PackBits(bits, w) = [q \in 0 .. n - 1 |->
                             {x \in 0 .. w - 1 : q * w + x < Len(bits) /\ bits[q * w + x + 1] = 1}]
  BY DEF PackBits
<1>. HIDE DEF n
<1>4. IsFiniteSet(0 .. n - 1) /\ Cardinality(0 .. n - 1) = n
  <2>1. 0 \in Int /\ n - 1 \in Int
    BY <1>2
  <2>2. /\ IsFiniteSet(0 .. n - 1)
        /\ Cardinality(0 .. n - 1) = IF 0 > n - 1 THEN 0 ELSE (n - 1) - 0 + 1
    BY <2>1, FS_Interval
  <2>. QED
    BY <1>2, <2>2
<1>. QED
  BY <1>2, <1>3, <1>4 DEF n

(* Each bit is in a byte. *)
LEMMA BitHasByte ==
  ASSUME NEW n \in Nat, NEW w \in Nat \ {0}, NEW q \in Nat, NEW r \in Nat, q * w + r < n
  PROVE  q < UPDIV(n, w)
<1>3. UPDIV(n, w) \in Nat /\ n <= UPDIV(n, w) * w
  BY UPDIVRoundsUp
<1>. DEFINE c == UPDIV(n, w)
<1>. HIDE DEF c
<1>. SUFFICES ASSUME c <= q PROVE FALSE
  BY <1>3 DEF c
<1>4. w * c <= w * q
  BY <1>3, ProductMonotonic DEF c
<1>5. w * c = c * w /\ w * q = q * w
  BY <1>3, SMT DEF c
<1>6. c * w \in Nat /\ q * w \in Nat
  BY <1>3, SMT DEF c
<1>7. n <= c * w
  BY <1>3 DEF c
<1>. QED
  BY <1>4, <1>5, <1>6, <1>7

-----------------------------------------------------------------------------
(* The binary digits of a number. *)

(* What is left of a number without its n lowest binary digits.              *)
HighPart(v, n) == 2 ^ n * (v \div 2 ^ n)

(* The digit n is worth 2 ^ n.                                               *)
LEMMA DigitValue ==
  ASSUME NEW v \in Nat, NEW n \in Nat
  PROVE  /\ HighPart(v, n) \in Nat
         /\ (v \div 2 ^ n) % 2 \in {0, 1}
         /\ HighPart(v, n) = HighPart(v, n + 1) + (IF (v \div 2 ^ n) % 2 = 1 THEN 2 ^ n ELSE 0)
<1>. DEFINE d == 2 ^ n
            e == 2 ^ (n + 1)
            a == v \div d
            r == v % d
            h == a \div 2
            c == a % 2
<1>1. d \in Nat \ {0} /\ e \in Nat \ {0} /\ e = d + d
  BY PowersPositive, PowerOfTwo
<1>2. a \in Nat /\ r \in 0 .. d - 1 /\ v = d * a + r
  <2>. HIDE DEF d
  <2>. QED
    BY <1>1, Division
<1>3. h \in Nat /\ c \in 0 .. 2 - 1 /\ a = 2 * h + c
  <2>. HIDE DEF a
  <2>. QED
    BY <1>2, Division
<1>. HIDE DEF h, c, r
<1>4. d * a = e * h + d * c /\ d * a \in Nat /\ e * h \in Nat /\ d * c = IF c = 1 THEN d ELSE 0
  <2>. HIDE DEF a, d, e
  <2>1. d * a = d * (2 * h + c)
    BY <1>3
  <2>2. d * (2 * h + c) = (d + d) * h + d * c
    BY <1>1, <1>3, SMT
  <2>3. d * a \in Nat /\ e * h \in Nat
    BY <1>1, <1>2, <1>3, SMT
  <2>4. c = 0 \/ c = 1
    BY <1>3
  <2>5. d * 0 = 0 /\ d * 1 = d
    BY <1>1
  <2>. QED
    BY <1>1, <2>1, <2>2, <2>3, <2>4, <2>5
<1>5. v \div e = h
  <2>. DEFINE s == d * c + r
  <2>. HIDE DEF a, d, e
  <2>1. d * c \in Nat /\ d * c + r \in 0 .. e - 1
    BY <1>1, <1>2, <1>4
  <2>2. v = e * h + s
    <3>1. d * c \in Nat /\ r \in Nat
      BY <1>2, <2>1, <1>1
    <3>. QED
      BY <1>2, <1>4, <3>1
  <2>. HIDE DEF s
  <2>3. s \in 0 .. e - 1
    BY <2>1 DEF s
  <2>4. (e * h + s) \div e = h
    BY <1>1, <1>3, <2>3, DivisionUnique
  <2>. QED
    BY <2>2, <2>4
<1>6. HighPart(v, n) = d * a /\ HighPart(v, n + 1) = e * h
  BY <1>5 DEF HighPart
<1>7. (v \div 2 ^ n) % 2 = c
  BY DEF c
<1>8. c \in {0, 1}
  BY <1>3
<1>9. d * a = e * h + (IF c = 1 THEN d ELSE 0)
  BY <1>4
<1>. HIDE DEF a, e
<1>. QED
  BY <1>4, <1>6, <1>7, <1>8, <1>9

(* Without no digit nothing is missing, without all of them nothing is left. *)
LEMMA HighPartEnds ==
  ASSUME NEW v \in Nat, NEW n \in Nat, v < 2 ^ n
  PROVE  HighPart(v, 0) = v /\ HighPart(v, n) = 0
<1>1. 2 ^ 0 = 1 /\ 2 ^ n \in Nat \ {0}
  BY PowersPositive
<1>2. v \div 1 = v
  OBVIOUS
<1>. DEFINE d == 2 ^ n
<1>. HIDE DEF d
<1>3. v \div d = 0
  <2>1. v \in 0 .. d - 1 /\ d \in Nat \ {0}
    BY <1>1 DEF d
  <2>2. (d * 0 + v) \div d = 0
    BY <2>1, DivisionUnique
  <2>3. d * 0 + v = v
    BY <2>1
  <2>. QED
    BY <2>2, <2>3
<1>4. d * 0 = 0
  BY <1>1 DEF d
<1>. QED
  BY <1>1, <1>2, <1>3, <1>4 DEF HighPart, d

(* The digits from m on, as many as w, that are 1.                           *)
Digits(v, m, w) == {x \in 0 .. w - 1 : (v \div 2 ^ (m + x)) % 2 = 1}

(* They add up to what they are worth.                                       *)
LEMMA DigitsSum ==
  ASSUME NEW v \in Nat, NEW m \in Nat, NEW w \in Nat, NEW f,
         \A x \in Digits(v, m, w) : f[x] = 2 ^ (m + x)
  PROVE  /\ IsFiniteSet(Digits(v, m, w))
         /\ SumFunctionOnSet(f, Digits(v, m, w)) = HighPart(v, m) - HighPart(v, m + w)
<1>. DEFINE g == [x \in Nat |-> 2 ^ (m + x)]
            D(n) == Digits(v, m, n)
            Fine(n) == /\ IsFiniteSet(D(n))
                       /\ SumFunctionOnSet(g, D(n)) = HighPart(v, m) - HighPart(v, m + n)
            K == {n \in Nat : Fine(n)}
<1>0. \A x \in Nat : g[x] = 2 ^ (m + x) /\ g[x] \in Int
  BY PowersPositive
<1>1. \A n \in Nat : HighPart(v, m + n) \in Nat
  <2>. SUFFICES ASSUME NEW n \in Nat PROVE HighPart(v, m + n) \in Nat
    OBVIOUS
  <2>. DEFINE r == m + n
  <2>1. r \in Nat
    OBVIOUS
  <2>. HIDE DEF r
  <2>2. HighPart(v, r) \in Nat
    BY <2>1, DigitValue
  <2>. QED
    BY <2>2 DEF r
<1>. HIDE DEF g
<1>2. 0 \in K
  <2>1. D(0) = {} /\ m + 0 = m
    BY DEF Digits
  <2>2. IsFiniteSet({}) /\ SumFunctionOnSet(g, {}) = 0
    BY FS_EmptySet, SumChosen
  <2>3. HighPart(v, m) \in Nat
    BY <1>1, <2>1
  <2>4. Fine(0)
    <3>. DEFINE a == HighPart(v, m)
    <3>1. a \in Nat /\ HighPart(v, m + 0) = a
      BY <2>1, <2>3
    <3>2. IsFiniteSet(D(0)) /\ SumFunctionOnSet(g, D(0)) = 0
      <4>. HIDE DEF D
      <4>. QED
        BY <2>1, <2>2
    <3>. HIDE DEF a, D
    <3>3. a - HighPart(v, m + 0) = 0
      BY <3>1
    <3>. QED
      BY <3>2, <3>3 DEF a
  <2>. HIDE DEF Fine
  <2>. QED
    BY <2>4
<1>3. ASSUME NEW n \in Nat, n \in K PROVE n + 1 \in K
  <2>1. IsFiniteSet(D(n)) /\ SumFunctionOnSet(g, D(n)) = HighPart(v, m) - HighPart(v, m + n)
    BY <1>3
  <2>2. /\ HighPart(v, m + n) \in Nat /\ HighPart(v, (m + n) + 1) \in Nat
        /\ HighPart(v, m + n) = HighPart(v, (m + n) + 1)
             + (IF (v \div 2 ^ (m + n)) % 2 = 1 THEN 2 ^ (m + n) ELSE 0)
        /\ m + (n + 1) = (m + n) + 1 /\ HighPart(v, m) \in Nat
    <3>. DEFINE r == m + n
    <3>1. r \in Nat /\ r + 1 \in Nat /\ m + (n + 1) = r + 1
      OBVIOUS
    <3>. HIDE DEF r
    <3>2. /\ HighPart(v, r) \in Nat /\ HighPart(v, r + 1) \in Nat
          /\ HighPart(v, r) = HighPart(v, r + 1)
               + (IF (v \div 2 ^ r) % 2 = 1 THEN 2 ^ r ELSE 0)
      BY <3>1, DigitValue
    <3>3. HighPart(v, m) \in Nat
      BY DigitValue
    <3>. QED
      BY <3>1, <3>2, <3>3 DEF r
  <2>3. CASE (v \div 2 ^ (m + n)) % 2 = 1
    <3>1. D(n + 1) = D(n) \cup {n} /\ n \notin D(n) /\ D(n) \subseteq Nat
      <4>1. 0 .. (n + 1) - 1 = (0 .. n - 1) \cup {n} /\ n \notin 0 .. n - 1
        OBVIOUS
      <4>. DEFINE A(x) == (v \div 2 ^ (m + x)) % 2 = 1
      <4>2. A(n) /\ D(n) = {x \in 0 .. n - 1 : A(x)} /\ D(n + 1) = {x \in 0 .. (n + 1) - 1 : A(x)}
        BY <2>3 DEF Digits
      <4>. HIDE DEF A, D
      <4>3. D(n) \subseteq Nat
        BY <4>2
      <4>. QED
        BY <4>1, <4>2, <4>3, Zenon
    <3>. HIDE DEF D
    <3>2. IsFiniteSet(D(n + 1)) /\ n \in D(n + 1) /\ D(n + 1) \ {n} = D(n)
      BY <2>1, <3>1, FS_AddElement
    <3>3. \A x \in D(n + 1) : g[x] \in Int
      BY <1>0, <3>1
    <3>4. SumFunctionOnSet(g, D(n + 1)) = g[n] + SumFunctionOnSet(g, D(n + 1) \ {n})
      BY <3>2, <3>3, SumRemove
    <3>5. SumFunctionOnSet(g, D(n + 1)) = 2 ^ (m + n) + (HighPart(v, m) - HighPart(v, m + n))
      BY <1>0, <2>1, <3>2, <3>4
    <3>6. HighPart(v, m + n) = HighPart(v, (m + n) + 1) + 2 ^ (m + n)
      BY <2>2, <2>3
    <3>7. 2 ^ (m + n) \in Nat
      BY PowersPositive
    <3>8. SumFunctionOnSet(g, D(n + 1)) = HighPart(v, m) - HighPart(v, (m + n) + 1)
      <4>. DEFINE s == SumFunctionOnSet(g, D(n + 1))
                  a == 2 ^ (m + n)
                  b == HighPart(v, m)
                  c == HighPart(v, m + n)
                  e == HighPart(v, (m + n) + 1)
      <4>1. s = a + (b - c) /\ c = e + a /\ a \in Nat /\ b \in Nat /\ c \in Nat /\ e \in Nat
        BY <2>2, <3>5, <3>6, <3>7
      <4>. HIDE DEF s, a, b, c, e
      <4>2. s = b - e
        BY <4>1
      <4>. QED
        BY <4>2 DEF s, b, e
    <3>. QED
      BY <2>2, <3>2, <3>8
  <2>4. CASE (v \div 2 ^ (m + n)) % 2 # 1
    <3>1. D(n + 1) = D(n)
      <4>1. 0 .. (n + 1) - 1 = (0 .. n - 1) \cup {n}
        OBVIOUS
      <4>. QED
        BY <2>4, <4>1 DEF Digits
    <3>2. HighPart(v, m + n) = HighPart(v, (m + n) + 1)
      BY <2>2, <2>4
    <3>. HIDE DEF D
    <3>. QED
      BY <2>1, <2>2, <3>1, <3>2
  <2>. QED
    BY <2>3, <2>4
<1>4. w \in K
  <2>. HIDE DEF K
  <2>. QED
    BY <1>2, <1>3, AllNumbers
<1>5. IsFiniteSet(D(w)) /\ SumFunctionOnSet(g, D(w)) = HighPart(v, m) - HighPart(v, m + w)
  BY <1>4
<1>6. \A x \in D(w) : f[x] = g[x]
  BY <1>0 DEF Digits
<1>7. SumFunctionOnSet(f, D(w)) = SumFunctionOnSet(g, D(w))
  <2>. HIDE DEF D
  <2>. QED
    BY <1>5, <1>6, SumSame
<1>. QED
  BY <1>5, <1>7

(* The last number of an interval taken out of a sum.                        *)
LEMMA SumLast ==
  ASSUME NEW f, NEW k \in Nat, \A q \in 1 .. k + 1 : f[q] \in Int
  PROVE  SumFunctionOnSet(f, 1 .. k + 1) = f[k + 1] + SumFunctionOnSet(f, 1 .. k)
<1>. DEFINE T == 1 .. k + 1
            e == k + 1
<1>1. IsFiniteSet(T) /\ e \in T /\ T \ {e} = 1 .. k
  BY FS_Interval
<1>2. \A q \in T : f[q] \in Int
  OBVIOUS
<1>. HIDE DEF T, e
<1>3. SumFunctionOnSet(f, T) = f[e] + SumFunctionOnSet(f, T \ {e})
  BY <1>1, <1>2, SumRemove
<1>. QED
  BY <1>1, <1>3 DEF T, e

(* The sum of the differences of neighbours.                                 *)
LEMMA Telescope ==
  ASSUME NEW n \in Nat, NEW f, NEW g \in [0 .. n -> Int],
         \A q \in 1 .. n : f[q] = g[q - 1] - g[q]
  PROVE  SumFunctionOnSet(f, 1 .. n) = g[0] - g[n]
<1>. DEFINE Fine(k) == SumFunctionOnSet(f, 1 .. k) = g[0] - g[k]
            K == {k \in Nat : k <= n => Fine(k)}
<1>0. \A k \in Nat : IsFiniteSet(1 .. k)
  BY FS_Interval
<1>1. 0 \in K
  <2>1. 1 .. 0 = {} /\ g[0] \in Int
    OBVIOUS
  <2>2. SumFunctionOnSet({}, {}) = 0 /\ SumFunctionOnSet(f, {}) = 0
    BY FS_EmptySet, SumChosen
  <2>3. g[0] - g[0] = 0
    BY <2>1
  <2>. QED
    BY <2>1, <2>2, <2>3
<1>2. ASSUME NEW k \in Nat, k \in K PROVE k + 1 \in K
  <2>. SUFFICES ASSUME k + 1 <= n PROVE Fine(k + 1)
    OBVIOUS
  <2>1. SumFunctionOnSet(f, 1 .. k) = g[0] - g[k]
    BY <1>2
  <2>2. (1 .. k + 1) \ {k + 1} = 1 .. k /\ k + 1 \in 1 .. k + 1 /\ (k + 1) - 1 = k
    BY SMTT(30)
  <2>3. \A q \in 1 .. k + 1 : f[q] \in Int
    <3>. SUFFICES ASSUME NEW q \in 1 .. k + 1 PROVE f[q] \in Int
      OBVIOUS
    <3>1. q \in 1 .. n /\ q - 1 \in 0 .. n /\ q \in 0 .. n
      OBVIOUS
    <3>2. g[q - 1] \in Int /\ g[q] \in Int
      BY <3>1
    <3>. QED
      BY <3>1, <3>2
  <2>. DEFINE e == k + 1
  <2>5. SumFunctionOnSet(f, 1 .. k + 1) = f[e] + SumFunctionOnSet(f, 1 .. k)
    BY <2>3, SumLast
  <2>6. f[e] = g[k] - g[e] /\ g[0] \in Int /\ g[k] \in Int /\ g[e] \in Int
    BY <2>2
  <2>7. SumFunctionOnSet(f, 1 .. k + 1) = g[0] - g[e]
    <3>. HIDE DEF e
    <3>. QED
      BY <2>1, <2>5, <2>6
  <2>. QED
    BY <2>7
<1>. HIDE DEF K
<1>3. n \in K
  BY <1>1, <1>2, AllNumbers
<1>. QED
  BY <1>3 DEF K
===============================================================================
