------------------------------- MODULE Matchers -------------------------------
(***************************************************************************)
(* The five programs that can search the sliding window for a match, one   *)
(* of which the Makefile links with lzss.cpp: brute.cpp, list.cpp (Chains, *)
(* by the first byte), hash.cpp (Chains, by a hash), kmp.cpp (KMP) and     *)
(* tree.cpp (SearchTree).  The encoder calls FindMatch and ReplaceChar, in *)
(* any order here, the latter for one index of the window after the other. *)
(*                                                                         *)
(* A call to a tree takes many steps, as its loops need not end; the other *)
(* calls are one step each.                                                *)
(***************************************************************************)
EXTENDS Window, SequencesExt

CONSTANTS Space,                  \* the byte that fills the window
          Chars,                  \* the bytes to consider
          HASH_SIZE, HASH_SHIFT,  \* the lists of the hash table; 5
          Methods,                \* the programs to consider
          MaxReplaced             \* bound on the calls of a tree's ReplaceChar

ASSUME MatchersAssumption ==
  /\ Space \in Chars
  /\ Chars \subseteq Nat
  /\ HASH_SIZE \in Nat \ {0}
  /\ HASH_SHIFT \in Nat
  /\ Methods \subseteq {"brute", "list", "hash", "kmp", "tree"}
  /\ MaxReplaced \in Nat
  /\ MAX_CODED + 2 <= WINDOW_SIZE

VARIABLES method,                  \* the program
          window, windowHead,      \* the sliding window; what is replaced next
          chains,                  \* its lists
          tree,                    \* its tree
          lookahead, uncodedHead,  \* what FindMatch was asked for
          match,                   \* matchData
          pc,
          replacement, k, here,    \* the variables of a tree's functions
          replaced, emptied        \* history: the calls, and whether the tree
                                   \* was ever without any node

List == INSTANCE Chains
Kmp  == INSTANCE KMP
Tree == INSTANCE SearchTree

query == <<lookahead, uncodedHead, match>>
work == <<replacement, k, here>>
vars == <<method, window, windowHead, chains, tree, query, pc, work, replaced,
          emptied>>

Lookaheads == [0 .. MAX_CODED - 1 -> Chars]
NoText == [x \in 0 .. MAX_CODED - 1 |-> Space]

(* Bitwise exclusive or of numbers of 31 bits, which a key of the 1024      *)
(* lists, shifted by 5, is far below.                                       *)
Xor(a, b) ==
  SumFunction([x \in 0 .. 30 |-> (((a \div 2 ^ x) + (b \div 2 ^ x)) % 2) * 2 ^ x])

(* hash.cpp: the key of the MAX_UNCODED + 1 bytes of a ring from offset on. *)
HashKey(ring, offset, limit) ==
  LET mixed(key, c) == Xor(key * 2 ^ HASH_SHIFT, c) % HASH_SIZE
  IN FoldLeft(mixed, 0,
              [n \in 1 .. MAX_UNCODED + 1 |-> ring[Wrap(offset + n - 1, limit)]])

Keys == IF method = "list" THEN Chars ELSE 0 .. HASH_SIZE - 1

Key(ring, offset, limit) ==
  IF method = "list" THEN ring[offset] ELSE HashKey(ring, offset, limit)

Init ==
  /\ method \in Methods
  /\ window = [x \in Indices |-> Space]
  /\ windowHead = 0
  /\ chains = IF method \in {"list", "hash"}
              THEN List!OneChain(Key(window, 0, WINDOW_SIZE), Keys) ELSE << >>
  /\ tree = IF method = "tree" THEN Tree!RootOnly ELSE << >>
  /\ lookahead = NoText
  /\ uncodedHead = 0
  /\ match = Match(0, 0)
  /\ pc = "ready"
  /\ replacement = Space
  /\ k = 0
  /\ here = 0
  /\ replaced = 0
  /\ emptied = FALSE

-------------------------------------------------------------------------------
(* FindMatch *)

(* How many bytes of the window at i and of the lookahead agree. *)
CommonLength(i) ==
  Max({n \in 0 .. MAX_CODED : SameBytes(window, i, lookahead', uncodedHead', n)})

Longer(i, m) == CommonLength(i) > m.length

(* The first of the longest matches that begin at these indices. *)
FirstLongest(indices) ==
  FoldLeft(LAMBDA m, i : IF Longer(i, m) THEN Match(i, CommonLength(i)) ELSE m,
           Match(0, 0), indices)

BruteMatch == FirstLongest([x \in 1 .. WINDOW_SIZE |-> Wrap(windowHead + x - 1, WINDOW_SIZE)])

ChainMatch == FirstLongest(List!Chain(Key(lookahead', uncodedHead', MAX_CODED), chains))

KmpMatch(beyond) ==
  Kmp!KMPSearch(window, windowHead,
                [x \in 0 .. MAX_CODED - 1 |-> lookahead'[Wrap(uncodedHead' + x, MAX_CODED)]],
                beyond)

Ask == /\ pc = "ready"
       /\ lookahead' \in Lookaheads
       /\ uncodedHead' \in 0 .. MAX_CODED - 1

FindMatch ==
  /\ Ask
  /\ \/ method = "brute" /\ match' = BruteMatch
     \/ method \in {"list", "hash"} /\ match' = ChainMatch
     \/ method = "kmp" /\ \E beyond \in Chars : match' = KmpMatch(beyond)
  /\ pc' = "found"
  /\ UNCHANGED <<method, window, windowHead, chains, tree, work, replaced, emptied>>

FindInTree ==
  /\ Ask
  /\ method = "tree"
  /\ match' = Match(0, 0)
  /\ here' = tree.root
  /\ pc' = "search"
  /\ UNCHANGED <<method, window, windowHead, chains, tree, replacement, k, replaced,
                 emptied>>

(* One node on the way down: the match may be longer, and the first byte   *)
(* that differs tells where to go on.                                      *)
SearchNode ==
  /\ pc = "search"
  /\ here # Tree!NULL_INDEX
  /\ UNCHANGED <<lookahead, uncodedHead>>
  /\ LET n == CommonLength(here)
         compare == window[Wrap(here + n, WINDOW_SIZE)]
                      - lookahead[Wrap(uncodedHead + n, MAX_CODED)]
     IN /\ match' = IF Longer(here, match) THEN Match(here, n) ELSE match
        /\ IF n = MAX_CODED THEN pc' = "found" /\ UNCHANGED here
           ELSE /\ here' = Tree!Child(here, - compare, tree)
                /\ UNCHANGED pc
  /\ UNCHANGED <<method, window, windowHead, chains, tree, replacement, k, replaced,
                 emptied>>

EndOfSearch ==
  /\ pc = "search"
  /\ here = Tree!NULL_INDEX
  /\ pc' = "found"
  /\ UNCHANGED <<method, window, windowHead, chains, tree, query, work, replaced,
                 emptied>>

Return ==
  /\ pc = "found"
  /\ pc' = "ready"
  /\ match' = Match(0, 0)
  /\ lookahead' = NoText
  /\ uncodedHead' = 0
  /\ here' = 0
  /\ UNCHANGED <<method, window, windowHead, chains, tree, replacement, k, replaced,
                 emptied>>

-------------------------------------------------------------------------------
(* ReplaceChar *)

(* Mutant of Behind: the first one that contains the byte is left out. *)
Behind_OneLess(n) == [x \in 1 .. n |-> (windowHead + x - n) % WINDOW_SIZE]

(* The strings of n + 1 bytes that contain the byte at windowHead. *)
Behind(n) == [x \in 1 .. n + 1 |-> (windowHead + x - 1 - n) % WINDOW_SIZE]

(* list.cpp moves one index to another list, hash.cpp those of all strings. *)
MoveStrings(strings) ==
  LET remove(s, i) == List!Removed(i, Key(window, i, WINDOW_SIZE), s)
      add(s, i) == List!Added(i, Key(window', i, WINDOW_SIZE), s)
  IN \E without \in {FoldLeft(remove, chains, strings)} :
       chains' = FoldLeft(add, without, strings)

Store(c) == /\ window' = [window EXCEPT ![windowHead] = c]
            /\ windowHead' = Wrap(windowHead + 1, WINDOW_SIZE)

ReplaceChar(c) ==
  /\ pc = "ready"
  /\ method # "tree"
  /\ Store(c)
  /\ \/ method \in {"brute", "kmp"} /\ UNCHANGED chains
     \/ method = "list" /\ MoveStrings(Behind(0))
     \/ method = "hash" /\ MoveStrings(Behind(MAX_UNCODED))
  /\ UNCHANGED <<method, tree, query, pc, work, replaced, emptied>>

(* The strings that a tree takes out and puts in, the k-th of them. *)
String == Behind(MAX_CODED)[k]

TreeStep == UNCHANGED <<method, windowHead, chains, query, replacement>>

ReplaceInTree(c) ==
  /\ pc = "ready"
  /\ method = "tree"
  /\ replaced < MaxReplaced
  /\ replaced' = replaced + 1
  /\ replacement' = c
  /\ k' = 1
  /\ pc' = "remove"
  /\ UNCHANGED <<method, window, windowHead, chains, tree, query, here, emptied>>

(* The tree after a removal, and the next string. *)
Unhook(after) ==
  /\ \E t \in {after} : tree' = t /\ emptied' = (emptied \/ t.root = Tree!NULL_INDEX)
  /\ k' = k + 1
  /\ pc' = "remove"
  /\ TreeStep
  /\ UNCHANGED <<window, here, replaced>>

Removing == pc = "remove" /\ k <= MAX_CODED + 1
InTree(i) == tree.node[i].parent # Tree!NULL_INDEX

SkipString == Removing /\ ~ InTree(String) /\ Unhook(tree)

RemoveString ==
  /\ Removing
  /\ InTree(String)
  /\ ~ Tree!HasBoth(String, tree)
  /\ Unhook(Tree!TakenOut(String, Tree!OnlyChild(String, tree), tree))

(* "promote rightmost left descendant" *)
LookForRightmost ==
  /\ Removing
  /\ InTree(String)
  /\ Tree!HasBoth(String, tree)
  /\ here' = tree.node[String].leftChild
  /\ pc' = "rightmost"
  /\ TreeStep
  /\ UNCHANGED <<window, tree, k, replaced, emptied>>

Right == tree.node[here].rightChild

GoRight ==
  /\ pc = "rightmost"
  /\ Right # Tree!NULL_INDEX
  /\ here' = Right
  /\ TreeStep
  /\ UNCHANGED <<window, tree, pc, k, replaced, emptied>>

Promote ==
  /\ pc = "rightmost"
  /\ Right = Tree!NULL_INDEX
  /\ Unhook(Tree!TakenOut(String, here, Tree!Promoted(String, here, tree)))

(* All strings with the old byte are out; now those with the new one. *)
StoreByte ==
  /\ pc = "remove"
  /\ k = MAX_CODED + 2
  /\ window' = [window EXCEPT ![windowHead] = replacement]
  /\ k' = 1
  /\ pc' = "add"
  /\ TreeStep
  /\ UNCHANGED <<tree, here, replaced, emptied>>

Hook(after) ==
  /\ tree' = after
  /\ k' = k + 1
  /\ pc' = "add"
  /\ TreeStep
  /\ UNCHANGED <<window, here, replaced, emptied>>

Adding == pc = "add" /\ k <= MAX_CODED + 1
Compare(i) == Tree!CompareString(window, String, i)

AddAtRoot == Adding /\ Compare(tree.root) = 0 /\ Hook(Tree!NewRoot(String, tree))

StartAtRoot ==
  /\ Adding
  /\ Compare(tree.root) # 0
  /\ here' = tree.root
  /\ pc' = "descend"
  /\ TreeStep
  /\ UNCHANGED <<window, tree, k, replaced, emptied>>

Below == Tree!Child(here, Compare(here), tree)

Descend ==
  /\ pc = "descend"
  /\ Compare(here) # 0
  /\ Below # Tree!NULL_INDEX
  /\ here' = Below
  /\ TreeStep
  /\ UNCHANGED <<window, tree, pc, k, replaced, emptied>>

AttachString ==
  /\ pc = "descend"
  /\ Compare(here) # 0
  /\ Below = Tree!NULL_INDEX
  /\ Hook(Tree!Attached(String, here, Compare(here), tree))

ReplaceNode ==
  /\ pc = "descend"
  /\ Compare(here) = 0
  /\ Hook(Tree!Replaced(String, here, tree))

EndOfReplacing ==
  /\ pc = "add"
  /\ k = MAX_CODED + 2
  /\ windowHead' = Wrap(windowHead + 1, WINDOW_SIZE)
  /\ k' = 0
  /\ here' = 0
  /\ replacement' = Space
  /\ pc' = "ready"
  /\ UNCHANGED <<method, window, chains, tree, query, replaced, emptied>>

Search == FindMatch \/ FindInTree \/ SearchNode \/ EndOfSearch \/ Return

TreeRemoves == SkipString \/ RemoveString \/ LookForRightmost \/ GoRight \/ Promote
TreeAdds == AddAtRoot \/ StartAtRoot \/ Descend \/ AttachString \/ ReplaceNode

Replace == \/ \E c \in Chars : ReplaceChar(c) \/ ReplaceInTree(c)
           \/ TreeRemoves \/ StoreByte \/ TreeAdds \/ EndOfReplacing

Next == Search \/ Replace

Spec == Init /\ [][Next]_vars /\ WF_vars(Replace)

-------------------------------------------------------------------------------
(* Every index of the window is in one list only, once, and that is the    *)
(* list of the bytes that it has now: of the strings that contain a        *)
(* replaced byte none is left behind in the list of its old key.           *)
ChainsHoldWindow ==
  method \in {"list", "hash"} =>
    \A key \in Keys :
      LET chain == List!Chain(key, chains)
      IN /\ IsInjective(chain)
         /\ Range(chain) = {i \in Indices : Key(window, i, WINDOW_SIZE) = key}

(* The nodes under i, and i. *)
Subtree(i) ==
  LET level[n \in Indices] ==
        IF n = 0 THEN {i}
        ELSE {c \in UNION {{tree.node[x].leftChild, tree.node[x].rightChild} :
                             x \in level[n - 1]} : c # Tree!NULL_INDEX}
  IN IF i = Tree!NULL_INDEX THEN {} ELSE UNION {level[n] : n \in Indices}

(* As long as it was never empty, the tree is a search tree between the    *)
(* calls: all nodes that know a parent are under the root and known to     *)
(* their parents, and on the left (right) of a node are smaller (greater)  *)
(* strings only - of the window as it is now.                              *)
TreeIsSearchTree ==
  method = "tree" /\ pc = "ready" /\ ~ emptied =>
    LET nodes == {i \in Indices : InTree(i)}
        Less(i, j) == Tree!CompareString(window, i, j) < 0
    IN /\ nodes = Subtree(tree.root)
       /\ \A i \in nodes :
            LET left == tree.node[i].leftChild
                right == tree.node[i].rightChild
            IN /\ \A c \in {left, right} \ {Tree!NULL_INDEX} : tree.node[c].parent = i
               /\ \A j \in Subtree(left) : Less(j, i)
               /\ \A j \in Subtree(right) : Less(i, j)

(* lzlocal.h: "FindMatch will return the encoded_string_t value referencing *)
(* the match in the sliding window dictionary."                             *)
IsMatch == SameBytes(window, match.offset, lookahead, uncodedHead, match.length)
ReturnsMatch == pc = "found" => IsMatch

(* "the longest sequence matching": no string of the window matches more,  *)
(* or, in a tree, none that has a node.  A hash finds none that is too     *)
(* short to be encoded, and the indices of kmp.cpp have to be such that    *)
(* Wrap makes them indices of the window.                                  *)
FindsLongest ==
  pc = "found" /\ ~ emptied =>
    LET known == IF method = "tree" THEN {i \in Indices : InTree(i)} ELSE Indices
        longest == Max({n \in 0 .. MAX_CODED : n = 0 \/
                          \E i \in known : SameBytes(window, i, lookahead, uncodedHead, n)})
    IN \/ method = "kmp" /\ windowHead + WINDOW_SIZE + MAX_CODED - 2 >= 2 * WINDOW_SIZE
       \/ IsMatch /\ match.length = longest
       \/ method = "hash" /\ IsMatch /\ longest <= MAX_UNCODED

(* ReplaceChar returns. *)
ReplaceReturns == pc = "remove" ~> pc = "ready"
===============================================================================
