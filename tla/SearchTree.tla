------------------------------ MODULE SearchTree ------------------------------
(***************************************************************************)
(* tree.cpp: the binary search tree over the strings of MAX_CODED bytes of *)
(* the window, as operators from a record with the array tree, here node,  *)
(* and treeRoot, here root.                                                *)
(*                                                                         *)
(* The code also follows the indices ROOT_INDEX and NULL_INDEX, which are  *)
(* behind the array.  In the program that the Makefile builds, tree is the *)
(* last variable of all, and what follows is memory that is zero at first  *)
(* and that nothing else uses; so it is here.                              *)
(***************************************************************************)
EXTENDS Window

ROOT_INDEX == WINDOW_SIZE + 1
NULL_INDEX == ROOT_INDEX + 1

Memory == 0 .. NULL_INDEX
Node(left, right, up) == [leftChild |-> left, rightChild |-> right, parent |-> up]
NullNode == Node(NULL_INDEX, NULL_INDEX, NULL_INDEX)

ClearNode(i, t) == [t EXCEPT !.node[i] = NullNode]

(* InitializeSearchStructures: for equal bytes, any string will do. *)
RootOnly ==
  LET root == (WINDOW_SIZE - MAX_CODED) - 1
  IN [node |-> [i \in Memory |-> IF i = root THEN [NullNode EXCEPT !.parent = ROOT_INDEX]
                                 ELSE IF i \in Indices THEN NullNode
                                 ELSE Node(0, 0, 0)],
      root |-> root]

(* CompareString: the difference of the first bytes that differ. *)
CompareString(window, i1, i2) ==
  LET byte(i, k) == window[Wrap(i + k, WINDOW_SIZE)]
      differ == {k \in 0 .. MAX_CODED - 1 : byte(i1, k) # byte(i2, k)}
      first == CHOOSE k \in differ : \A l \in differ : k <= l
  IN IF differ = {} THEN 0 ELSE byte(i1, first) - byte(i2, first)

FixChildren(i, t) ==
  LET below(c, u) == IF c = NULL_INDEX THEN u ELSE [u EXCEPT !.node[c].parent = i]
      fixed == below(t.node[i].leftChild, t)
  IN below(fixed.node[i].rightChild, fixed)

(* Where the parent of i has it, it has j instead. *)
Relinked(i, j, t) ==
  LET up == t.node[i].parent
  IN IF t.node[up].leftChild = i THEN [t EXCEPT !.node[up].leftChild = j]
     ELSE [t EXCEPT !.node[up].rightChild = j]

-------------------------------------------------------------------------------
(* AddString *)

(* The newer of two equal strings takes the place of the older one. *)
NewRoot(i, t) ==
  LET placed == [t EXCEPT !.node[i] = [t.node[t.root] EXCEPT !.parent = ROOT_INDEX]]
  IN [ClearNode(t.root, FixChildren(i, placed)) EXCEPT !.root = i]

Replaced(i, here, t) ==
  LET placed == FixChildren(i, [t EXCEPT !.node[i] = t.node[here]])
  IN ClearNode(here, Relinked(here, i, placed))

Child(here, compare, t) ==
  IF compare < 0 THEN t.node[here].leftChild ELSE t.node[here].rightChild

Attached(i, here, compare, t) ==
  LET linked == IF compare < 0 THEN [t EXCEPT !.node[here].leftChild = i]
                ELSE [t EXCEPT !.node[here].rightChild = i]
  IN [linked EXCEPT !.node[i] = Node(NULL_INDEX, NULL_INDEX, here)]

-------------------------------------------------------------------------------
(* RemoveString *)

HasBoth(i, t) == NULL_INDEX \notin {t.node[i].leftChild, t.node[i].rightChild}

(* The only child, or the NULL_INDEX. *)
OnlyChild(i, t) == IF t.node[i].rightChild = NULL_INDEX THEN t.node[i].leftChild
                   ELSE t.node[i].rightChild

(* here, the rightmost descendant on the left of i, receives its children. *)
Promoted(i, here, t) ==
  LET unlinked == [t EXCEPT !.node[t.node[here].parent].rightChild = t.node[here].leftChild]
      lifted == [unlinked EXCEPT !.node[unlinked.node[here].leftChild].parent =
                                    unlinked.node[here].parent]
      left == [lifted EXCEPT !.node[here].leftChild = lifted.node[i].leftChild]
      moved == IF here = t.node[i].leftChild THEN t
               ELSE [left EXCEPT !.node[left.node[i].leftChild].parent = here]
      right == [moved EXCEPT !.node[here].rightChild = moved.node[i].rightChild]
  IN [right EXCEPT !.node[right.node[i].rightChild].parent = here]

(* Mutant of TakenOut: the root is not updated. *)
TakenOut_RootKept(i, here, t) ==
  LET relinked == Relinked(i, here, t)
  IN ClearNode(i, [relinked EXCEPT !.node[here].parent = relinked.node[i].parent])

(* i is replaced by here and cleared. *)
TakenOut(i, here, t) ==
  LET relinked == Relinked(i, here, t)
  IN ClearNode(i, [relinked EXCEPT !.node[here].parent = relinked.node[i].parent,
                                   !.root = IF @ = i THEN here ELSE @])
===============================================================================
