-------------------------------- MODULE Tree --------------------------------
(***************************************************************************)
(* The binary search tree of source/tree.c.                                *)
(*                                                                         *)
(* A struct tree_t reached from the top by following left and right links  *)
(* is named by that path, so a tree is a function from the paths of its    *)
(* nodes to their entries.  The top structure always exists in C; with     *)
(* root == NULL it is the tree that has no node.  tree_dup and entry_dup   *)
(* copy, so two trees never share a node and the path names exactly one.   *)
(* strcmp orders the keys; the model orders them as integers.              *)
(***************************************************************************)
EXTENDS Integers, Sequences, FiniteSets, SequencesExt

CONSTANTS Key,      \* the keys, ordered by strcmp in the code
          Value,    \* the data blocks
          NoValue   \* the NULL that tree_get returns

ASSUME KeyAssumption == Key \subseteq Int
ASSUME ValueAssumption == NoValue \notin Value

Side == {"left", "right"}
Path == Seq(Side)
Entry == [key : Key, value : Value]

EmptyTree == << >>

Trees == UNION {[nodes -> Entry] : nodes \in SUBSET Path}

-----------------------------------------------------------------------------
(* Descending from the top: tree_put, tree_get and tree_del_aux all compare *)
(* the key with the entry of the node and recurse to one side.             *)

Toward(key, entry) == IF key < entry.key THEN "left" ELSE "right"

\* The descent for key goes through every node strictly above path.
Descends(tree, key, path) ==
    \A i \in 1..Len(path) :
        LET above == SubSeq(path, 1, i - 1)
        IN  /\ above \in DOMAIN tree
            /\ tree[above].key # key
            /\ path[i] = Toward(key, tree[above])

\* The descent ends at the node that holds key or at the first missing link.
EndsAt(tree, key, path) ==
    /\ Descends(tree, key, path)
    /\ path \in DOMAIN tree => tree[path].key = key

Links(tree) == {Append(path, side) : path \in DOMAIN tree, side \in Side}

Slot(tree, key) ==
    CHOOSE path \in {<< >>} \cup Links(tree) : EndsAt(tree, key, path)

-----------------------------------------------------------------------------
\* Mutant of TreePut: the entry under an equal key is left as it was.
PutKeepsOld(tree, key, value) ==
    LET slot == Slot(tree, key)
    IN  [path \in DOMAIN tree \cup {slot} |->
            IF path \in DOMAIN tree THEN tree[path]
            ELSE [key |-> key, value |-> value]]

\* Mutant of TreePut: the new entry gets no copy of the value.
PutForgetsValue(tree, key, value) ==
    LET slot == Slot(tree, key)
    IN  [path \in DOMAIN tree \cup {slot} |->
            IF path = slot THEN [key |-> key, value |-> NoValue] ELSE tree[path]]

TreePut(tree, key, value) ==
    LET slot == Slot(tree, key)
    IN  [path \in DOMAIN tree \cup {slot} |->
            IF path = slot THEN [key |-> key, value |-> value]
            ELSE tree[path]]

TreeGet(tree, key) ==
    LET slot == Slot(tree, key)
    IN  IF slot \in DOMAIN tree THEN tree[slot].value ELSE NoValue

Below(tree, path) == {node \in DOMAIN tree : IsPrefix(path, node)}

Suffix(path, n) == SubSeq(path, n + 1, Len(path))

\* The subtree at path is replaced by the one under its link to side; when
\* that link is NULL the subtree at path disappears.
Graft(tree, path, side) ==
    LET child == Append(path, side)
        moved == {path \o Suffix(node, Len(child)) : node \in Below(tree, child)}
    IN  [node \in (DOMAIN tree \ Below(tree, path)) \cup moved |->
            IF IsPrefix(path, node)
            THEN tree[child \o Suffix(node, Len(path))]
            ELSE tree[node]]

\* A node with at most one child is replaced by that child.
Unlink(tree, path) ==
    Graft(tree, path,
          IF Append(path, "left") \in DOMAIN tree THEN "left" ELSE "right")

HasBothChildren(tree, path) ==
    \A side \in Side : Append(path, side) \in DOMAIN tree

\* minValue looks for the leftmost node below top, but its loop assigns
\* arv = tree->left from the unchanged parameter: it finds the node when it
\* is top or its left child, and otherwise never leaves the loop.
MinValueSpins(tree, top) == Append(Append(top, "left"), "left") \in DOMAIN tree

\* Mutant of MinValue: the top of the subtree is taken for its least node.
MinValueTop(tree, top) == top

MinValue(tree, top) ==
    IF Append(top, "left") \in DOMAIN tree THEN Append(top, "left") ELSE top

DelSpins(tree, key) ==
    LET slot == Slot(tree, key)
    IN  /\ slot \in DOMAIN tree
        /\ HasBothChildren(tree, slot)
        /\ MinValueSpins(tree, Append(slot, "right"))

DelAux(tree, path) ==
    IF HasBothChildren(tree, path)
    THEN LET node == MinValue(tree, Append(path, "right"))
         IN  Unlink([tree EXCEPT ![path] = tree[node]], node)
    ELSE Unlink(tree, path)

TreeDel(tree, key) ==
    LET slot == Slot(tree, key)
    IN  IF slot \in DOMAIN tree THEN DelAux(tree, slot) ELSE tree

-----------------------------------------------------------------------------
TreeSize(tree) == Cardinality(DOMAIN tree)

\* The top structure counts even when it holds no entry.
TreeHeight(tree) == 1 + Max({0} \cup {Len(path) : path \in DOMAIN tree})

\* colocaArray writes a node, then its right subtree, then its left one.
VisitedBefore(one, other) ==
    \/ IsStrictPrefix(one, other)
    \/ \E i \in DOMAIN one \cap DOMAIN other :
            /\ \A j \in 1..(i - 1) : one[j] = other[j]
            /\ one[i] = "right"
            /\ other[i] = "left"

\* The pointer that colocaArray passes on counts the nodes already written.
Place(tree, path) == 1 + Cardinality({node \in DOMAIN tree : VisitedBefore(node, path)})

TreeKeys(tree) ==
    [i \in 1..TreeSize(tree) |->
        tree[CHOOSE path \in DOMAIN tree : Place(tree, path) = i].key]

-----------------------------------------------------------------------------
\* Every node lies where the descent for its own key arrives, so every
\* left descendant is smaller and every right descendant is larger.
SearchOrder(tree) ==
    \A path \in DOMAIN tree : Descends(tree, tree[path].key, path)

\* The dictionary the tree stands for, read without descending.
Contents(tree) ==
    [key \in {tree[path].key : path \in DOMAIN tree} |->
        tree[CHOOSE path \in DOMAIN tree : tree[path].key = key].value]
=============================================================================
