---------------------------- MODULE TreeTheorems ----------------------------
(***************************************************************************)
(* What the operators of Tree do to a tree, for every set of keys and every *)
(* well-formed tree.  Well-formed asks for a bound on the depth instead of  *)
(* for a finite number of nodes: it is all that the descents need to end,   *)
(* and a tree of that depth is finite.  The first part keeps the search     *)
(* order; the second reads the tree as the dictionary it stands for.        *)
(***************************************************************************)
EXTENDS Tree, SequenceTheorems, FiniteSetTheorems, FunctionTheorems,
        WellFoundedInduction, TLAPS

\* An entry with a key, whatever its value is.
IsEntry(entry) == /\ entry = [key |-> entry.key, value |-> entry.value]
                  /\ entry.key \in Key

Typed(tree) == /\ DOMAIN tree \subseteq Path
               /\ tree = [path \in DOMAIN tree |-> tree[path]]
               /\ \A path \in DOMAIN tree : IsEntry(tree[path])

\* The values are data blocks.
Valued(tree) == tree \in [DOMAIN tree -> Entry]

Shallow(tree) == \E depth \in Nat : \A path \in DOMAIN tree : Len(path) <= depth

WellFormed(tree) == Typed(tree) /\ Shallow(tree)

-----------------------------------------------------------------------------
(* Descents *)

\* A path followed by one more side has the same beginnings.
LEMMA BeginningOfAppend ==
    ASSUME NEW path \in Path, NEW side \in Side, NEW i \in 0..Len(path)
    PROVE  SubSeq(Append(path, side), 1, i) = SubSeq(path, 1, i)
<1>1. Append(path, side) = path \o <<side>>
    BY AppendIsConcat DEF Path
<1>2. CASE i = 0
    BY <1>2, SubSeqEmpty
<1>3. CASE i # 0
    BY <1>1, <1>3, SubSeqOfConcat1, LenProperties DEF Path
<1> QED BY <1>2, <1>3

\* A descent that has not arrived goes on to the link it turns to.
LEMMA DescentGoesOn ==
    ASSUME NEW tree, Typed(tree), NEW key \in Key, NEW path \in DOMAIN tree,
           Descends(tree, key, path), tree[path].key # key
    PROVE  LET next == Append(path, Toward(key, tree[path]))
           IN  /\ next \in Links(tree)
               /\ next \in Path
               /\ Len(next) = Len(path) + 1
               /\ Descends(tree, key, next)
<1> DEFINE side == Toward(key, tree[path])
           next == Append(path, side)
<1>1. path \in Path /\ side \in Side
    BY DEF Typed, Toward, Side
<1>2. /\ next \in Path
      /\ Len(next) = Len(path) + 1
      /\ \A i \in 1..Len(path) : next[i] = path[i]
      /\ next[Len(path) + 1] = side
    BY <1>1, AppendProperties DEF Path
<1>3. next \in Links(tree)
    BY <1>1 DEF Links
<1>4. ASSUME NEW i \in 1..Len(next)
      PROVE  /\ SubSeq(next, 1, i - 1) \in DOMAIN tree
             /\ tree[SubSeq(next, 1, i - 1)].key # key
             /\ next[i] = Toward(key, tree[SubSeq(next, 1, i - 1)])
    <2>1. Len(path) \in Nat
        BY <1>1, LenProperties DEF Path
    <2>2. i - 1 \in 0..Len(path)
        BY <1>2, <2>1
    <2>3. SubSeq(next, 1, i - 1) = SubSeq(path, 1, i - 1)
        BY <1>1, <2>2, BeginningOfAppend
    <2>4. CASE i <= Len(path)
        <3>1. /\ SubSeq(path, 1, i - 1) \in DOMAIN tree
              /\ tree[SubSeq(path, 1, i - 1)].key # key
              /\ path[i] = Toward(key, tree[SubSeq(path, 1, i - 1)])
            BY <2>1, <2>4 DEF Descends
        <3>2. next[i] = path[i]
            BY <1>2, <2>1, <2>4
        <3> HIDE DEF next
        <3> QED BY <2>3, <3>1, <3>2
    <2>5. CASE i = Len(path) + 1
        <3>1. SubSeq(path, 1, i - 1) = path
            BY <1>1, <2>1, <2>5, SubSeqFull DEF Path
        <3> QED BY <1>2, <2>3, <2>5, <3>1
    <2> QED BY <1>2, <2>1, <2>4, <2>5
<1> QED BY <1>2, <1>3, <1>4 DEF Descends

\* Every descent of a well-formed tree ends (tree_put, tree_get and
\* tree_del_aux recurse to a node that holds the key or to a NULL link), so
\* Slot is the end of one and never an arbitrary value.
THEOREM DescentEnds ==
    ASSUME NEW tree, WellFormed(tree), NEW key \in Key
    PROVE  /\ Slot(tree, key) \in {<< >>} \cup Links(tree)
           /\ Slot(tree, key) \in Path
           /\ EndsAt(tree, key, Slot(tree, key))
<1> DEFINE Starts == {<< >>} \cup Links(tree)
           Reached(n) == \E path \in Starts : Len(path) = n /\ Descends(tree, key, path)
           Missed == {n \in Nat : ~Reached(n)}
<1>1. /\ << >> \in Path
      /\ Len(<< >>) = 0
    BY EmptySeq DEF Path
<1>2. \A path \in DOMAIN tree : path \in Path /\ Len(path) \in Nat
    BY LenProperties DEF WellFormed, Typed, Path
<1>3. \A path \in Links(tree) :
          path \in Path /\ \E above \in DOMAIN tree : Len(path) = Len(above) + 1
    BY <1>2, AppendProperties DEF Links, Path
<1>4. \E path \in Starts : EndsAt(tree, key, path)
    <2>1. SUFFICES ASSUME \A path \in Starts : ~EndsAt(tree, key, path)
                   PROVE  FALSE
        OBVIOUS
    <2>2. PICK depth \in Nat : \A path \in DOMAIN tree : Len(path) <= depth
        BY DEF WellFormed, Shallow
    <2>3. depth + 2 \in Missed
        BY <1>1, <1>2, <1>3, <2>2
    <2>4. PICK least \in Missed : \A n \in Missed : <<n, least>> \notin OpToRel(<, Nat)
        <3>1. Missed \subseteq Nat /\ Missed # {}
            BY <2>3
        <3> HIDE DEF Missed
        <3> QED BY <3>1, NatLessThanWellFounded, WFMin
    <2>5. \A n \in Nat : n < least => Reached(n)
        BY <2>4 DEF OpToRel
    <2>6. Reached(0)
        BY <1>1 DEF Descends
    <2>7. least \in Nat /\ least # 0
        BY <2>6
    <2>8. Reached(least - 1)
        <3>1. least - 1 \in Nat /\ least - 1 < least
            BY <2>7
        <3> HIDE DEF Reached, Missed
        <3> QED BY <2>5, <3>1
    <2>9. PICK path \in Starts : Len(path) = least - 1 /\ Descends(tree, key, path)
        BY <2>8
    <2>10. path \in DOMAIN tree /\ tree[path].key # key
        BY <2>1, <2>9 DEF EndsAt
    <2>11. Reached(least)
        <3> DEFINE next == Append(path, Toward(key, tree[path]))
        <3>1. /\ next \in Links(tree)
              /\ Len(next) = Len(path) + 1
              /\ Descends(tree, key, next)
            BY <2>9, <2>10, DescentGoesOn DEF WellFormed
        <3>2. Len(next) = least
            BY <2>7, <2>9, <3>1
        <3> HIDE DEF next
        <3> QED BY <3>1, <3>2
    <2> QED BY <2>11
<1>5. Slot(tree, key) \in Starts /\ EndsAt(tree, key, Slot(tree, key))
    BY <1>4 DEF Slot
<1> QED BY <1>1, <1>3, <1>5

-----------------------------------------------------------------------------
(* Prefixes and what follows them *)

LEMMA PrefixAndSuffix ==
    ASSUME NEW path \in Path, NEW node \in Path, IsPrefix(path, node)
    PROVE  /\ Suffix(node, Len(path)) \in Path
           /\ path \o Suffix(node, Len(path)) = node
           /\ Len(Suffix(node, Len(path))) = Len(node) - Len(path)
<1>1. Len(path) \in Nat /\ Len(node) \in Nat /\ Len(path) <= Len(node)
    BY LenProperties DEF Path, IsPrefix
<1>2. \A i \in (Len(path) + 1)..Len(node) : node[i] \in Side
    BY <1>1, ElementOfSeq DEF Path
<1>3. /\ Suffix(node, Len(path)) \in Path
      /\ Len(Suffix(node, Len(path))) = Len(node) - Len(path)
    BY <1>1, <1>2, SubSeqProperties DEF Suffix, Path
<1>4. SubSeq(node, 1, Len(path)) = path
    BY SubSeqFull DEF IsPrefix, Path
<1>5. SubSeq(node, 1, Len(path)) \o SubSeq(node, Len(path) + 1, Len(node))
        = SubSeq(node, 1, Len(node))
    <2>1. /\ 1 \in 1 .. Len(node) + 1
          /\ Len(path) \in 1 - 1 .. Len(node)
          /\ Len(node) \in Len(path) .. Len(node)
        BY <1>1
    <2> QED BY <2>1, ConcatAdjacentSubSeq DEF Path
<1>6. SubSeq(node, 1, Len(node)) = node
    BY SubSeqFull DEF Path
<1> QED BY <1>3, <1>4, <1>5, <1>6 DEF Suffix

LEMMA SuffixOfConcat ==
    ASSUME NEW path \in Path, NEW rest \in Path
    PROVE  /\ path \o rest \in Path
           /\ Len(path \o rest) = Len(path) + Len(rest)
           /\ IsPrefix(path, path \o rest)
           /\ Suffix(path \o rest, Len(path)) = rest
<1>1. Len(path) \in Nat /\ Len(rest) \in Nat
    BY LenProperties DEF Path
<1>2. /\ path \o rest \in Path
      /\ Len(path \o rest) = Len(path) + Len(rest)
    BY ConcatProperties DEF Path
<1>3. SubSeq(path \o rest, 1, Len(path)) = SubSeq(path, 1, Len(path))
    <2>1. CASE Len(path) = 0
        BY <2>1, SubSeqEmpty
    <2>2. CASE Len(path) # 0
        BY <1>1, <2>2, SubSeqOfConcat1 DEF Path
    <2> QED BY <2>1, <2>2
<1>4. Suffix(path \o rest, Len(path)) = rest
    <2>1. CASE Len(rest) = 0
        <3>1. rest = << >>
            BY <2>1, EmptySeq DEF Path
        <3>2. SubSeq(path \o rest, Len(path) + 1, Len(path \o rest)) = << >>
            BY <1>1, <1>2, <2>1, SubSeqEmpty
        <3> QED BY <3>1, <3>2 DEF Suffix
    <2>2. CASE Len(rest) # 0
        <3>1. SubSeq(path \o rest, Len(path) + 1, Len(path) + Len(rest))
                = SubSeq(rest, 1, Len(rest))
            <4>1. /\ Len(path) + 1 \in Len(path) + 1 .. Len(path) + Len(rest)
                  /\ Len(path) + Len(rest) \in Len(path) + 1 .. Len(path) + Len(rest)
                BY <1>1, <2>2
            <4>2. SubSeq(path \o rest, Len(path) + 1, Len(path) + Len(rest))
                    = SubSeq(rest, Len(path) + 1 - Len(path), Len(path) + Len(rest) - Len(path))
                BY <4>1, SubSeqOfConcat2 DEF Path
            <4> QED BY <1>1, <4>2
        <3> QED BY <1>2, <3>1, SubSeqFull DEF Suffix, Path
    <2> QED BY <2>1, <2>2
<1> QED BY <1>1, <1>2, <1>3, <1>4 DEF IsPrefix

-----------------------------------------------------------------------------
(* Well-formed trees stay well-formed *)

LEMMA EmptyTreeWellFormed == WellFormed(EmptyTree)
<1>1. DOMAIN EmptyTree = {}
    BY DEF EmptyTree
<1> QED BY <1>1 DEF WellFormed, Typed, Shallow, EmptyTree

LEMMA PutWellFormed ==
    ASSUME NEW tree, WellFormed(tree), NEW key \in Key, NEW value
    PROVE  WellFormed(TreePut(tree, key, value))
<1> DEFINE slot == Slot(tree, key)
           after == TreePut(tree, key, value)
<1>1. slot \in Path /\ slot \in {<< >>} \cup Links(tree)
    BY DescentEnds
<1>2. /\ DOMAIN after = DOMAIN tree \cup {slot}
      /\ \A path \in DOMAIN after :
            after[path] = IF path = slot THEN [key |-> key, value |-> value] ELSE tree[path]
    BY DEF TreePut
<1>3. Typed(after)
    <2>1. \A path \in DOMAIN after : IsEntry(after[path])
        BY <1>2 DEF WellFormed, Typed, IsEntry
    <2>2. after = [path \in DOMAIN after |-> after[path]]
        BY DEF TreePut
    <2> HIDE DEF after
    <2> QED BY <1>1, <1>2, <2>1, <2>2 DEF WellFormed, Typed
<1>4. Shallow(after)
    <2>1. PICK depth \in Nat : \A path \in DOMAIN tree : Len(path) <= depth
        BY DEF WellFormed, Shallow
    <2>2. Len(slot) \in Nat
        BY <1>1, LenProperties DEF Path
    <2>3. \A path \in DOMAIN tree : Len(path) \in Nat
        BY LenProperties DEF WellFormed, Typed, Path
    <2>4. \A path \in DOMAIN after : Len(path) <= depth + Len(slot)
        BY <1>2, <2>1, <2>2, <2>3
    <2> HIDE DEF slot, after
    <2>5. depth + Len(slot) \in Nat
        BY <2>2
    <2> QED BY <2>4, <2>5 DEF Shallow
<1> QED BY <1>3, <1>4 DEF WellFormed

\* A node of a grafted tree comes from a node of the tree that is no higher.
LEMMA GraftMoves ==
    ASSUME NEW tree, Typed(tree), NEW path \in Path, NEW side \in Side,
           NEW node \in DOMAIN Graft(tree, path, side)
    PROVE  LET from == IF IsPrefix(path, node)
                       THEN Append(path, side) \o Suffix(node, Len(path))
                       ELSE node
           IN  /\ node \in Path
               /\ from \in DOMAIN tree
               /\ Len(node) <= Len(from)
               /\ Graft(tree, path, side)[node] = tree[from]
<1> DEFINE child == Append(path, side)
           moved == {path \o Suffix(n, Len(child)) : n \in Below(tree, child)}
<1>1. child \in Path /\ Len(child) = Len(path) + 1 /\ Len(path) \in Nat
    BY AppendProperties, LenProperties DEF Path
<1>2. DOMAIN Graft(tree, path, side) = (DOMAIN tree \ Below(tree, path)) \cup moved
    BY DEF Graft
<1>3. Graft(tree, path, side)[node] =
        IF IsPrefix(path, node) THEN tree[child \o Suffix(node, Len(path))] ELSE tree[node]
    BY DEF Graft
<1>4. CASE node \in moved
    <2>1. PICK n \in Below(tree, child) : node = path \o Suffix(n, Len(child))
        BY <1>4
    <2>2. n \in DOMAIN tree /\ n \in Path /\ IsPrefix(child, n)
        BY <2>1 DEF Below, Typed
    <2>3. /\ Suffix(n, Len(child)) \in Path
          /\ child \o Suffix(n, Len(child)) = n
          /\ Len(Suffix(n, Len(child))) = Len(n) - Len(child)
        BY <1>1, <2>2, PrefixAndSuffix
    <2>4. /\ node \in Path
          /\ Len(node) = Len(path) + Len(Suffix(n, Len(child)))
          /\ IsPrefix(path, node)
          /\ Suffix(node, Len(path)) = Suffix(n, Len(child))
        BY <2>1, <2>3, SuffixOfConcat
    <2>5. Len(n) \in Nat
        BY <2>2, LenProperties DEF Path
    <2>6. Len(node) <= Len(n)
        BY <1>1, <2>3, <2>4, <2>5
    <2> QED BY <1>3, <2>2, <2>3, <2>4, <2>6
<1>5. CASE node \in DOMAIN tree \ Below(tree, path)
    <2>1. ~IsPrefix(path, node) /\ node \in Path
        BY <1>5 DEF Below, Typed
    <2>2. Len(node) \in Nat
        BY <2>1, LenProperties DEF Path
    <2> QED BY <1>3, <1>5, <2>1, <2>2
<1> QED BY <1>2, <1>4, <1>5

LEMMA GraftWellFormed ==
    ASSUME NEW tree, WellFormed(tree), NEW path \in Path, NEW side \in Side
    PROVE  WellFormed(Graft(tree, path, side))
<1> DEFINE after == Graft(tree, path, side)
<1>1. \A node \in DOMAIN after :
        /\ node \in Path
        /\ \E from \in DOMAIN tree : Len(node) <= Len(from) /\ after[node] = tree[from]
    BY GraftMoves DEF WellFormed
<1>2. after = [node \in DOMAIN after |-> after[node]]
    BY DEF Graft
<1> HIDE DEF after
<1>3. Typed(after)
    BY <1>1, <1>2 DEF WellFormed, Typed
<1>4. Shallow(after)
    <2>1. PICK depth \in Nat : \A node \in DOMAIN tree : Len(node) <= depth
        BY DEF WellFormed, Shallow
    <2>2. \A node \in Path : Len(node) \in Nat
        BY LenProperties DEF Path
    <2>3. \A node \in DOMAIN after : Len(node) <= depth
        BY <1>1, <2>1, <2>2 DEF WellFormed, Typed
    <2> QED BY <2>3 DEF Shallow
<1> QED BY <1>3, <1>4 DEF WellFormed, after

LEMMA UnlinkWellFormed ==
    ASSUME NEW tree, WellFormed(tree), NEW path \in Path
    PROVE  WellFormed(Unlink(tree, path))
BY GraftWellFormed DEF Unlink, Side

LEMMA DelWellFormed ==
    ASSUME NEW tree, WellFormed(tree), NEW key \in Key
    PROVE  WellFormed(TreeDel(tree, key))
<1> DEFINE slot == Slot(tree, key)
<1>1. CASE slot \notin DOMAIN tree
    BY <1>1 DEF TreeDel
<1>2. CASE slot \in DOMAIN tree /\ ~HasBothChildren(tree, slot)
    <2>1. slot \in Path
        BY <1>2 DEF WellFormed, Typed
    <2> QED BY <1>2, <2>1, UnlinkWellFormed DEF TreeDel, DelAux
<1>3. CASE slot \in DOMAIN tree /\ HasBothChildren(tree, slot)
    <2> DEFINE node == MinValue(tree, Append(slot, "right"))
               copied == [tree EXCEPT ![slot] = tree[node]]
    <2>1. node \in DOMAIN tree
        BY <1>3 DEF MinValue, HasBothChildren, Side
    <2>2. WellFormed(copied)
        BY <1>3, <2>1 DEF WellFormed, Typed, Shallow
    <2>3. TreeDel(tree, key) = Unlink(copied, node)
        BY <1>3 DEF TreeDel, DelAux
    <2>4. node \in Path
        BY <2>1 DEF WellFormed, Typed
    <2> HIDE DEF copied, node
    <2> QED BY <2>2, <2>3, <2>4, UnlinkWellFormed
<1> QED BY <1>1, <1>2, <1>3

\* The values stay data blocks.
LEMMA PutValued ==
    ASSUME NEW tree, Valued(tree), NEW key \in Key, NEW value \in Value
    PROVE  Valued(TreePut(tree, key, value))
<1> DEFINE slot == Slot(tree, key)
           after == TreePut(tree, key, value)
<1>1. /\ DOMAIN after = DOMAIN tree \cup {slot}
      /\ \A path \in DOMAIN after :
            after[path] = IF path = slot THEN [key |-> key, value |-> value] ELSE tree[path]
      /\ after = [path \in DOMAIN after |-> after[path]]
    BY DEF TreePut
<1> HIDE DEF after
<1>2. \A path \in DOMAIN after : after[path] \in Entry
    BY <1>1 DEF Valued, Entry
<1> QED BY <1>1, <1>2 DEF Valued, after

LEMMA UnlinkValued ==
    ASSUME NEW tree, Typed(tree), Valued(tree), NEW path \in Path
    PROVE  Valued(Unlink(tree, path))
<1>1. PICK side \in Side : Unlink(tree, path) = Graft(tree, path, side)
    BY DEF Unlink, Side
<1> DEFINE after == Graft(tree, path, side)
<1>2. \A node \in DOMAIN after : \E from \in DOMAIN tree : after[node] = tree[from]
    BY GraftMoves
<1>3. after = [node \in DOMAIN after |-> after[node]]
    BY DEF Graft
<1> HIDE DEF after
<1>4. \A node \in DOMAIN after : after[node] \in Entry
    BY <1>2 DEF Valued
<1> QED BY <1>1, <1>3, <1>4 DEF Valued, after

LEMMA DelValued ==
    ASSUME NEW tree, WellFormed(tree), Valued(tree), NEW key \in Key
    PROVE  Valued(TreeDel(tree, key))
<1> DEFINE slot == Slot(tree, key)
<1>1. CASE slot \notin DOMAIN tree
    BY <1>1 DEF TreeDel
<1>2. CASE slot \in DOMAIN tree /\ ~HasBothChildren(tree, slot)
    <2>1. slot \in Path /\ Typed(tree)
        BY <1>2 DEF WellFormed, Typed
    <2> QED BY <1>2, <2>1, UnlinkValued DEF TreeDel, DelAux
<1>3. CASE slot \in DOMAIN tree /\ HasBothChildren(tree, slot)
    <2> DEFINE node == MinValue(tree, Append(slot, "right"))
               copied == [tree EXCEPT ![slot] = tree[node]]
    <2>1. node \in DOMAIN tree
        BY <1>3 DEF MinValue, HasBothChildren, Side
    <2>2. Typed(copied) /\ node \in Path
        BY <1>3, <2>1 DEF WellFormed, Typed
    <2>3. Valued(copied)
        BY <1>3, <2>1 DEF Valued
    <2>4. TreeDel(tree, key) = Unlink(copied, node)
        BY <1>3 DEF TreeDel, DelAux
    <2> HIDE DEF copied, node
    <2> QED BY <2>2, <2>3, <2>4, UnlinkValued
<1> QED BY <1>1, <1>2, <1>3

-----------------------------------------------------------------------------
(* The search order, said of an ancestor and a descendant *)

Ordered(tree) ==
    \A above, rest \in Path :
        rest # << >> /\ above \o rest \in DOMAIN tree =>
            /\ above \in DOMAIN tree
            /\ tree[above].key # tree[above \o rest].key
            /\ rest[1] = Toward(tree[above \o rest].key, tree[above])

LEMMA ConcatParts ==
    ASSUME NEW above \in Path, NEW rest \in Path, rest # << >>
    PROVE  /\ Len(above) \in Nat
           /\ Len(rest) \in Nat \ {0}
           /\ Len(above) + 1 \in 1..Len(above \o rest)
           /\ SubSeq(above \o rest, 1, Len(above)) = above
           /\ (above \o rest)[Len(above) + 1] = rest[1]
           /\ above \o rest # above
<1>1. Len(above) \in Nat /\ Len(rest) \in Nat \ {0}
    BY LenProperties, EmptySeq DEF Path
<1>2. /\ Len(above \o rest) = Len(above) + Len(rest)
      /\ (above \o rest)[Len(above) + 1] = rest[1]
    <2>1. \A i \in 1 .. Len(above) + Len(rest) :
            (above \o rest)[i] = IF i <= Len(above) THEN above[i] ELSE rest[i - Len(above)]
        BY ConcatProperties DEF Path
    <2>2. /\ Len(above) + 1 \in 1 .. Len(above) + Len(rest)
          /\ ~(Len(above) + 1 <= Len(above))
          /\ Len(above) + 1 - Len(above) = 1
        BY <1>1
    <2>3. (above \o rest)[Len(above) + 1] = rest[1]
        BY <2>1, <2>2
    <2> QED BY <2>3, ConcatProperties DEF Path
<1>3. SubSeq(above \o rest, 1, Len(above)) = above
    BY SuffixOfConcat, SubSeqFull DEF IsPrefix, Path
<1>4. Len(above) + 1 \in 1..Len(above \o rest) /\ Len(above \o rest) # Len(above)
    BY <1>1, <1>2
<1> QED BY <1>1, <1>2, <1>3, <1>4

LEMMA SplitAt ==
    ASSUME NEW path \in Path, NEW i \in 1..Len(path)
    PROVE  LET above == SubSeq(path, 1, i - 1)
               rest == SubSeq(path, i, Len(path))
           IN  /\ above \in Path /\ rest \in Path
               /\ rest # << >>
               /\ above \o rest = path
               /\ rest[1] = path[i]
<1> DEFINE above == SubSeq(path, 1, i - 1)
           rest == SubSeq(path, i, Len(path))
<1>1. Len(path) \in Nat /\ \A j \in 1..Len(path) : path[j] \in Side
    BY LenProperties, ElementOfSeq DEF Path
<1>2. above \in Path
    <2>1. 1 \in Int /\ i - 1 \in Int /\ \A j \in 1..(i - 1) : path[j] \in Side
        BY <1>1
    <2> QED BY <2>1, SubSeqProperties DEF Path
<1>3. /\ rest \in Path
      /\ Len(rest) = Len(path) - i + 1
      /\ rest[1] = path[i]
    <2>1. i \in Int /\ Len(path) \in Int /\ \A j \in i..Len(path) : path[j] \in Side
        BY <1>1
    <2>2. /\ rest \in Seq(Side)
          /\ Len(rest) = IF i <= Len(path) THEN Len(path) - i + 1 ELSE 0
          /\ \A j \in 1 .. Len(path) - i + 1 : rest[j] = path[i + j - 1]
        BY <2>1, SubSeqProperties
    <2>3. 1 \in 1 .. Len(path) - i + 1 /\ i + 1 - 1 = i /\ i <= Len(path)
        BY <1>1
    <2> HIDE DEF rest
    <2> QED BY <2>2, <2>3 DEF Path
<1>4. rest # << >>
    BY <1>1, <1>3, EmptySeq
<1>5. above \o rest = path
    <2>1. /\ 1 \in 1 .. Len(path) + 1
          /\ i - 1 \in 1 - 1 .. Len(path)
          /\ Len(path) \in i - 1 .. Len(path)
          /\ (i - 1) + 1 = i
        BY <1>1
    <2>2. SubSeq(path, 1, i - 1) \o SubSeq(path, (i - 1) + 1, Len(path))
            = SubSeq(path, 1, Len(path))
        BY <2>1, ConcatAdjacentSubSeq DEF Path
    <2> QED BY <2>1, <2>2, SubSeqFull DEF Path
<1> QED BY <1>2, <1>3, <1>4, <1>5

LEMMA OrderedIsSearchOrder ==
    ASSUME NEW tree, Typed(tree)
    PROVE  SearchOrder(tree) <=> Ordered(tree)
<1>1. ASSUME SearchOrder(tree), NEW above \in Path, NEW rest \in Path,
             rest # << >>, above \o rest \in DOMAIN tree
      PROVE  /\ above \in DOMAIN tree
             /\ tree[above].key # tree[above \o rest].key
             /\ rest[1] = Toward(tree[above \o rest].key, tree[above])
    <2> DEFINE path == above \o rest
               i == Len(above) + 1
    <2>1. /\ i \in 1..Len(path) /\ i - 1 = Len(above)
          /\ SubSeq(path, 1, Len(above)) = above
          /\ path[i] = rest[1]
        BY <1>1, ConcatParts
    <2>2. Descends(tree, tree[path].key, path)
        BY <1>1 DEF SearchOrder
    <2> HIDE DEF path, i
    <2>3. /\ SubSeq(path, 1, i - 1) \in DOMAIN tree
          /\ tree[SubSeq(path, 1, i - 1)].key # tree[path].key
          /\ path[i] = Toward(tree[path].key, tree[SubSeq(path, 1, i - 1)])
        BY <2>1, <2>2 DEF Descends
    <2>4. /\ above \in DOMAIN tree
          /\ tree[above].key # tree[path].key
          /\ rest[1] = Toward(tree[path].key, tree[above])
        BY <2>1, <2>3
    <2> QED BY <2>4 DEF path
<1>2. ASSUME Ordered(tree), NEW path \in DOMAIN tree, NEW i \in 1..Len(path)
      PROVE  /\ SubSeq(path, 1, i - 1) \in DOMAIN tree
             /\ tree[SubSeq(path, 1, i - 1)].key # tree[path].key
             /\ path[i] = Toward(tree[path].key, tree[SubSeq(path, 1, i - 1)])
    <2> DEFINE above == SubSeq(path, 1, i - 1)
               rest == SubSeq(path, i, Len(path))
    <2>1. path \in Path
        BY DEF Typed
    <2>2. /\ above \in Path /\ rest \in Path
          /\ rest # << >>
          /\ above \o rest = path
          /\ rest[1] = path[i]
        BY <2>1, SplitAt
    <2> HIDE DEF above, rest
    <2>3. /\ above \in DOMAIN tree
          /\ tree[above].key # tree[path].key
          /\ rest[1] = Toward(tree[path].key, tree[above])
        BY <1>2, <2>2 DEF Ordered
    <2> QED BY <2>2, <2>3 DEF above
<1>3. SearchOrder(tree) => Ordered(tree)
    BY <1>1 DEF Ordered
<1>4. Ordered(tree) => SearchOrder(tree)
    BY <1>2 DEF SearchOrder, Descends
<1> QED BY <1>3, <1>4

LEMMA EmptyTreeOrdered == Ordered(EmptyTree)
<1>1. DOMAIN EmptyTree = {}
    BY DEF EmptyTree
<1> QED BY <1>1 DEF Ordered

LEMMA FirstOfConcat ==
    ASSUME NEW front \in Path, NEW back \in Path, front # << >>
    PROVE  front \o back # << >> /\ (front \o back)[1] = front[1]
<1>1. Len(front) \in Nat \ {0} /\ Len(back) \in Nat
    BY LenProperties, EmptySeq DEF Path
<1>2. /\ Len(front \o back) = Len(front) + Len(back)
      /\ \A i \in 1 .. Len(front) + Len(back) :
            (front \o back)[i] = IF i <= Len(front) THEN front[i] ELSE back[i - Len(front)]
    BY ConcatProperties DEF Path
<1>3. 1 \in 1 .. Len(front) + Len(back) /\ 1 <= Len(front)
    BY <1>1
<1>4. (front \o back)[1] = front[1]
    BY <1>2, <1>3
<1>5. Len(front \o back) # 0
    BY <1>1, <1>2
<1> QED BY <1>4, <1>5, EmptySeq

\* Of two beginnings of one path, one begins the other.
LEMMA BeginningsCompare ==
    ASSUME NEW above \in Path, NEW path \in Path, NEW whole \in Path,
           IsPrefix(above, whole), IsPrefix(path, whole), ~IsPrefix(path, above)
    PROVE  IsPrefix(above, path) /\ Len(above) < Len(path)
<1>1. Len(above) \in Nat /\ Len(path) \in Nat /\ Len(whole) \in Nat
    BY LenProperties DEF Path
<1>2. /\ Len(above) <= Len(whole) /\ Len(path) <= Len(whole)
      /\ SubSeq(above, 1, Len(above)) = SubSeq(whole, 1, Len(above))
      /\ SubSeq(path, 1, Len(path)) = SubSeq(whole, 1, Len(path))
    BY DEF IsPrefix
<1>3. ASSUME NEW n \in Nat, NEW long \in Path, n <= Len(long), IsPrefix(long, whole)
      PROVE  SubSeq(long, 1, n) = SubSeq(whole, 1, n)
    <2>1. CASE n = 0
        BY <2>1, SubSeqEmpty
    <2>2. CASE n # 0
        <3> DEFINE rest == Suffix(whole, Len(long))
        <3>1. rest \in Path /\ long \o rest = whole
            BY <1>3, PrefixAndSuffix
        <3>2. 1 \in 1..Len(long) /\ n \in 1..Len(long)
            BY <1>3, <2>2, LenProperties DEF Path
        <3> HIDE DEF rest
        <3>3. SubSeq(long \o rest, 1, n) = SubSeq(long, 1, n)
            BY <3>1, <3>2, SubSeqOfConcat1 DEF Path
        <3> QED BY <3>1, <3>3
    <2> QED BY <2>1, <2>2
<1>4. Len(above) < Len(path)
    <2>1. SUFFICES ASSUME Len(path) <= Len(above) PROVE FALSE
        BY <1>1
    <2>2. SubSeq(above, 1, Len(path)) = SubSeq(whole, 1, Len(path))
        BY <1>1, <1>3, <2>1
    <2> QED BY <1>2, <2>1, <2>2 DEF IsPrefix
<1>5. SubSeq(path, 1, Len(above)) = SubSeq(whole, 1, Len(above))
    BY <1>1, <1>3, <1>4
<1> QED BY <1>1, <1>2, <1>4, <1>5 DEF IsPrefix

\* tree_put keeps the search order.
LEMMA PutOrdered ==
    ASSUME NEW tree, WellFormed(tree), Ordered(tree), NEW key \in Key, NEW value \in Value
    PROVE  Ordered(TreePut(tree, key, value))
<1> DEFINE slot == Slot(tree, key)
           after == TreePut(tree, key, value)
<1>1. slot \in Path /\ EndsAt(tree, key, slot)
    BY DescentEnds
<1>2. /\ DOMAIN after = DOMAIN tree \cup {slot}
      /\ \A path \in DOMAIN after :
            after[path] = IF path = slot THEN [key |-> key, value |-> value] ELSE tree[path]
    BY DEF TreePut
<1>3. slot \in DOMAIN tree => tree[slot].key = key
    BY <1>1 DEF EndsAt
<1> HIDE DEF after, slot
<1>4. \A path \in DOMAIN tree : path \in DOMAIN after /\ after[path].key = tree[path].key
    BY <1>2, <1>3
<1>5. ASSUME NEW above \in Path, NEW rest \in Path, rest # << >>,
             above \o rest \in DOMAIN after
      PROVE  /\ above \in DOMAIN after
             /\ after[above].key # after[above \o rest].key
             /\ rest[1] = Toward(after[above \o rest].key, after[above])
    <2>1. CASE above \o rest = slot
        <3> DEFINE i == Len(above) + 1
        <3>1. /\ i \in 1..Len(slot) /\ i - 1 = Len(above)
              /\ SubSeq(slot, 1, Len(above)) = above
              /\ slot[i] = rest[1]
            BY <1>5, <2>1, ConcatParts
        <3>2. Descends(tree, key, slot)
            BY <1>1 DEF EndsAt
        <3> HIDE DEF i
        <3>3. /\ above \in DOMAIN tree
              /\ tree[above].key # key
              /\ rest[1] = Toward(key, tree[above])
            BY <3>1, <3>2 DEF Descends
        <3>4. after[slot].key = key
            BY <1>2
        <3> QED BY <1>4, <2>1, <3>3, <3>4 DEF Toward
    <2>2. CASE above \o rest # slot
        <3>1. above \o rest \in DOMAIN tree
            BY <1>2, <1>5, <2>2
        <3>2. /\ above \in DOMAIN tree
              /\ tree[above].key # tree[above \o rest].key
              /\ rest[1] = Toward(tree[above \o rest].key, tree[above])
            BY <1>5, <3>1 DEF Ordered
        <3> QED BY <1>4, <3>1, <3>2 DEF Toward
    <2> QED BY <2>1, <2>2
<1> QED BY <1>5 DEF Ordered, after

\* Where the nodes of a grafted tree are found.
LEMMA GraftDomain ==
    ASSUME NEW tree, Typed(tree), NEW path \in Path, NEW side \in Side
    PROVE  LET after == Graft(tree, path, side)
               child == Append(path, side)
           IN  /\ \A rest \in Path :
                    child \o rest \in DOMAIN tree =>
                        path \o rest \in DOMAIN after /\ after[path \o rest] = tree[child \o rest]
               /\ \A node \in DOMAIN tree :
                    ~IsPrefix(path, node) => node \in DOMAIN after /\ after[node] = tree[node]
<1> DEFINE after == Graft(tree, path, side)
           child == Append(path, side)
           moved == {path \o Suffix(n, Len(child)) : n \in Below(tree, child)}
<1>1. child \in Path
    BY AppendProperties DEF Path
<1>2. DOMAIN after = (DOMAIN tree \ Below(tree, path)) \cup moved
    BY DEF Graft
<1>3. \A node \in DOMAIN after :
        after[node] = IF IsPrefix(path, node)
                      THEN tree[child \o Suffix(node, Len(path))] ELSE tree[node]
    BY DEF Graft
<1>4. ASSUME NEW rest \in Path, child \o rest \in DOMAIN tree
      PROVE  path \o rest \in DOMAIN after /\ after[path \o rest] = tree[child \o rest]
    <2>1. child \o rest \in Below(tree, child) /\ Suffix(child \o rest, Len(child)) = rest
        BY <1>1, <1>4, SuffixOfConcat DEF Below
    <2>2. path \o rest \in moved
        BY <2>1
    <2>3. IsPrefix(path, path \o rest) /\ Suffix(path \o rest, Len(path)) = rest
        BY SuffixOfConcat
    <2> HIDE DEF after, moved, child
    <2> QED BY <1>2, <1>3, <2>2, <2>3
<1>5. ASSUME NEW node \in DOMAIN tree, ~IsPrefix(path, node)
      PROVE  node \in DOMAIN after /\ after[node] = tree[node]
    BY <1>2, <1>3, <1>5 DEF Below
<1> QED BY <1>4, <1>5

LEMMA Reassociate ==
    ASSUME NEW one \in Path, NEW two \in Path, NEW three \in Path
    PROVE  (one \o two) \o three = one \o (two \o three)
BY ConcatAssociative DEF Path

\* Putting a subtree in the place of its parent keeps the search order
\* (tree_del_aux: the cases of a node with at most one child).
LEMMA GraftOrdered ==
    ASSUME NEW tree, Typed(tree), Ordered(tree), NEW path \in Path, NEW side \in Side
    PROVE  Ordered(Graft(tree, path, side))
<1> DEFINE after == Graft(tree, path, side)
           child == Append(path, side)
           turn == <<side>>
<1>1. /\ child \in Path
      /\ turn \in Path
      /\ turn # << >>
      /\ child = path \o turn
    <2>1. child \in Path
        BY AppendProperties DEF Path
    <2>2. turn \in Path
        BY AppendProperties, EmptySeq DEF Path
    <2> QED BY <2>1, <2>2, AppendIsConcat DEF Path
<1>2. \A rest \in Path : child \o rest \in DOMAIN tree =>
            path \o rest \in DOMAIN after /\ after[path \o rest] = tree[child \o rest]
    BY GraftDomain
<1>3. \A node \in DOMAIN tree : ~IsPrefix(path, node) =>
            node \in DOMAIN after /\ after[node] = tree[node]
    BY GraftDomain
<1>4. \A node \in DOMAIN after :
        LET from == IF IsPrefix(path, node) THEN child \o Suffix(node, Len(path)) ELSE node
        IN  from \in DOMAIN tree /\ after[node] = tree[from]
    BY GraftMoves
<1> HIDE DEF after, child, turn
<1>5. ASSUME NEW above \in Path, NEW rest \in Path, rest # << >>,
             above \o rest \in DOMAIN after
      PROVE  /\ above \in DOMAIN after
             /\ after[above].key # after[above \o rest].key
             /\ rest[1] = Toward(after[above \o rest].key, after[above])
    <2>1. CASE IsPrefix(path, above)
        <3> DEFINE u == Suffix(above, Len(path))
        <3>1. u \in Path /\ above = path \o u
            BY <2>1, PrefixAndSuffix
        <3> HIDE DEF u
        <3>2. u \o rest \in Path /\ above \o rest = path \o (u \o rest)
            BY <3>1, SuffixOfConcat, ConcatAssociative DEF Path
        <3>3. /\ IsPrefix(path, above \o rest)
              /\ Suffix(above \o rest, Len(path)) = u \o rest
            BY <3>2, SuffixOfConcat
        <3>4. /\ child \o (u \o rest) \in DOMAIN tree
              /\ after[above \o rest] = tree[child \o (u \o rest)]
            BY <1>4, <1>5, <3>3
        <3>5. /\ child \o u \in Path
              /\ child \o (u \o rest) = (child \o u) \o rest
            <4>1. child \o u \in Path
                BY <1>1, <3>1, SuffixOfConcat
            <4>2. (child \o u) \o rest = child \o (u \o rest)
                BY <1>1, <3>1, ConcatAssociative DEF Path
            <4> QED BY <4>1, <4>2
        <3>6. /\ child \o u \in DOMAIN tree
              /\ tree[child \o u].key # tree[(child \o u) \o rest].key
              /\ rest[1] = Toward(tree[(child \o u) \o rest].key, tree[child \o u])
            BY <1>5, <3>4, <3>5 DEF Ordered
        <3>7. above \in DOMAIN after /\ after[above] = tree[child \o u]
            BY <1>2, <3>1, <3>6
        <3> QED BY <3>4, <3>5, <3>6, <3>7
    <2>2. CASE ~IsPrefix(path, above) /\ IsPrefix(path, above \o rest)
        <3> DEFINE u == Suffix(above \o rest, Len(path))
                   v == Suffix(path, Len(above))
        <3>1. u \in Path /\ above \o rest = path \o u
            BY <2>2, PrefixAndSuffix, SuffixOfConcat
        <3>2. v \in Path /\ v # << >> /\ path = above \o v /\ rest = v \o u
            <4>1. IsPrefix(above, path) /\ Len(above) < Len(path)
                BY <2>2, SuffixOfConcat, BeginningsCompare
            <4>2. v \in Path /\ path = above \o v /\ Len(v) = Len(path) - Len(above)
                BY <4>1, PrefixAndSuffix
            <4>3. Len(above) \in Nat /\ Len(path) \in Nat
                BY LenProperties DEF Path
            <4> HIDE DEF u, v
            <4>4. v # << >>
                BY <4>1, <4>2, <4>3, EmptySeq
            <4>5. (above \o v) \o u = above \o (v \o u)
                BY <3>1, <4>2, ConcatAssociative DEF Path
            <4>6. above \o rest = above \o (v \o u)
                BY <3>1, <4>2, <4>5
            <4>7. v \o u \in Path
                BY <3>1, <4>2, SuffixOfConcat
            <4>8. rest = v \o u
                BY <4>6, <4>7, ConcatSimplifications DEF Path
            <4> QED BY <4>2, <4>4, <4>8
        <3>3. child \o u \in DOMAIN tree /\ after[above \o rest] = tree[child \o u]
            BY <1>4, <1>5, <2>2
        <3> HIDE DEF u, v
        <3> DEFINE way == v \o (turn \o u)
        <3>4. turn \o u \in Path /\ v \o turn \in Path /\ way \in Path
            BY <1>1, <3>1, <3>2, SuffixOfConcat
        <3>5. way # << >> /\ way[1] = rest[1]
            BY <3>1, <3>2, <3>4, FirstOfConcat
        <3>6. child \o u = above \o way
            <4>1. child \o u = path \o (turn \o u)
                <5>1. (path \o turn) \o u = path \o (turn \o u)
                    <6>1. turn \in Path /\ u \in Path
                        BY <1>1, <3>1
                    <6> QED BY <6>1, ConcatAssociative DEF Path
                <5> QED BY <1>1, <5>1
            <4>2. (above \o v) \o (turn \o u) = above \o (v \o (turn \o u))
                <5> DEFINE last == turn \o u
                <5>1. above \in Path /\ v \in Path /\ last \in Path
                    BY <3>2, <3>4, Zenon
                <5> HIDE DEF last
                <5>2. (above \o v) \o last = above \o (v \o last)
                    BY <5>1, Reassociate, Zenon
                <5> QED BY <5>2, Zenon DEF last
            <4> QED BY <3>2, <4>1, <4>2
        <3> HIDE DEF way
        <3>7. /\ above \in DOMAIN tree
              /\ tree[above].key # tree[above \o way].key
              /\ way[1] = Toward(tree[above \o way].key, tree[above])
            BY <3>3, <3>4, <3>5, <3>6 DEF Ordered
        <3>8. above \in DOMAIN after /\ after[above] = tree[above]
            BY <1>3, <2>2, <3>7
        <3> QED BY <3>3, <3>5, <3>6, <3>7, <3>8
    <2>3. CASE ~IsPrefix(path, above \o rest)
        <3>1. above \o rest \in DOMAIN tree /\ after[above \o rest] = tree[above \o rest]
            BY <1>4, <1>5, <2>3
        <3>2. /\ above \in DOMAIN tree
              /\ tree[above].key # tree[above \o rest].key
              /\ rest[1] = Toward(tree[above \o rest].key, tree[above])
            BY <1>5, <3>1 DEF Ordered
        <3>3. ~IsPrefix(path, above)
            <4>1. SUFFICES ASSUME IsPrefix(path, above) PROVE FALSE
                OBVIOUS
            <4> DEFINE u == Suffix(above, Len(path))
            <4>2. u \in Path /\ above = path \o u
                BY <4>1, PrefixAndSuffix
            <4> HIDE DEF u
            <4>3. u \o rest \in Path /\ above \o rest = path \o (u \o rest)
                BY <4>2, SuffixOfConcat, ConcatAssociative DEF Path
            <4> QED BY <2>3, <4>3, SuffixOfConcat
        <3>4. above \in DOMAIN after /\ after[above] = tree[above]
            BY <1>3, <3>2, <3>3
        <3> QED BY <3>1, <3>2, <3>4
    <2> QED BY <2>1, <2>2, <2>3
<1> QED BY <1>5 DEF Ordered, after

LEMMA UnlinkOrdered ==
    ASSUME NEW tree, Typed(tree), Ordered(tree), NEW path \in Path
    PROVE  Ordered(Unlink(tree, path))
BY GraftOrdered DEF Unlink, Side

-----------------------------------------------------------------------------
(* A node with two children gets the entry of its successor *)

LEMMA FirstAndRest ==
    ASSUME NEW path \in Path, path # << >>
    PROVE  /\ path[1] \in Side
           /\ <<path[1]>> \in Path
           /\ Tail(path) \in Path
           /\ path = <<path[1]>> \o Tail(path)
<1>1. Len(path) \in Nat \ {0}
    BY LenProperties, EmptySeq DEF Path
<1>2. path[1] \in Side
    BY <1>1, ElementOfSeq DEF Path
<1>3. Tail(path) \in Path
    BY HeadTailProperties DEF Path
<1>4. <<path[1]>> \in Path
    BY <1>2 DEF Path
<1>5. SubSeq(path, 1, Len(path)) = <<path[1]>> \o SubSeq(path, 1 + 1, Len(path))
    <2>1. 1 \in 1..Len(path) /\ Len(path) \in 1..Len(path)
        BY <1>1
    <2> QED BY <2>1, SubSeqRecursiveFirst DEF Path
<1>6. Tail(path) = SubSeq(path, 2, Len(path))
    BY TailIsSubSeq DEF Path
<1> QED BY <1>2, <1>3, <1>4, <1>5, <1>6, SubSeqFull DEF Path

LEMMA TurnsAreConcats ==
    ASSUME NEW path \in Path, NEW side \in Side
    PROVE  /\ <<side>> \in Path /\ <<side>> # << >> /\ <<side>>[1] = side
           /\ Append(path, side) \in Path
           /\ Append(path, side) = path \o <<side>>
           /\ Len(Append(path, side)) = Len(path) + 1
<1>1. <<side>> \in Path /\ <<side>> # << >> /\ <<side>>[1] = side
    BY DEF Path
<1> QED BY <1>1, AppendProperties, AppendIsConcat DEF Path

\* A path that begins with a turn is that turn and the rest of the way.
LEMMA TurnAndWay ==
    ASSUME NEW path \in Path, path # << >>
    PROVE  \E way \in Path : path = <<path[1]>> \o way
<1>1. Tail(path) \in Path /\ path = <<path[1]>> \o Tail(path)
    BY FirstAndRest
<1> QED BY <1>1

\* With a node the tree holds all the nodes above it.
LEMMA AboveIsThere ==
    ASSUME NEW tree, Ordered(tree), NEW path \in Path, NEW rest \in Path,
           path \o rest \in DOMAIN tree
    PROVE  path \in DOMAIN tree
<1>1. CASE rest = << >>
    BY <1>1, ConcatEmptySeq DEF Path
<1>2. CASE rest # << >>
    BY <1>2 DEF Ordered
<1> QED BY <1>1, <1>2

\* Where minValue finds the successor of slot.
LEMMA SuccessorPlace ==
    ASSUME NEW tree, Typed(tree), NEW slot \in DOMAIN tree, HasBothChildren(tree, slot)
    PROVE  LET right == Append(slot, "right")
               node == MinValue(tree, right)
           IN  /\ right \in Path /\ right \in DOMAIN tree
               /\ node \in Path /\ node \in DOMAIN tree
               /\ \E way \in Path : way # << >> /\ way[1] = "right" /\ node = slot \o way
<1> DEFINE right == Append(slot, "right")
           node == MinValue(tree, right)
<1>1. slot \in Path
    BY DEF Typed
<1>2. /\ <<"right">> \in Path /\ <<"right">> # << >> /\ <<"right">>[1] = "right"
      /\ <<"left">> \in Path
      /\ right \in Path /\ right = slot \o <<"right">>
    BY <1>1, TurnsAreConcats DEF Side
<1>3. right \in DOMAIN tree
    BY DEF HasBothChildren, Side
<1>4. node \in DOMAIN tree /\ node \in Path
    BY <1>3 DEF MinValue, Typed
<1>5. CASE node = right
    BY <1>2, <1>3, <1>4, <1>5
<1>6. CASE node = Append(right, "left")
    <2>1. Append(right, "left") = right \o <<"left">>
        BY <1>2, TurnsAreConcats DEF Side
    <2>2. (slot \o <<"right">>) \o <<"left">> = slot \o (<<"right">> \o <<"left">>)
        BY <1>1, <1>2, ConcatAssociative DEF Path
    <2> DEFINE way == <<"right">> \o <<"left">>
    <2>3. way \in Path
        BY <1>2, SuffixOfConcat
    <2>4. way # << >> /\ way[1] = "right"
        BY <1>2, FirstOfConcat
    <2>5. node = slot \o way
        BY <1>2, <1>6, <2>1, <2>2
    <2>6. \E w \in Path : w # << >> /\ w[1] = "right" /\ node = slot \o w
        <3> HIDE DEF way, node
        <3> QED BY <2>3, <2>4, <2>5
    <2> QED BY <1>2, <1>3, <1>4, <2>6
<1> QED BY <1>5, <1>6 DEF MinValue

\* minValue finds the least key of the right subtree (when it ends): for
\* every other key below slot it lies on the same side as slot's key.
LEMMA SuccessorSeparates ==
    ASSUME NEW tree, Typed(tree), Ordered(tree),
           NEW slot \in DOMAIN tree, HasBothChildren(tree, slot),
           ~MinValueSpins(tree, Append(slot, "right")),
           NEW rest \in Path, rest # << >>, slot \o rest \in DOMAIN tree,
           slot \o rest # MinValue(tree, Append(slot, "right"))
    PROVE  LET least == tree[MinValue(tree, Append(slot, "right"))]
               other == tree[slot \o rest]
           IN  least.key # other.key /\ rest[1] = Toward(other.key, least)
<1> DEFINE right == Append(slot, "right")
           node == MinValue(tree, right)
           least == tree[node]
           other == tree[slot \o rest]
<1>1. slot \in Path /\ slot \o rest \in Path
    BY SuffixOfConcat DEF Typed
<1>2. /\ right \in Path /\ right \in DOMAIN tree
      /\ node \in Path /\ node \in DOMAIN tree
    BY SuccessorPlace
<1>3. PICK way \in Path : way # << >> /\ way[1] = "right" /\ node = slot \o way
    BY SuccessorPlace
<1>4. least.key \in Int /\ other.key \in Int /\ tree[slot].key \in Int /\ tree[right].key \in Int
    BY <1>2, KeyAssumption DEF Typed, IsEntry
<1>5. /\ tree[slot].key # least.key
      /\ "right" = Toward(least.key, tree[slot])
    <2>1. slot \o way \in DOMAIN tree /\ least = tree[slot \o way]
        BY <1>2, <1>3
    <2> HIDE DEF least, node, right
    <2> QED BY <1>1, <1>3, <2>1 DEF Ordered
<1>6. /\ tree[slot].key # other.key
      /\ rest[1] = Toward(other.key, tree[slot])
    BY <1>1 DEF Ordered
<1>7. least.key > tree[slot].key
    BY <1>4, <1>5 DEF Toward
<1> HIDE DEF right, node, least, other
<1>8. CASE rest[1] = "left"
    <2>1. other.key < tree[slot].key
        BY <1>4, <1>6, <1>8 DEF Toward
    <2>2. other.key < least.key
        BY <1>4, <1>7, <2>1
    <2> QED BY <1>4, <1>8, <2>2 DEF Toward, right, node, least, other
<1>9. CASE rest[1] = "right"
    <2> DEFINE r == Tail(rest)
    <2>1. /\ r \in Path
          /\ rest = <<"right">> \o r
        BY <1>9, FirstAndRest
    <2>2. right = slot \o <<"right">> /\ <<"right">> \in Path
        BY <1>1, TurnsAreConcats DEF Side, right
    <2>3. slot \o rest = right \o r
        <3>1. (slot \o <<"right">>) \o r = slot \o (<<"right">> \o r)
            BY <1>1, <2>1, <2>2, ConcatAssociative DEF Path
        <3> QED BY <2>1, <2>2, <3>1
    <2> HIDE DEF r
    <2>4. right \o r \in DOMAIN tree /\ other = tree[right \o r] /\ right \o r # node
        BY <2>3 DEF other, node, right
    \* the key lies at or above the least one
    <2>5. least.key < other.key
        <3>1. CASE node = right
            <4>1. r # << >>
                BY <1>2, <2>4, <3>1, ConcatEmptySeq DEF Path
            <4>2. /\ least.key # other.key
                  /\ r[1] = Toward(other.key, least)
                BY <1>2, <2>1, <2>4, <3>1, <4>1 DEF Ordered, least
            <4>3. r[1] # "left"
                <5>1. SUFFICES ASSUME r[1] = "left" PROVE FALSE
                    OBVIOUS
                <5>2. PICK q \in Path : r = <<"left">> \o q
                    BY <2>1, <4>1, <5>1, TurnAndWay
                <5>3. /\ Append(right, "left") \in Path /\ <<"left">> \in Path
                      /\ Append(right, "left") = right \o <<"left">>
                    BY <1>2, TurnsAreConcats DEF Side
                <5>4. (right \o <<"left">>) \o q = right \o (<<"left">> \o q)
                    <6> DEFINE left == <<"left">>
                    <6>1. right \in Path /\ left \in Path /\ q \in Path
                        BY <1>2, <5>3, Zenon
                    <6> HIDE DEF left
                    <6>2. (right \o left) \o q = right \o (left \o q)
                        BY <6>1, Reassociate, SMTT(40)
                    <6> QED BY <6>2, Zenon DEF left
                <5>5. Append(right, "left") \o q \in DOMAIN tree
                    BY <2>4, <5>2, <5>3, <5>4
                <5>6. Append(right, "left") \in DOMAIN tree
                    BY <5>2, <5>3, <5>5, AboveIsThere
                <5>7. Len(Append(right, "left")) # Len(right)
                    BY <1>2, TurnsAreConcats, LenProperties DEF Path, Side
                <5> QED BY <3>1, <5>6, <5>7 DEF node, MinValue
            <4> QED BY <1>4, <4>2, <4>3 DEF Toward
        <3>2. CASE node # right
            <4>1. node = Append(right, "left")
                BY <3>2 DEF node, MinValue
            <4>2. /\ <<"left">> \in Path /\ <<"left">> # << >> /\ <<"left">>[1] = "left"
                  /\ node = right \o <<"left">>
                BY <1>2, <4>1, TurnsAreConcats DEF Side
            <4>3. tree[right].key # least.key /\ "left" = Toward(least.key, tree[right])
                BY <1>2, <4>2 DEF Ordered, least
            <4>4. least.key < tree[right].key
                BY <1>4, <4>3 DEF Toward
            <4>5. CASE r = << >>
                BY <1>2, <2>4, <4>4, <4>5, ConcatEmptySeq DEF Path
            <4>6. CASE r # << >> /\ r[1] = "right"
                <5>1. tree[right].key # other.key /\ r[1] = Toward(other.key, tree[right])
                    BY <1>2, <2>1, <2>4, <4>6 DEF Ordered
                <5>2. tree[right].key < other.key
                    BY <1>4, <4>6, <5>1 DEF Toward
                <5> QED BY <1>4, <4>4, <5>2
            <4>7. CASE r # << >> /\ r[1] = "left"
                <5>1. PICK q \in Path : r = <<"left">> \o q
                    BY <2>1, <4>7, TurnAndWay
                <5>2. (right \o <<"left">>) \o q = right \o (<<"left">> \o q)
                    BY <1>2, <4>2, Reassociate
                <5>3. node \o q \in DOMAIN tree /\ other = tree[node \o q]
                    BY <2>4, <4>2, <5>1, <5>2
                <5>4. q # << >>
                    BY <1>2, <2>4, <4>2, <5>1, <5>2, ConcatEmptySeq DEF Path
                <5>5. least.key # other.key /\ q[1] = Toward(other.key, least)
                    BY <1>2, <5>3, <5>4 DEF Ordered, least
                <5>6. q[1] # "left"
                    <6>1. SUFFICES ASSUME q[1] = "left" PROVE FALSE
                        OBVIOUS
                    <6>2. PICK end \in Path : q = <<"left">> \o end
                        BY <5>4, <6>1, TurnAndWay
                    <6>3. (node \o <<"left">>) \o end = node \o (<<"left">> \o end)
                        <7> DEFINE left == <<"left">>
                        <7>1. node \in Path /\ left \in Path /\ end \in Path
                            BY <1>2, <4>2, Zenon
                        <7> HIDE DEF left
                        <7>2. (node \o left) \o end = node \o (left \o end)
                            BY <7>1, Reassociate, SMTT(40)
                        <7> QED BY <7>2, Zenon DEF left
                    <6>4. (node \o <<"left">>) \o end \in DOMAIN tree
                        BY <5>3, <6>2, <6>3
                    <6>5. node \o <<"left">> \in Path /\ Append(node, "left") = node \o <<"left">>
                        BY <1>2, TurnsAreConcats DEF Side
                    <6>6. node \o <<"left">> \in DOMAIN tree
                        BY <6>4, <6>5, AboveIsThere
                    <6>7. Append(Append(right, "left"), "left") \notin DOMAIN tree
                        BY DEF MinValueSpins, right
                    <6> QED BY <4>1, <6>5, <6>6, <6>7
                <5>7. ~(other.key < least.key)
                    BY <5>5, <5>6 DEF Toward
                <5> QED BY <1>4, <5>5, <5>7
            <4>8. r = << >> \/ r[1] \in Side
                BY <2>1, FirstAndRest
            <4> QED BY <4>5, <4>6, <4>7, <4>8 DEF Side
        <3> QED BY <3>1, <3>2
    <2> QED BY <1>4, <1>9, <2>5 DEF Toward, right, node, least, other
<1>10. rest[1] \in Side
    BY FirstAndRest
<1> QED BY <1>8, <1>9, <1>10 DEF Side

\* The entry of node is copied to slot, and the subtree of node takes its place.
CopyAndGraft(tree, slot, node, side) ==
    Graft([tree EXCEPT ![slot] = tree[node]], node, side)

\* Of a node below slot: the copy changes nothing else.
LEMMA CopyThenGraft ==
    ASSUME NEW tree, Typed(tree), NEW slot \in DOMAIN tree, NEW node \in DOMAIN tree,
           Len(slot) < Len(node), NEW side \in Side
    PROVE  /\ DOMAIN CopyAndGraft(tree, slot, node, side) = DOMAIN Graft(tree, node, side)
           /\ slot \in DOMAIN CopyAndGraft(tree, slot, node, side)
           /\ CopyAndGraft(tree, slot, node, side)[slot] = tree[node]
           /\ \A path \in DOMAIN CopyAndGraft(tree, slot, node, side) :
                path # slot =>
                    CopyAndGraft(tree, slot, node, side)[path] = Graft(tree, node, side)[path]
<1> DEFINE copied == [tree EXCEPT ![slot] = tree[node]]
           after == Graft(copied, node, side)
           grafted == Graft(tree, node, side)
<1>1. slot \in Path /\ node \in Path
    BY DEF Typed
<1>2. Typed(copied) /\ DOMAIN copied = DOMAIN tree
    BY DEF Typed
<1>3. ~IsPrefix(node, slot)
    BY <1>1, LenProperties DEF IsPrefix, Path
<1>4. slot \in DOMAIN after /\ after[slot] = copied[slot]
    <2> HIDE DEF copied
    <2> QED BY <1>1, <1>2, <1>3, GraftDomain
<1>5. DOMAIN after = DOMAIN grafted
    BY <1>2 DEF Graft, Below
<1>6. ASSUME NEW path \in DOMAIN after, path # slot
      PROVE  after[path] = grafted[path]
    <2> DEFINE from == IF IsPrefix(node, path)
                       THEN Append(node, side) \o Suffix(path, Len(node)) ELSE path
    <2> HIDE DEF copied
    <2>1. path \in DOMAIN grafted
        BY <1>5
    <2>2. after[path] = copied[from]
        BY <1>1, <1>2, GraftMoves
    <2>3. from \in DOMAIN tree /\ grafted[path] = tree[from] /\ Len(path) <= Len(from) /\ path \in Path
        BY <1>1, <2>1, GraftMoves
    <2>4. from # slot
        <3>1. CASE ~IsPrefix(node, path)
            BY <1>6, <3>1
        <3>2. CASE IsPrefix(node, path)
            <4>1. Len(node) <= Len(path) /\ Len(node) \in Nat /\ Len(path) \in Nat
                BY <1>1, <2>3, <3>2, LenProperties DEF IsPrefix, Path
            <4>2. Len(slot) \in Nat
                BY <1>1, LenProperties DEF Path
            <4> HIDE DEF from
            <4> QED BY <2>3, <4>1, <4>2
        <3> QED BY <3>1, <3>2
    <2> HIDE DEF from
    <2>5. copied[from] = tree[from]
        BY <2>3, <2>4 DEF copied
    <2> QED BY <2>2, <2>3, <2>5
<1> QED BY <1>4, <1>5, <1>6 DEF CopyAndGraft

\* What is below slot after the graft was below it before, on the same side,
\* and is not the node that went.
LEMMA BelowAfterGraft ==
    ASSUME NEW tree, Typed(tree), NEW slot \in Path, NEW way \in Path, way # << >>,
           NEW side \in Side, NEW rest \in Path, rest # << >>,
           slot \o rest \in DOMAIN Graft(tree, slot \o way, side)
    PROVE  \E source \in Path :
                /\ source # << >> /\ source[1] = rest[1]
                /\ slot \o source \in DOMAIN tree
                /\ slot \o source # slot \o way
                /\ Graft(tree, slot \o way, side)[slot \o rest] = tree[slot \o source]
<1> DEFINE node == slot \o way
           path == slot \o rest
           grafted == Graft(tree, node, side)
<1>1. node \in Path /\ path \in Path
    BY SuffixOfConcat
<1>2. CASE ~IsPrefix(node, path)
    <2>1. path \in DOMAIN tree /\ grafted[path] = tree[path]
        <3> HIDE DEF node, path
        <3> QED BY <1>1, <1>2, GraftMoves DEF path, node
    <2>2. IsPrefix(node, node)
        <3> HIDE DEF node
        <3>1. node \o << >> = node /\ << >> \in Path
            BY <1>1, ConcatEmptySeq DEF Path
        <3> QED BY <1>1, <3>1, SuffixOfConcat
    <2> QED BY <1>2, <2>1, <2>2
<1>3. CASE IsPrefix(node, path)
    <2> DEFINE u == Suffix(path, Len(node))
               turn == <<side>>
    <2>1. Append(node, side) \o u \in DOMAIN tree /\ grafted[path] = tree[Append(node, side) \o u]
        <3> HIDE DEF node, path
        <3> QED BY <1>1, <1>3, GraftMoves DEF path, node
    <2>2. u \in Path /\ path = node \o u
        <3> HIDE DEF node, path
        <3> QED BY <1>1, <1>3, PrefixAndSuffix
    <2>3. /\ turn \in Path /\ turn # << >>
          /\ Append(node, side) = node \o turn
        <3> HIDE DEF node
        <3> QED BY <1>1, TurnsAreConcats
    <2> HIDE DEF u, turn
    <2>4. (slot \o way) \o u = slot \o (way \o u) /\ way \o u \in Path
        BY <2>2, Reassociate, SuffixOfConcat
    <2>5. rest = way \o u
        <3>1. slot \o rest = slot \o (way \o u)
            BY <2>2, <2>4
        <3> QED BY <2>4, <3>1, ConcatSimplifications DEF Path
    <2>6. rest[1] = way[1]
        BY <2>2, <2>5, FirstOfConcat
    <2> DEFINE tail == turn \o u
               source == way \o tail
    <2>7. tail \in Path /\ tail # << >> /\ (node \o turn) \o u = node \o tail
        <3> HIDE DEF node
        <3>1. tail \in Path
            BY <2>2, <2>3, SuffixOfConcat
        <3>2. tail # << >>
            BY <2>2, <2>3, FirstOfConcat
        <3>3. (node \o turn) \o u = node \o (turn \o u)
            <4>1. node \in Path /\ turn \in Path /\ u \in Path
                BY <1>1, <2>2, <2>3, Zenon
            <4> HIDE DEF node, path, grafted
            <4> QED BY <4>1, Reassociate, SMTT(40)
        <3> QED BY <3>1, <3>2, <3>3
    <2> HIDE DEF tail
    <2>8. /\ source \in Path /\ source # << >> /\ source[1] = way[1]
          /\ (slot \o way) \o tail = slot \o source
        <3>1. source \in Path
            BY <2>7, SuffixOfConcat
        <3>2. source # << >> /\ source[1] = way[1]
            BY <2>7, FirstOfConcat
        <3>3. (slot \o way) \o tail = slot \o (way \o tail)
            BY <2>7, Reassociate
        <3> QED BY <3>1, <3>2, <3>3
    <2>9. node \o tail # node
        <3> HIDE DEF node
        <3> QED BY <1>1, <2>7, ConcatParts
    <2> HIDE DEF source
    <2>10. /\ slot \o source \in DOMAIN tree
           /\ slot \o source # slot \o way
           /\ grafted[path] = tree[slot \o source]
        BY <2>1, <2>3, <2>7, <2>8, <2>9
    <2> QED BY <2>6, <2>8, <2>10
<1> QED BY <1>2, <1>3

\* tree_del_aux, the case of a node with two children.
LEMMA CopyOrdered ==
    ASSUME NEW tree, Typed(tree), Ordered(tree),
           NEW slot \in DOMAIN tree, HasBothChildren(tree, slot),
           ~MinValueSpins(tree, Append(slot, "right"))
    PROVE  LET node == MinValue(tree, Append(slot, "right"))
           IN  Ordered(Unlink([tree EXCEPT ![slot] = tree[node]], node))
<1> DEFINE node == MinValue(tree, Append(slot, "right"))
           least == tree[node]
           copied == [tree EXCEPT ![slot] = tree[node]]
<1>1. slot \in Path /\ node \in Path /\ node \in DOMAIN tree
    BY SuccessorPlace DEF Typed
<1>2. PICK way \in Path : way # << >> /\ node = slot \o way
    BY SuccessorPlace
<1>3. PICK side \in Side : Unlink(copied, node) = Graft(copied, node, side)
    BY DEF Unlink, Side
<1> DEFINE after == Graft(copied, node, side)
           grafted == Graft(tree, node, side)
<1>4. \A rest \in Path : rest # << >> /\ slot \o rest \in DOMAIN tree /\ slot \o rest # node =>
            least.key # tree[slot \o rest].key /\ rest[1] = Toward(tree[slot \o rest].key, least)
    BY SuccessorSeparates
<1>5. /\ DOMAIN after = DOMAIN grafted
      /\ slot \in DOMAIN after /\ after[slot] = least
      /\ \A path \in DOMAIN after : path # slot => after[path] = grafted[path]
    <2>1. Len(slot) < Len(node)
        <3>1. Len(slot) \in Nat /\ Len(way) \in Nat \ {0} /\ Len(slot \o way) = Len(slot) + Len(way)
            BY <1>1, <1>2, ConcatParts, SuffixOfConcat
        <3> QED BY <1>2, <3>1
    <2> HIDE DEF node
    <2>2. after = CopyAndGraft(tree, slot, node, side)
        BY DEF CopyAndGraft
    <2> HIDE DEF after, grafted, copied
    <2> QED BY <1>1, <2>1, <2>2, CopyThenGraft DEF grafted, least
<1>6. Ordered(grafted)
    <2> HIDE DEF node
    <2> QED BY <1>1, GraftOrdered
<1>7. ASSUME NEW rest \in Path, rest # << >>, slot \o rest \in DOMAIN grafted
      PROVE  \E source \in Path :
            /\ source # << >> /\ source[1] = rest[1]
            /\ slot \o source \in DOMAIN tree
            /\ slot \o source # node
            /\ grafted[slot \o rest] = tree[slot \o source]
    <2>1. slot \o rest \in DOMAIN Graft(tree, slot \o way, side)
        BY <1>2, <1>7
    <2>2. Graft(tree, slot \o way, side) = grafted
        BY <1>2
    <2>3. slot \o way = node
        BY <1>2
    <2>4. \E source \in Path :
                /\ source # << >> /\ source[1] = rest[1]
                /\ slot \o source \in DOMAIN tree
                /\ slot \o source # slot \o way
                /\ Graft(tree, slot \o way, side)[slot \o rest] = tree[slot \o source]
        BY <1>1, <1>2, <1>7, <2>1, BelowAfterGraft
    <2> HIDE DEF node, grafted
    <2> QED BY <2>2, <2>3, <2>4
<1>8. \A path \in DOMAIN tree : ~IsPrefix(node, path) =>
            path \in DOMAIN grafted /\ grafted[path] = tree[path]
    <2> HIDE DEF node
    <2> QED BY <1>1, GraftDomain
<1> HIDE DEF node, least, after, grafted
<1>9. ASSUME NEW above \in Path, NEW rest \in Path, rest # << >>,
             above \o rest \in DOMAIN after
      PROVE  /\ above \in DOMAIN after
             /\ after[above].key # after[above \o rest].key
             /\ rest[1] = Toward(after[above \o rest].key, after[above])
    <2>1. above \o rest # above
        BY <1>9, ConcatParts
    \* the node that got the entry, and one below it
    <2>2. CASE above = slot
        <3>1. PICK source \in Path :
                /\ source # << >> /\ source[1] = rest[1]
                /\ slot \o source \in DOMAIN tree
                /\ slot \o source # node
                /\ grafted[slot \o rest] = tree[slot \o source]
            BY <1>5, <1>7, <1>9, <2>2
        <3>2. after[above \o rest] = tree[slot \o source]
            BY <1>5, <1>9, <2>1, <2>2, <3>1
        <3>3. least.key # tree[slot \o source].key /\ source[1] = Toward(tree[slot \o source].key, least)
            BY <1>4, <3>1
        <3> QED BY <1>5, <2>2, <3>1, <3>2, <3>3
    \* the node that got the entry, and one above it
    <2>3. CASE above \o rest = slot
        <3> DEFINE down == rest \o way
        <3>1. down \in Path
            BY <1>2, SuffixOfConcat
        <3>2. down # << >> /\ down[1] = rest[1]
            BY <1>2, <1>9, FirstOfConcat
        <3>3. node = above \o down
            BY <1>2, <2>3, Reassociate
        <3> HIDE DEF down
        <3>4. /\ above \in DOMAIN tree
              /\ tree[above].key # least.key
              /\ down[1] = Toward(least.key, tree[above])
            BY <1>1, <3>1, <3>2, <3>3 DEF Ordered, least
        <3>5. ~IsPrefix(node, above)
            <4>1. Len(above) \in Nat /\ Len(down) \in Nat \ {0} /\ Len(node) = Len(above) + Len(down)
                BY <3>1, <3>2, <3>3, ConcatParts, SuffixOfConcat
            <4> QED BY <4>1 DEF IsPrefix
        <3>6. above \in DOMAIN after /\ after[above] = tree[above]
            BY <1>5, <1>8, <2>1, <2>3, <3>4, <3>5
        <3> QED BY <1>5, <2>3, <3>2, <3>4, <3>6
    <2>4. CASE above # slot /\ above \o rest # slot
        <3>1. /\ above \in DOMAIN grafted
              /\ grafted[above].key # grafted[above \o rest].key
              /\ rest[1] = Toward(grafted[above \o rest].key, grafted[above])
            BY <1>5, <1>6, <1>9 DEF Ordered
        <3>2. after[above] = grafted[above] /\ after[above \o rest] = grafted[above \o rest]
            BY <1>5, <1>9, <2>4, <3>1
        <3> QED BY <1>5, <3>1, <3>2
    <2> QED BY <2>2, <2>3, <2>4
<1>10. Ordered(after)
    BY <1>9 DEF Ordered
<1> QED BY <1>3, <1>10 DEF after, node

\* tree_del keeps the search order, whenever it returns.
THEOREM DelOrdered ==
    ASSUME NEW tree, Typed(tree), Ordered(tree), NEW key \in Key, ~DelSpins(tree, key)
    PROVE  Ordered(TreeDel(tree, key))
<1> DEFINE slot == Slot(tree, key)
<1>1. CASE slot \notin DOMAIN tree
    BY <1>1 DEF TreeDel
<1>2. CASE slot \in DOMAIN tree /\ ~HasBothChildren(tree, slot)
    <2>1. slot \in Path
        BY <1>2 DEF Typed
    <2> QED BY <1>2, <2>1, UnlinkOrdered DEF TreeDel, DelAux
<1>3. CASE slot \in DOMAIN tree /\ HasBothChildren(tree, slot)
    <2>1. ~MinValueSpins(tree, Append(slot, "right"))
        BY <1>3 DEF DelSpins
    <2>2. LET node == MinValue(tree, Append(slot, "right"))
          IN  TreeDel(tree, key) = Unlink([tree EXCEPT ![slot] = tree[node]], node)
        BY <1>3 DEF TreeDel, DelAux
    <2> HIDE DEF slot
    <2> QED BY <1>3, <2>1, <2>2, CopyOrdered
<1> QED BY <1>1, <1>2, <1>3

-----------------------------------------------------------------------------
(* Every key has one place *)

LEMMA LeastOf ==
    ASSUME NEW T \in SUBSET Nat, T # {}
    PROVE  \E least \in T : \A n \in T : least <= n
<1>1. PICK least \in T : \A n \in T : ~(<<n, least>> \in OpToRel(<, Nat))
    BY NatLessThanWellFounded, WFMin
<1>2. \A n \in T : ~(n < least)
    BY <1>1 DEF OpToRel
<1> QED BY <1>2

LEMMA SameBeginning ==
    ASSUME NEW one \in Path, NEW two \in Path, NEW n \in Nat, n <= Len(one), n <= Len(two)
    PROVE  SubSeq(one, 1, n) = SubSeq(two, 1, n) <=> \A i \in 1..n : one[i] = two[i]
<1>1. /\ Len(one) \in Nat /\ Len(two) \in Nat
      /\ \A i \in 1..Len(one) : one[i] \in Side
      /\ \A i \in 1..Len(two) : two[i] \in Side
    BY LenProperties, ElementOfSeq DEF Path
<1>2. /\ SubSeq(one, 1, n) \in Path /\ Len(SubSeq(one, 1, n)) = n
      /\ \A i \in 1..n : SubSeq(one, 1, n)[i] = one[i]
    BY <1>1, SubSeqProperties DEF Path
<1>3. /\ SubSeq(two, 1, n) \in Path /\ Len(SubSeq(two, 1, n)) = n
      /\ \A i \in 1..n : SubSeq(two, 1, n)[i] = two[i]
    BY <1>1, SubSeqProperties DEF Path
<1> DEFINE front == SubSeq(one, 1, n)
           other == SubSeq(two, 1, n)
<1> HIDE DEF front, other
<1>4. ASSUME \A i \in 1..n : one[i] = two[i] PROVE front = other
    <2>1. Len(front) = Len(other) /\ \A i \in 1..Len(front) : front[i] = other[i]
        BY <1>2, <1>3, <1>4 DEF front, other
    <2>2. front \in Path /\ other \in Path
        BY <1>2, <1>3 DEF front, other
    <2> QED BY <2>1, <2>2, SeqEqual DEF Path
<1>5. ASSUME front = other PROVE \A i \in 1..n : one[i] = two[i]
    BY <1>2, <1>3, <1>5 DEF front, other
<1> QED BY <1>4, <1>5 DEF front, other

\* A descent never goes beyond the node or the link where it ends.
LEMMA DescentStops ==
    ASSUME NEW tree, NEW key, NEW one \in Path, NEW two \in Path,
           EndsAt(tree, key, one), Descends(tree, key, two)
    PROVE  /\ \A i \in 1..Len(two) : i <= Len(one) => one[i] = two[i]
           /\ Len(two) <= Len(one)
<1>1. Len(one) \in Nat /\ Len(two) \in Nat
    BY LenProperties DEF Path
<1>2. \A i \in 1..Len(two) : i <= Len(one) => one[i] = two[i]
    <2> DEFINE Differ == {i \in 1..Len(two) : i <= Len(one) /\ one[i] # two[i]}
    <2>1. SUFFICES ASSUME Differ # {} PROVE FALSE
        OBVIOUS
    <2>2. Differ \in SUBSET Nat
        BY <1>1
    <2>3. PICK i \in Differ : \A n \in Differ : i <= n
        <3> HIDE DEF Differ
        <3> QED BY <2>1, <2>2, LeastOf
    <2>4. /\ i \in 1..Len(two) /\ i \in 1..Len(one) /\ one[i] # two[i]
          /\ i - 1 \in Nat /\ i - 1 <= Len(one) /\ i - 1 <= Len(two)
        BY <1>1, <2>3
    <2>5. \A j \in 1..(i - 1) : one[j] = two[j]
        BY <1>1, <2>3, <2>4
    <2>6. SubSeq(one, 1, i - 1) = SubSeq(two, 1, i - 1)
        BY <2>4, <2>5, SameBeginning
    <2>7. /\ one[i] = Toward(key, tree[SubSeq(one, 1, i - 1)])
          /\ two[i] = Toward(key, tree[SubSeq(two, 1, i - 1)])
        BY <2>4 DEF EndsAt, Descends
    <2> QED BY <2>4, <2>6, <2>7
<1>3. ASSUME Len(one) < Len(two) PROVE FALSE
    <2>1. \A i \in 1..Len(one) : one[i] = two[i]
        BY <1>1, <1>2, <1>3
    <2>2. SubSeq(one, 1, Len(one)) = SubSeq(two, 1, Len(one))
        BY <1>1, <1>3, <2>1, SameBeginning
    <2>3. SubSeq(one, 1, Len(one)) = one
        BY SubSeqFull DEF Path
    <2>4. /\ Len(one) + 1 \in 1..Len(two) /\ (Len(one) + 1) - 1 = Len(one)
        BY <1>1, <1>3
    <2>5. SubSeq(two, 1, (Len(one) + 1) - 1) = one
        BY <2>2, <2>3, <2>4
    <2>6. one \in DOMAIN tree /\ tree[one].key # key
        BY <2>4, <2>5 DEF Descends
    <2> QED BY <2>6 DEF EndsAt
<1> QED BY <1>1, <1>2, <1>3

\* The descent for a key ends in one place.
LEMMA OneEnd ==
    ASSUME NEW tree, NEW key, NEW one \in Path, NEW two \in Path,
           EndsAt(tree, key, one), EndsAt(tree, key, two)
    PROVE  one = two
<1>1. Descends(tree, key, one) /\ Descends(tree, key, two)
    BY DEF EndsAt
<1>2. Len(one) \in Nat /\ Len(two) \in Nat
    BY LenProperties DEF Path
<1>3. /\ \A i \in 1..Len(two) : i <= Len(one) => one[i] = two[i]
      /\ Len(two) <= Len(one)
    BY <1>1, DescentStops
<1>4. Len(one) <= Len(two)
    BY <1>1, DescentStops
<1>5. Len(one) = Len(two) /\ \A i \in 1..Len(one) : one[i] = two[i]
    BY <1>2, <1>3, <1>4
<1> QED BY <1>5, SeqEqual DEF Path

-----------------------------------------------------------------------------
(* The dictionary that an ordered tree stands for *)

\* Every key is found where it is, so no two nodes have the same.
LEMMA NodeOfKey ==
    ASSUME NEW tree, WellFormed(tree), Ordered(tree), NEW path \in DOMAIN tree
    PROVE  /\ tree[path].key \in Key
           /\ Slot(tree, tree[path].key) = path
<1> DEFINE key == tree[path].key
<1>1. path \in Path /\ Typed(tree) /\ IsEntry(tree[path])
    BY DEF WellFormed, Typed
<1>2. key \in Key
    BY <1>1 DEF IsEntry
<1>3. EndsAt(tree, key, path)
    BY <1>1, OrderedIsSearchOrder DEF SearchOrder, EndsAt
<1>4. Slot(tree, key) \in Path /\ EndsAt(tree, key, Slot(tree, key))
    BY <1>2, DescentEnds
<1> HIDE DEF key
<1>5. Slot(tree, key) = path
    BY <1>1, <1>3, <1>4, OneEnd
<1> QED BY <1>2, <1>5 DEF key

LEMMA KeysAreUnique ==
    ASSUME NEW tree, WellFormed(tree), Ordered(tree),
           NEW one \in DOMAIN tree, NEW two \in DOMAIN tree, tree[one].key = tree[two].key
    PROVE  one = two
<1>1. Slot(tree, tree[one].key) = one /\ Slot(tree, tree[two].key) = two
    BY NodeOfKey
<1> QED BY <1>1

\* A key of the tree, and only such a key, has its node at its slot.
LEMMA SlotHoldsKey ==
    ASSUME NEW tree, WellFormed(tree), Ordered(tree), NEW key \in Key
    PROVE  /\ Slot(tree, key) \in DOMAIN tree <=> key \in DOMAIN Contents(tree)
           /\ Slot(tree, key) \in DOMAIN tree => tree[Slot(tree, key)].key = key
<1>1. DOMAIN Contents(tree) = {tree[path].key : path \in DOMAIN tree}
    BY DEF Contents
<1>2. Slot(tree, key) \in DOMAIN tree => tree[Slot(tree, key)].key = key
    BY DescentEnds DEF EndsAt
<1>3. \A path \in DOMAIN tree : tree[path].key = key => Slot(tree, key) = path
    BY NodeOfKey
<1> QED BY <1>1, <1>2, <1>3

LEMMA ContentsOf ==
    ASSUME NEW tree, WellFormed(tree), Ordered(tree)
    PROVE  /\ DOMAIN Contents(tree) = {tree[path].key : path \in DOMAIN tree}
           /\ Contents(tree) = [key \in DOMAIN Contents(tree) |-> Contents(tree)[key]]
           /\ DOMAIN Contents(tree) \subseteq Key
           /\ \A path \in DOMAIN tree : Contents(tree)[tree[path].key] = tree[path].value
<1>1. DOMAIN Contents(tree) = {tree[path].key : path \in DOMAIN tree}
    BY DEF Contents
<1>2. ASSUME NEW path \in DOMAIN tree
      PROVE  /\ Contents(tree)[tree[path].key] = tree[path].value
             /\ tree[path].key \in Key
    <2>1. PICK node \in DOMAIN tree :
            /\ tree[node].key = tree[path].key
            /\ Contents(tree)[tree[path].key] = tree[node].value
        <3> DEFINE Node(key) == CHOOSE node \in DOMAIN tree : tree[node].key = key
        <3>1. Node(tree[path].key) \in DOMAIN tree /\ tree[Node(tree[path].key)].key = tree[path].key
            OBVIOUS
        <3>2. Contents(tree)[tree[path].key] = tree[Node(tree[path].key)].value
            BY <1>1 DEF Contents
        <3> HIDE DEF Node
        <3> QED BY <3>1, <3>2
    <2>2. node = path
        BY <2>1, KeysAreUnique
    <2>3. tree[path].key \in Key
        BY DEF WellFormed, Typed, IsEntry
    <2> QED BY <2>1, <2>2, <2>3
<1>3. Contents(tree) = [key \in DOMAIN Contents(tree) |-> Contents(tree)[key]]
    BY DEF Contents
<1>4. DOMAIN Contents(tree) \subseteq Key
    BY <1>1, <1>2
<1> QED BY <1>1, <1>2, <1>3, <1>4

LEMMA ContentsValued ==
    ASSUME NEW tree, WellFormed(tree), Valued(tree), Ordered(tree)
    PROVE  Contents(tree) \in [DOMAIN Contents(tree) -> Value]
<1> DEFINE contents == Contents(tree)
<1>1. contents = [key \in DOMAIN contents |-> contents[key]]
    BY ContentsOf
<1>2. /\ DOMAIN contents = {tree[path].key : path \in DOMAIN tree}
      /\ \A path \in DOMAIN tree : contents[tree[path].key] = tree[path].value
    BY ContentsOf
<1>3. \A path \in DOMAIN tree : tree[path].value \in Value
    BY DEF Valued, Entry
<1> HIDE DEF contents
<1>4. \A key \in DOMAIN contents : contents[key] \in Value
    BY <1>2, <1>3
<1> QED BY <1>1, <1>4 DEF contents

LEMMA EmptyContents == Contents(EmptyTree) = << >>
<1>1. {EmptyTree[path].key : path \in DOMAIN EmptyTree} = {}
    BY DEF EmptyTree
<1>2. DOMAIN Contents(EmptyTree) = {} /\ Contents(EmptyTree) = [key \in {} |-> Contents(EmptyTree)[key]]
    BY <1>1 DEF Contents
<1> QED BY <1>2

\* tree_get finds what the dictionary holds.
THEOREM GetFromContents ==
    ASSUME NEW tree, WellFormed(tree), Valued(tree), Ordered(tree), NEW key \in Key
    PROVE  /\ TreeGet(tree, key) = IF key \in DOMAIN Contents(tree)
                                   THEN Contents(tree)[key] ELSE NoValue
           /\ TreeGet(tree, key) = NoValue <=> key \notin DOMAIN Contents(tree)
<1>1. /\ Slot(tree, key) \in DOMAIN tree <=> key \in DOMAIN Contents(tree)
      /\ Slot(tree, key) \in DOMAIN tree => tree[Slot(tree, key)].key = key
    BY SlotHoldsKey
<1>2. \A path \in DOMAIN tree : /\ Contents(tree)[tree[path].key] = tree[path].value
                                  /\ tree[path].value \in Value
    BY ContentsOf DEF Valued, Entry
<1> DEFINE contents == Contents(tree)
           slot == Slot(tree, key)
<1>3. TreeGet(tree, key) = IF slot \in DOMAIN tree THEN tree[slot].value ELSE NoValue
    BY DEF TreeGet
<1> HIDE DEF contents, slot
<1> QED BY <1>1, <1>2, <1>3, ValueAssumption DEF contents, slot

\* A tree stands for the dictionary that has its entries and no other key.
LEMMA SameEntries ==
    ASSUME NEW tree, WellFormed(tree), Ordered(tree), NEW contents,
           contents = [key \in DOMAIN contents |-> contents[key]],
           \A path \in DOMAIN tree : /\ tree[path].key \in DOMAIN contents
                                     /\ tree[path].value = contents[tree[path].key],
           \A key \in DOMAIN contents : \E path \in DOMAIN tree : tree[path].key = key
    PROVE  Contents(tree) = contents
<1> DEFINE before == Contents(tree)
<1>1. /\ DOMAIN before = {tree[path].key : path \in DOMAIN tree}
      /\ \A path \in DOMAIN tree : before[tree[path].key] = tree[path].value
    BY ContentsOf
<1>2. before = [key \in DOMAIN before |-> before[key]]
    BY DEF Contents
<1> HIDE DEF before
<1>3. DOMAIN before = DOMAIN contents
    <2>1. ASSUME NEW key \in DOMAIN before PROVE key \in DOMAIN contents
        <3>1. PICK path \in DOMAIN tree : key = tree[path].key
            BY <1>1, Zenon
        <3> QED BY <3>1, Zenon
    <2>2. ASSUME NEW key \in DOMAIN contents PROVE key \in DOMAIN before
        <3>1. PICK path \in DOMAIN tree : tree[path].key = key
            BY Zenon
        <3> QED BY <1>1, <3>1, Zenon
    <2> QED BY <2>1, <2>2, Zenon
<1>4. \A key \in DOMAIN before : before[key] = contents[key]
    BY <1>1
<1> QED BY <1>2, <1>3, <1>4 DEF before

\* tree_put is the dictionary's update.
LEMMA PutUpdates ==
    ASSUME NEW tree, WellFormed(tree), Ordered(tree), NEW key \in Key, NEW value \in Value
    PROVE  Contents(TreePut(tree, key, value)) =
                [k \in DOMAIN Contents(tree) \cup {key} |->
                    IF k = key THEN value ELSE Contents(tree)[k]]
<1> DEFINE slot == Slot(tree, key)
           after == TreePut(tree, key, value)
           before == Contents(tree)
           contents == [k \in DOMAIN before \cup {key} |-> IF k = key THEN value ELSE before[k]]
<1>1. WellFormed(after) /\ Ordered(after)
    BY PutWellFormed, PutOrdered
<1>2. /\ DOMAIN after = DOMAIN tree \cup {slot}
      /\ \A path \in DOMAIN after :
            after[path] = IF path = slot THEN [key |-> key, value |-> value] ELSE tree[path]
    BY DEF TreePut
<1>3. /\ DOMAIN before = {tree[path].key : path \in DOMAIN tree}
      /\ \A path \in DOMAIN tree : before[tree[path].key] = tree[path].value
    BY ContentsOf
<1>4. slot \in DOMAIN tree => tree[slot].key = key
    BY SlotHoldsKey
<1>5. \A path \in DOMAIN tree : tree[path].key = key => slot = path
    BY NodeOfKey
<1> HIDE DEF slot, after, before
<1>6. \A path \in DOMAIN after : /\ after[path].key \in DOMAIN contents
                                 /\ after[path].value = contents[after[path].key]
    BY <1>2, <1>3, <1>4, <1>5
<1>7. \A k \in DOMAIN contents : \E path \in DOMAIN after : after[path].key = k
    <2> TAKE k \in DOMAIN contents
    <2>1. CASE k = key
        BY <1>2, <2>1
    <2>2. CASE k # key
        <3>1. PICK path \in DOMAIN tree : tree[path].key = k
            BY <1>3, <2>2
        <3>2. path # slot
            BY <1>4, <2>2, <3>1
        <3> QED BY <1>2, <3>1, <3>2
    <2> QED BY <2>1, <2>2
<1>8. contents = [k \in DOMAIN contents |-> contents[k]]
    OBVIOUS
<1> HIDE DEF contents
<1>9. Contents(after) = contents
    BY <1>1, <1>6, <1>7, <1>8, SameEntries
<1> QED BY <1>9 DEF contents, before, after

\* Graft takes the node at path away, and no other when it goes on at the
\* only child of path.
LEMMA GraftTakesOne ==
    ASSUME NEW tree, Typed(tree), Ordered(tree), NEW path \in DOMAIN tree, NEW side \in Side,
           \A other \in Side : Append(path, other) \in DOMAIN tree => other = side
    PROVE  LET after == Graft(tree, path, side)
           IN  /\ \A node \in DOMAIN after :
                    \E from \in DOMAIN tree : from # path /\ after[node] = tree[from]
               /\ \A from \in DOMAIN tree :
                    from # path => \E node \in DOMAIN after : after[node] = tree[from]
<1> DEFINE after == Graft(tree, path, side)
           child == Append(path, side)
           turn == <<side>>
<1>1. /\ path \in Path /\ child \in Path
      /\ turn \in Path /\ turn # << >> /\ turn[1] = side /\ child = path \o turn
    BY TurnsAreConcats DEF Typed
<1>2. ASSUME NEW node \in DOMAIN after
      PROVE  \E from \in DOMAIN tree : from # path /\ after[node] = tree[from]
    <2> DEFINE from == IF IsPrefix(path, node)
                       THEN child \o Suffix(node, Len(path))
                       ELSE node
    <2>1. node \in Path /\ from \in DOMAIN tree /\ after[node] = tree[from]
        <3>1. path \in Path
            BY <1>1
        <3>2. node \in DOMAIN Graft(tree, path, side)
            BY <1>2
        <3> QED BY <3>1, <3>2, GraftMoves
    <2>2. CASE IsPrefix(path, node)
        <3> DEFINE rest == Suffix(node, Len(path))
        <3>1. rest \in Path
            BY <1>1, <2>1, <2>2, PrefixAndSuffix
        <3> HIDE DEF rest
        <3>2. turn \o rest \in Path /\ turn \o rest # << >>
            BY <1>1, <3>1, SuffixOfConcat, FirstOfConcat
        <3>3. child \o rest = path \o (turn \o rest)
            <4> HIDE DEF turn, child
            <4> QED BY <1>1, <3>1, Reassociate
        <3>4. child \o rest # path
            <4> HIDE DEF turn, child
            <4> QED BY <1>1, <3>2, <3>3, ConcatParts
        <3>5. from = child \o rest
            BY <2>2 DEF rest
        <3> HIDE DEF after, from
        <3> QED BY <2>1, <3>4, <3>5
    <2>3. CASE ~IsPrefix(path, node)
        <3>1. IsPrefix(path, path)
            <4>1. path \o << >> = path /\ << >> \in Path
                BY <1>1, ConcatEmptySeq DEF Path
            <4> QED BY <1>1, <4>1, SuffixOfConcat
        <3>2. from = node /\ node # path
            BY <2>3, <3>1
        <3> HIDE DEF after, from
        <3> QED BY <2>1, <3>2
    <2> QED BY <2>2, <2>3
<1>3. ASSUME NEW from \in DOMAIN tree, from # path
      PROVE  \E node \in DOMAIN after : after[node] = tree[from]
    <2>1. from \in Path
        BY DEF Typed
    <2>2. CASE ~IsPrefix(path, from)
        BY <1>1, <2>2, GraftDomain
    <2>3. CASE IsPrefix(path, from)
        <3>1. PICK rest \in Path : path \o rest = from
            BY <1>1, <2>1, <2>3, PrefixAndSuffix
        <3>2. rest # << >>
            BY <1>1, <1>3, <3>1, ConcatEmptySeq DEF Path
        <3>3. PICK way \in Path : rest = <<rest[1]>> \o way
            BY <3>2, TurnAndWay
        <3>4. rest[1] \in Side /\ <<rest[1]>> \in Path
            BY <3>2, FirstAndRest
        <3>5. Append(path, rest[1]) = path \o <<rest[1]>> /\ path \o <<rest[1]>> \in Path
            BY <1>1, <3>4, TurnsAreConcats
        <3>6. (path \o <<rest[1]>>) \o way = path \o (<<rest[1]>> \o way)
            BY <1>1, <3>4, Reassociate
        <3>7. (path \o <<rest[1]>>) \o way = from
            BY <3>1, <3>3, <3>6
        <3>8. Append(path, rest[1]) \in DOMAIN tree
            BY <3>5, <3>7, AboveIsThere
        <3>9. rest[1] = side
            BY <3>4, <3>8
        <3>10. child \o way = from
            BY <3>5, <3>7, <3>9
        <3>11. path \o way \in DOMAIN after /\ after[path \o way] = tree[child \o way]
            <4>1. path \in Path
                BY <1>1
            <4>2. \A r \in Path : child \o r \in DOMAIN tree =>
                        path \o r \in DOMAIN after /\ after[path \o r] = tree[child \o r]
                BY <4>1, GraftDomain
            <4> HIDE DEF after, child
            <4> QED BY <3>10, <4>2
        <3> HIDE DEF after, child
        <3> QED BY <3>10, <3>11
    <2> QED BY <2>2, <2>3
<1> QED BY <1>2, <1>3

\* A node with at most one child goes, and every other entry stays.
LEMMA UnlinkTakesOne ==
    ASSUME NEW tree, Typed(tree), Ordered(tree), NEW path \in DOMAIN tree,
           ~HasBothChildren(tree, path)
    PROVE  \E side \in Side :
                /\ Unlink(tree, path) = Graft(tree, path, side)
                /\ \A other \in Side : Append(path, other) \in DOMAIN tree => other = side
<1> DEFINE side == IF Append(path, "left") \in DOMAIN tree THEN "left" ELSE "right"
<1>1. Unlink(tree, path) = Graft(tree, path, side) /\ side \in Side
    BY DEF Unlink, Side
<1>2. \A other \in Side : Append(path, other) \in DOMAIN tree => other = side
    BY DEF HasBothChildren, Side
<1> QED BY <1>1, <1>2

\* The dictionary without one key.
Without(contents, key) == [k \in DOMAIN contents \ {key} |-> contents[k]]

LEMMA UnlinkRemoves ==
    ASSUME NEW tree, WellFormed(tree), Ordered(tree), NEW path \in DOMAIN tree,
           ~HasBothChildren(tree, path)
    PROVE  Contents(Unlink(tree, path)) = Without(Contents(tree), tree[path].key)
<1> DEFINE after == Unlink(tree, path)
           before == Contents(tree)
           key == tree[path].key
           contents == Without(before, key)
<1>1. path \in Path /\ Typed(tree)
    BY DEF WellFormed, Typed
<1>2. WellFormed(after) /\ Ordered(after)
    BY <1>1, UnlinkWellFormed, UnlinkOrdered
<1>3. /\ \A node \in DOMAIN after :
            \E from \in DOMAIN tree : from # path /\ after[node] = tree[from]
      /\ \A from \in DOMAIN tree :
            from # path => \E node \in DOMAIN after : after[node] = tree[from]
    <2>1. PICK side \in Side :
                /\ after = Graft(tree, path, side)
                /\ \A other \in Side : Append(path, other) \in DOMAIN tree => other = side
        BY <1>1, UnlinkTakesOne
    <2> HIDE DEF after
    <2> QED BY <1>1, <2>1, GraftTakesOne
<1>4. /\ DOMAIN before = {tree[node].key : node \in DOMAIN tree}
      /\ \A node \in DOMAIN tree : before[tree[node].key] = tree[node].value
    BY ContentsOf
<1>5. \A node \in DOMAIN tree : tree[node].key = key => node = path
    BY KeysAreUnique
<1>6. /\ DOMAIN contents = DOMAIN before \ {key}
      /\ \A k \in DOMAIN contents : contents[k] = before[k]
      /\ contents = [k \in DOMAIN contents |-> contents[k]]
    BY DEF Without
<1> HIDE DEF after, before, contents
<1>7. \A node \in DOMAIN after : /\ after[node].key \in DOMAIN contents
                                 /\ after[node].value = contents[after[node].key]
    BY <1>3, <1>4, <1>5, <1>6
<1>8. \A k \in DOMAIN contents : \E node \in DOMAIN after : after[node].key = k
    <2> TAKE k \in DOMAIN contents
    <2>1. PICK from \in DOMAIN tree : tree[from].key = k
        BY <1>4, <1>6
    <2>2. from # path
        BY <1>6, <2>1
    <2> QED BY <1>3, <2>1, <2>2
<1>9. Contents(after) = contents
    BY <1>2, <1>6, <1>7, <1>8, SameEntries
<1> QED BY <1>9 DEF after, contents, before

\* The node that a deletion copies has at most one child.
LEMMA SuccessorHasOneChild ==
    ASSUME NEW tree, NEW slot, ~MinValueSpins(tree, Append(slot, "right"))
    PROVE  ~HasBothChildren(tree, MinValue(tree, Append(slot, "right")))
<1> DEFINE right == Append(slot, "right")
<1>1. Append(MinValue(tree, right), "left") \notin DOMAIN tree
    BY DEF MinValue, MinValueSpins
<1> HIDE DEF right
<1> QED BY <1>1 DEF HasBothChildren, Side, right

LEMMA CopyRemoves ==
    ASSUME NEW tree, WellFormed(tree), Ordered(tree),
           NEW slot \in DOMAIN tree, HasBothChildren(tree, slot),
           ~MinValueSpins(tree, Append(slot, "right"))
    PROVE  LET node == MinValue(tree, Append(slot, "right"))
               after == Unlink([tree EXCEPT ![slot] = tree[node]], node)
           IN  WellFormed(after) =>
                    Contents(after) = Without(Contents(tree), tree[slot].key)
<1> DEFINE node == MinValue(tree, Append(slot, "right"))
           copied == [tree EXCEPT ![slot] = tree[node]]
           after == Unlink(copied, node)
           grafted == Unlink(tree, node)
           before == Contents(tree)
           key == tree[slot].key
           contents == Without(before, key)
<1>0. Typed(tree)
    BY DEF WellFormed
<1>1. slot \in Path /\ node \in Path /\ node \in DOMAIN tree
    BY <1>0, SuccessorPlace DEF Typed
<1>2. Len(slot) < Len(node)
    <2>1. PICK way \in Path : way # << >> /\ node = slot \o way
        BY <1>0, SuccessorPlace
    <2>2. Len(slot) \in Nat /\ Len(way) \in Nat \ {0} /\ Len(slot \o way) = Len(slot) + Len(way)
        BY <1>1, <2>1, ConcatParts, SuffixOfConcat
    <2> HIDE DEF node
    <2> QED BY <2>1, <2>2
<1>3. ~HasBothChildren(tree, node)
    BY SuccessorHasOneChild
<1>4. Ordered(after)
    BY <1>0, CopyOrdered
<1> HIDE DEF node
<1>5. DOMAIN copied = DOMAIN tree
    OBVIOUS
<1>6. PICK side \in Side : grafted = Graft(tree, node, side) /\ after = Graft(copied, node, side)
    <2> DEFINE side == IF Append(node, "left") \in DOMAIN tree THEN "left" ELSE "right"
    <2>1. side \in Side /\ grafted = Graft(tree, node, side)
        BY DEF Unlink, Side
    <2>2. after = Graft(copied, node, side)
        BY <1>5 DEF Unlink
    <2> QED BY <2>1, <2>2
<1>7. after = CopyAndGraft(tree, slot, node, side)
    BY <1>6 DEF CopyAndGraft
<1>8. /\ DOMAIN after = DOMAIN grafted
      /\ slot \in DOMAIN after /\ after[slot] = tree[node]
      /\ \A path \in DOMAIN after : path # slot => after[path] = grafted[path]
    <2> HIDE DEF after, grafted, copied
    <2> DEFINE both == CopyAndGraft(tree, slot, node, side)
    <2>1. /\ DOMAIN both = DOMAIN Graft(tree, node, side)
          /\ slot \in DOMAIN both /\ both[slot] = tree[node]
          /\ \A path \in DOMAIN both : path # slot => both[path] = Graft(tree, node, side)[path]
        BY <1>0, <1>1, <1>2, CopyThenGraft
    <2> HIDE DEF both
    <2> QED BY <1>6, <1>7, <2>1 DEF both
<1>9. grafted[slot] = tree[slot]
    <2>1. ~IsPrefix(node, slot)
        <3>1. Len(slot) \in Nat /\ Len(node) \in Nat
            BY <1>1, LenProperties DEF Path
        <3> QED BY <1>2, <3>1 DEF IsPrefix
    <2>2. \A path \in DOMAIN tree : ~IsPrefix(node, path) =>
                Graft(tree, node, side)[path] = tree[path]
        BY <1>0, <1>1, GraftDomain
    <2> HIDE DEF grafted
    <2> QED BY <1>6, <2>1, <2>2
<1>10. WellFormed(grafted) /\ Ordered(grafted)
    BY <1>0, <1>1, UnlinkWellFormed, UnlinkOrdered
<1>11. Contents(grafted) = Without(before, tree[node].key)
    BY <1>1, <1>3, UnlinkRemoves
<1> HIDE DEF after, grafted, copied
<1>12. /\ DOMAIN Contents(grafted) = {grafted[path].key : path \in DOMAIN grafted}
       /\ \A path \in DOMAIN grafted : Contents(grafted)[grafted[path].key] = grafted[path].value
    BY <1>10, ContentsOf
<1>13. /\ DOMAIN before = {tree[path].key : path \in DOMAIN tree}
       /\ \A path \in DOMAIN tree : before[tree[path].key] = tree[path].value
    BY ContentsOf
<1>14. /\ tree[node].key # key
       /\ \A path \in DOMAIN grafted : grafted[path].key = key => path = slot
    <2>1. node # slot
        <3>1. Len(slot) \in Nat
            BY <1>1, LenProperties DEF Path
        <3> QED BY <1>2, <3>1
    <2> QED BY <1>1, <1>8, <1>9, <1>10, <2>1, KeysAreUnique
<1> DEFINE least == tree[node].key
           others == Contents(grafted)
<1>15. /\ DOMAIN others = DOMAIN before \ {least}
       /\ \A k \in DOMAIN others : others[k] = before[k]
       /\ DOMAIN others = {grafted[path].key : path \in DOMAIN grafted}
       /\ \A path \in DOMAIN grafted : others[grafted[path].key] = grafted[path].value
    BY <1>11, <1>12 DEF Without
<1>16. /\ DOMAIN contents = DOMAIN before \ {key}
       /\ \A k \in DOMAIN contents : contents[k] = before[k]
       /\ contents = [k \in DOMAIN contents |-> contents[k]]
    BY DEF Without
<1> HIDE DEF before, contents, others, key
<1>17. ASSUME NEW path \in DOMAIN after
       PROVE  after[path].key \in DOMAIN contents /\ after[path].value = contents[after[path].key]
    <2>1. CASE path = slot
        <3>1. least \in DOMAIN before /\ before[least] = tree[node].value /\ least # key
            BY <1>1, <1>13, <1>14
        <3>2. after[path].key = least /\ after[path].value = tree[node].value
            BY <1>8, <2>1
        <3> QED BY <1>16, <3>1, <3>2
    <2>2. CASE path # slot
        <3>1. path \in DOMAIN grafted /\ after[path] = grafted[path]
            BY <1>8, <2>2
        <3>2. /\ grafted[path].key \in DOMAIN others
              /\ others[grafted[path].key] = grafted[path].value
            BY <1>15, <3>1
        <3>3. grafted[path].key # key
            BY <1>14, <2>2, <3>1
        <3> QED BY <1>15, <1>16, <3>1, <3>2, <3>3
    <2> QED BY <2>1, <2>2
<1>18. ASSUME NEW k \in DOMAIN contents
       PROVE  \E path \in DOMAIN after : after[path].key = k
    <2>1. CASE k = least
        BY <1>8, <2>1
    <2>2. CASE k # least
        <3>1. PICK path \in DOMAIN grafted : grafted[path].key = k
            <4>1. k \in DOMAIN others
                BY <1>15, <1>16, <2>2
            <4> HIDE DEF least
            <4> QED BY <1>15, <4>1
        <3>2. path # slot
            BY <1>9, <1>16, <3>1 DEF key
        <3> QED BY <1>8, <3>1, <3>2
    <2> QED BY <2>1, <2>2
<1>19. WellFormed(after) => Contents(after) = contents
    BY <1>4, <1>16, <1>17, <1>18, SameEntries
<1> QED BY <1>19 DEF contents, before, key, after, copied, node

\* tree_del removes one key, and nothing when the key is missing.
THEOREM DelRemoves ==
    ASSUME NEW tree, WellFormed(tree), Ordered(tree), NEW key \in Key, ~DelSpins(tree, key)
    PROVE  Contents(TreeDel(tree, key)) = Without(Contents(tree), key)
<1> DEFINE slot == Slot(tree, key)
           after == TreeDel(tree, key)
<1>1. slot \in DOMAIN tree <=> key \in DOMAIN Contents(tree)
    BY SlotHoldsKey
<1>2. slot \in DOMAIN tree => tree[slot].key = key
    BY SlotHoldsKey
<1>3. CASE slot \notin DOMAIN tree
    <2>1. after = tree
        BY <1>3 DEF TreeDel
    <2>2. Contents(tree) = [k \in DOMAIN Contents(tree) |-> Contents(tree)[k]]
        BY DEF Contents
    <2> DEFINE before == Contents(tree)
    <2> HIDE DEF slot, after, before
    <2>3. DOMAIN before \ {key} = DOMAIN before
        BY <1>1, <1>3 DEF before
    <2>4. before = Without(before, key)
        BY <2>2, <2>3 DEF Without, before
    <2> QED BY <2>1, <2>4 DEF before, after
<1>4. CASE slot \in DOMAIN tree /\ ~HasBothChildren(tree, slot)
    <2>1. after = Unlink(tree, slot)
        BY <1>4 DEF TreeDel, DelAux
    <2> HIDE DEF slot, after
    <2> QED BY <1>2, <1>4, <2>1, UnlinkRemoves DEF after
<1>5. CASE slot \in DOMAIN tree /\ HasBothChildren(tree, slot)
    <2> DEFINE node == MinValue(tree, Append(slot, "right"))
    <2>1. ~MinValueSpins(tree, Append(slot, "right"))
        BY <1>5 DEF DelSpins
    <2>2. after = Unlink([tree EXCEPT ![slot] = tree[node]], node)
        BY <1>5 DEF TreeDel, DelAux
    <2>3. WellFormed(after)
        BY DelWellFormed
    <2> HIDE DEF slot
    <2>4. WellFormed(Unlink([tree EXCEPT ![slot] = tree[node]], node)) =>
            Contents(Unlink([tree EXCEPT ![slot] = tree[node]], node)) = Without(Contents(tree), tree[slot].key)
        BY <1>5, <2>1, CopyRemoves
    <2> HIDE DEF node, after
    <2> QED BY <1>2, <1>5, <2>2, <2>3, <2>4 DEF after
<1> QED BY <1>3, <1>4, <1>5

-----------------------------------------------------------------------------
(* Sizes: how many nodes fit in a tree, how many keys it has *)

LEMMA GreatestOf ==
    ASSUME NEW T \in SUBSET Nat, T # {}, NEW bound \in Nat, \A n \in T : n <= bound
    PROVE  \E greatest \in T : \A n \in T : greatest >= n
<1> DEFINE Bounds == {m \in Nat : \A n \in T : n <= m}
<1>1. Bounds \in SUBSET Nat /\ bound \in Bounds
    OBVIOUS
<1>2. PICK least \in Bounds : \A m \in Bounds : least <= m
    <2> HIDE DEF Bounds
    <2> QED BY <1>1, LeastOf
<1>3. least \in Nat /\ \A n \in T : n \in Nat /\ n <= least
    BY <1>2
<1>4. ASSUME least \notin T PROVE FALSE
    <2>1. \A n \in T : n < least
        BY <1>3, <1>4
    <2>2. least # 0
        <3>1. PICK n \in T : TRUE
            OBVIOUS
        <3>2. n \in Nat /\ n < least
            BY <1>3, <2>1
        <3> QED BY <3>2
    <2>3. least - 1 \in Bounds
        BY <1>3, <2>1, <2>2
    <2>4. least <= least - 1
        BY <1>2, <2>3
    <2> QED BY <1>3, <2>4
<1> QED BY <1>3, <1>4

\* A path as a set of numbers: its turns to the right, and where it ends.
Marks(path) == {i \in 1..Len(path) : path[i] = "right"} \cup {Len(path) + 1}

LEMMA MarksTellPaths ==
    ASSUME NEW one \in Path, NEW two \in Path, Marks(one) = Marks(two)
    PROVE  one = two
<1>1. /\ Len(one) \in Nat /\ \A i \in 1..Len(one) : one[i] \in Side
      /\ Len(two) \in Nat /\ \A i \in 1..Len(two) : two[i] \in Side
    BY LenProperties, ElementOfSeq DEF Path
<1>2. Len(one) = Len(two)
    <2>1. Len(one) + 1 \in Marks(two) /\ Len(two) + 1 \in Marks(one)
        BY DEF Marks
    <2> QED BY <1>1, <2>1 DEF Marks
<1>3. ASSUME NEW i \in 1..Len(one) PROVE one[i] = two[i]
    <2>1. one[i] = "right" <=> i \in Marks(one)
        BY <1>1 DEF Marks
    <2>2. two[i] = "right" <=> i \in Marks(two)
        BY <1>1, <1>2 DEF Marks
    <2> QED BY <1>1, <1>2, <2>1, <2>2 DEF Side
<1> QED BY <1>2, <1>3, SeqEqual DEF Path

\* A tree of some number of levels has less than two to that number of nodes.
LEMMA NodesFit ==
    ASSUME NEW tree, Typed(tree), NEW levels \in Nat, \A path \in DOMAIN tree : Len(path) < levels
    PROVE  /\ IsFiniteSet(DOMAIN tree)
           /\ Cardinality(DOMAIN tree) \in Nat
           /\ 2^levels \in Nat
           /\ Cardinality(DOMAIN tree) < 2^levels
<1> DEFINE marks == [path \in DOMAIN tree |-> Marks(path)]
           Subsets == SUBSET (1..levels)
           Codes == Subsets \ {{}}
           power == 2^levels
<1>1. IsFiniteSet(1..levels) /\ Cardinality(1..levels) = levels
    BY FS_Interval
<1>2. IsFiniteSet(Subsets) /\ Cardinality(Subsets) = power
    BY <1>1, FS_SUBSET
<1>3. power \in Nat
    BY <1>2, FS_CardinalityType
<1>4. IsFiniteSet(Codes) /\ Cardinality(Codes) = power - 1
    <2>1. {} \in Subsets
        OBVIOUS
    <2> HIDE DEF Subsets, power
    <2> QED BY <1>2, <2>1, FS_RemoveElement
<1>5. marks \in [DOMAIN tree -> Codes]
    <2> SUFFICES ASSUME NEW path \in DOMAIN tree PROVE Marks(path) \in Codes
        OBVIOUS
    <2>1. Len(path) \in Nat /\ Len(path) < levels
        BY LenProperties DEF Typed, Path
    <2> QED BY <2>1 DEF Marks
<1>6. \A one, two \in DOMAIN tree : marks[one] = marks[two] => one = two
    BY MarksTellPaths DEF Typed
<1> HIDE DEF marks, Codes, power, Subsets
<1>7. marks \in Injection(DOMAIN tree, Codes)
    BY <1>5, <1>6, Fun_IsInj
<1>8. IsFiniteSet(DOMAIN tree) /\ Cardinality(DOMAIN tree) <= power - 1
    BY <1>4, <1>7, FS_Injection
<1>9. Cardinality(DOMAIN tree) \in Nat
    BY <1>8, FS_CardinalityType
<1>10. Cardinality(DOMAIN tree) < power
    BY <1>3, <1>8, <1>9
<1> QED BY <1>3, <1>8, <1>9, <1>10 DEF power

LEMMA TreeIsFinite ==
    ASSUME NEW tree, WellFormed(tree)
    PROVE  IsFiniteSet(DOMAIN tree) /\ Cardinality(DOMAIN tree) \in Nat
<1>1. PICK depth \in Nat : \A path \in DOMAIN tree : Len(path) <= depth
    BY DEF WellFormed, Shallow
<1>2. \A path \in DOMAIN tree : Len(path) \in Nat
    BY LenProperties DEF WellFormed, Typed, Path
<1>3. depth + 1 \in Nat /\ \A path \in DOMAIN tree : Len(path) < depth + 1
    BY <1>1, <1>2
<1> QED BY <1>3, NodesFit DEF WellFormed

\* tree_size counts the keys.
LEMMA SizeCountsKeys ==
    ASSUME NEW tree, WellFormed(tree), Ordered(tree)
    PROVE  /\ IsFiniteSet(DOMAIN Contents(tree))
           /\ Cardinality(DOMAIN Contents(tree)) = TreeSize(tree)
           /\ TreeSize(tree) \in Nat
<1> DEFINE keys == [path \in DOMAIN tree |-> tree[path].key]
           Present == DOMAIN Contents(tree)
<1>1. Present = {tree[path].key : path \in DOMAIN tree}
    BY ContentsOf
<1>2. /\ keys \in [DOMAIN tree -> Present]
      /\ \A one, two \in DOMAIN tree : keys[one] = keys[two] => one = two
      /\ \A key \in Present : \E path \in DOMAIN tree : keys[path] = key
    BY <1>1, KeysAreUnique
<1> HIDE DEF keys, Present
<1>3. keys \in Bijection(DOMAIN tree, Present)
    BY <1>2, Fun_IsBij
<1>4. ExistsBijection(DOMAIN tree, Present)
    BY <1>3 DEF ExistsBijection
<1> QED BY <1>4, TreeIsFinite, FS_Bijection DEF TreeSize, Present

\* After a deletion tree_size tells whether the key was there.
LEMMA SizeAfterDel ==
    ASSUME NEW tree, WellFormed(tree), Ordered(tree), NEW key \in Key, ~DelSpins(tree, key)
    PROVE  TreeSize(TreeDel(tree, key)) = TreeSize(tree) <=> key \notin DOMAIN Contents(tree)
<1> DEFINE after == TreeDel(tree, key)
           Present == DOMAIN Contents(tree)
<1>1. WellFormed(after) /\ Ordered(after)
    BY DelWellFormed, DelOrdered DEF WellFormed
<1>2. IsFiniteSet(Present) /\ Cardinality(Present) = TreeSize(tree) /\ TreeSize(tree) \in Nat
    BY SizeCountsKeys
<1>3. DOMAIN Contents(after) = Present \ {key}
    <2>1. Contents(after) = Without(Contents(tree), key)
        BY DelRemoves
    <2>2. DOMAIN Without(Contents(tree), key) = Present \ {key}
        BY DEF Without
    <2> HIDE DEF after, Present
    <2> QED BY <2>1, <2>2
<1> HIDE DEF after, Present
<1>4. Cardinality(Present \ {key}) = TreeSize(after)
    BY <1>1, <1>3, SizeCountsKeys
<1>5. Cardinality(Present \ {key}) =
            IF key \in Present THEN Cardinality(Present) - 1 ELSE Cardinality(Present)
    BY <1>2, FS_RemoveElement
<1> QED BY <1>2, <1>4, <1>5 DEF after, Present

\* The paths above a node are nodes: a tree has as many nodes as levels.
LEMMA NodesOnTheWay ==
    ASSUME NEW tree, WellFormed(tree), Ordered(tree), NEW path \in DOMAIN tree
    PROVE  Len(path) + 1 <= TreeSize(tree)
<1> DEFINE way == [i \in 0..Len(path) |-> SubSeq(path, 1, i)]
<1>1. path \in Path /\ Len(path) \in Nat
    BY LenProperties DEF WellFormed, Typed, Path
<1>2. ASSUME NEW i \in 0..Len(path)
      PROVE  SubSeq(path, 1, i) \in DOMAIN tree /\ Len(SubSeq(path, 1, i)) = i
    <2>1. CASE i = Len(path)
        BY <1>1, <2>1, SubSeqFull DEF Path
    <2>2. CASE i # Len(path)
        <3>1. /\ i + 1 \in 1..Len(path) /\ (i + 1) - 1 = i
            BY <1>1, <2>2
        <3>2. PICK rest \in Path : SubSeq(path, 1, i) \in Path /\ SubSeq(path, 1, i) \o rest = path
            BY <1>1, <3>1, SplitAt
        <3>3. SubSeq(path, 1, i) \in DOMAIN tree
            <4> DEFINE above == SubSeq(path, 1, i)
            <4>1. above \in Path /\ above \o rest \in DOMAIN tree
                BY <3>2
            <4> HIDE DEF above
            <4>2. above \in DOMAIN tree
                BY <4>1, AboveIsThere
            <4> QED BY <4>2 DEF above
        <3>4. Len(SubSeq(path, 1, i)) = i
            <4>1. /\ 1 \in Int /\ i \in Int /\ \A j \in 1..i : path[j] \in Side
                BY <1>1, ElementOfSeq DEF Path
            <4> QED BY <4>1, SubSeqProperties DEF Path
        <3> QED BY <3>3, <3>4
    <2> QED BY <2>1, <2>2
<1>3. /\ way \in [0..Len(path) -> DOMAIN tree]
      /\ \A i, j \in 0..Len(path) : way[i] = way[j] => i = j
    BY <1>2
<1> HIDE DEF way
<1>4. way \in Injection(0..Len(path), DOMAIN tree)
    BY <1>3, Fun_IsInj
<1>5. Cardinality(0..Len(path)) = Len(path) + 1
    BY <1>1, FS_Interval
<1>6. IsFiniteSet(DOMAIN tree) /\ Cardinality(DOMAIN tree) \in Nat
    BY TreeIsFinite
<1>7. Cardinality(0..Len(path)) <= Cardinality(DOMAIN tree)
    BY <1>4, <1>6, FS_Injection
<1> QED BY <1>5, <1>7 DEF TreeSize

LEMMA MaxOfTwo ==
    ASSUME NEW one \in Nat, NEW two \in Nat
    PROVE  Max({one, two}) \in Nat /\ one <= Max({one, two}) /\ two <= Max({one, two})
<1>1. \E greatest \in {one, two} : \A n \in {one, two} : greatest >= n
    OBVIOUS
<1>2. Max({one, two}) \in {one, two} /\ \A n \in {one, two} : Max({one, two}) >= n
    BY <1>1 DEF Max
<1> QED BY <1>2

\* tree_height fits the number of keys.
THEOREM HeightFitsSize ==
    ASSUME NEW tree, WellFormed(tree), Ordered(tree)
    PROVE  /\ TreeHeight(tree) \in 1..Max({1, TreeSize(tree)})
           /\ TreeSize(tree) < 2^TreeHeight(tree)
           /\ TreeHeight(tree) <= 1 + TreeSize(tree)
<1> DEFINE lengths == {0} \cup {Len(path) : path \in DOMAIN tree}
           deepest == Max(lengths)
           size == TreeSize(tree)
<1>1. \A path \in DOMAIN tree : Len(path) \in Nat
    BY LenProperties DEF WellFormed, Typed, Path
<1>2. PICK depth \in Nat : \A path \in DOMAIN tree : Len(path) <= depth
    BY DEF WellFormed, Shallow
<1>3. \E greatest \in lengths : \A n \in lengths : greatest >= n
    <2>1. lengths \in SUBSET Nat /\ 0 \in lengths /\ \A n \in lengths : n <= depth
        BY <1>1, <1>2
    <2> HIDE DEF lengths
    <2> QED BY <2>1, GreatestOf
<1>4. deepest \in lengths /\ \A n \in lengths : deepest >= n
    <2> HIDE DEF lengths
    <2> QED BY <1>3 DEF Max
<1>5. TreeHeight(tree) = 1 + deepest
    BY DEF TreeHeight
<1>6. deepest \in Nat /\ \A path \in DOMAIN tree : Len(path) < 1 + deepest
    <2>1. lengths \in SUBSET Nat
        BY <1>1
    <2>2. \A path \in DOMAIN tree : Len(path) \in lengths
        OBVIOUS
    <2> HIDE DEF lengths, deepest
    <2> QED BY <1>4, <2>1, <2>2
<1>7. size < 2^(1 + deepest) /\ size \in Nat
    BY <1>6, NodesFit DEF WellFormed, TreeSize
<1>8. deepest = 0 \/ 1 + deepest <= size
    <2>1. deepest = 0 \/ \E path \in DOMAIN tree : deepest = Len(path)
        BY <1>4
    <2> HIDE DEF deepest, size
    <2>2. \A path \in DOMAIN tree : 1 + Len(path) <= size
        BY <1>1, NodesOnTheWay DEF size
    <2> QED BY <2>1, <2>2
<1> HIDE DEF deepest, size
<1>9. Max({1, size}) \in Nat /\ 1 <= Max({1, size}) /\ size <= Max({1, size})
    BY <1>7, MaxOfTwo
<1>10. 1 + deepest \in 1..Max({1, size}) /\ 1 + deepest <= 1 + size
    BY <1>6, <1>7, <1>8, <1>9
<1> QED BY <1>5, <1>7, <1>10 DEF size

-----------------------------------------------------------------------------
(* The order of tree_get_keys *)

LEMMA StrictPrefixByTurns ==
    ASSUME NEW one \in Path, NEW two \in Path
    PROVE  IsStrictPrefix(one, two) <=>
                Len(one) < Len(two) /\ \A i \in 1..Len(one) : one[i] = two[i]
<1>1. Len(one) \in Nat /\ Len(two) \in Nat
    BY LenProperties DEF Path
<1>2. Len(one) <= Len(two) =>
        (SubSeq(one, 1, Len(one)) = SubSeq(two, 1, Len(one)) <=> \A i \in 1..Len(one) : one[i] = two[i])
    BY <1>1, SameBeginning
<1>3. Len(one) = Len(two) /\ (\A i \in 1..Len(one) : one[i] = two[i]) => one = two
    BY SeqEqual DEF Path
<1>4. Len(one) # Len(two) => one # two
    OBVIOUS
<1> QED BY <1>1, <1>2, <1>3, <1>4 DEF IsStrictPrefix, IsPrefix

\* At the turn i the visit goes to one first.
Parts(one, two, i) == /\ i \in 1..Len(one) /\ i \in 1..Len(two)
                      /\ \A j \in 1..(i - 1) : one[j] = two[j]
                      /\ one[i] = "right" /\ two[i] = "left"

LEMMA VisitsByTurns ==
    ASSUME NEW one \in Path, NEW two \in Path
    PROVE  VisitedBefore(one, two) <=>
                \/ Len(one) < Len(two) /\ \A i \in 1..Len(one) : one[i] = two[i]
                \/ \E i \in Nat : Parts(one, two, i)
<1>1. /\ DOMAIN one = 1..Len(one) /\ DOMAIN two = 1..Len(two)
      /\ Len(one) \in Nat /\ Len(two) \in Nat
    BY LenProperties DEF Path
<1>2. (\E i \in DOMAIN one \cap DOMAIN two :
            /\ \A j \in 1..(i - 1) : one[j] = two[j]
            /\ one[i] = "right" /\ two[i] = "left") <=> \E i \in Nat : Parts(one, two, i)
    BY <1>1 DEF Parts
<1>3. IsStrictPrefix(one, two) <=>
            Len(one) < Len(two) /\ \A i \in 1..Len(one) : one[i] = two[i]
    BY StrictPrefixByTurns
<1> QED BY <1>2, <1>3 DEF VisitedBefore

LEMMA NotBeforeItself ==
    ASSUME NEW path \in Path
    PROVE  ~VisitedBefore(path, path)
<1>1. Len(path) \in Nat
    BY LenProperties DEF Path
<1> QED BY <1>1, VisitsByTurns DEF Parts

LEMMA BeforeIsTransitive ==
    ASSUME NEW one \in Path, NEW two \in Path, NEW three \in Path,
           VisitedBefore(one, two), VisitedBefore(two, three)
    PROVE  VisitedBefore(one, three)
<1>1. Len(one) \in Nat /\ Len(two) \in Nat /\ Len(three) \in Nat
    BY LenProperties DEF Path
<1>2. SUFFICES \/ Len(one) < Len(three) /\ \A i \in 1..Len(one) : one[i] = three[i]
               \/ \E i \in Nat : Parts(one, three, i)
    BY VisitsByTurns
<1>3. CASE Len(one) < Len(two) /\ \A i \in 1..Len(one) : one[i] = two[i]
    <2>1. CASE Len(two) < Len(three) /\ \A i \in 1..Len(two) : two[i] = three[i]
        BY <1>1, <1>3, <2>1
    <2>2. CASE \E i \in Nat : Parts(two, three, i)
        <3>1. PICK i \in Nat : Parts(two, three, i)
            BY <2>2
        <3>2. CASE i <= Len(one)
            <4>1. Parts(one, three, i)
                BY <1>1, <1>3, <3>1, <3>2 DEF Parts
            <4> QED BY <4>1
        <3>3. CASE Len(one) < i
            BY <1>1, <1>3, <3>1, <3>3 DEF Parts
        <3> QED BY <1>1, <3>2, <3>3
    <2> QED BY <2>1, <2>2, VisitsByTurns
<1>4. CASE \E i \in Nat : Parts(one, two, i)
    <2>1. PICK i \in Nat : Parts(one, two, i)
        BY <1>4
    <2>2. CASE Len(two) < Len(three) /\ \A j \in 1..Len(two) : two[j] = three[j]
        <3>1. Parts(one, three, i)
            BY <1>1, <2>1, <2>2 DEF Parts
        <3> QED BY <3>1
    <2>3. CASE \E k \in Nat : Parts(two, three, k)
        <3>1. PICK k \in Nat : Parts(two, three, k)
            BY <2>3
        <3>2. CASE i < k
            <4>1. Parts(one, three, i)
                BY <1>1, <2>1, <3>1, <3>2 DEF Parts
            <4> QED BY <4>1
        <3>3. CASE k < i
            <4>1. Parts(one, three, k)
                BY <1>1, <2>1, <3>1, <3>3 DEF Parts
            <4> QED BY <4>1
        <3>4. CASE i = k
            BY <2>1, <3>1, <3>4 DEF Parts
        <3> QED BY <3>2, <3>3, <3>4
    <2> QED BY <2>2, <2>3, VisitsByTurns
<1> QED BY <1>3, <1>4, VisitsByTurns

LEMMA BeforeIsTotal ==
    ASSUME NEW one \in Path, NEW two \in Path, one # two
    PROVE  VisitedBefore(one, two) \/ VisitedBefore(two, one)
<1>1. /\ Len(one) \in Nat /\ \A i \in 1..Len(one) : one[i] \in Side
      /\ Len(two) \in Nat /\ \A i \in 1..Len(two) : two[i] \in Side
    BY LenProperties, ElementOfSeq DEF Path
<1> DEFINE Differ == {i \in 1..Len(one) : i <= Len(two) /\ one[i] # two[i]}
<1>2. CASE Differ = {}
    <2>1. \A i \in 1..Len(one) : i <= Len(two) => one[i] = two[i]
        BY <1>2
    <2>2. CASE Len(one) < Len(two)
        BY <1>1, <2>1, <2>2, VisitsByTurns
    <2>3. CASE Len(two) < Len(one)
        <3>1. \A i \in 1..Len(two) : two[i] = one[i]
            BY <1>1, <2>1, <2>3
        <3> QED BY <2>3, <3>1, VisitsByTurns
    <2>4. CASE Len(one) = Len(two)
        <3>1. \A i \in 1..Len(one) : one[i] = two[i]
            BY <1>1, <2>1, <2>4
        <3> QED BY <2>4, <3>1, SeqEqual DEF Path
    <2> QED BY <1>1, <2>2, <2>3, <2>4
<1>3. CASE Differ # {}
    <2>1. Differ \in SUBSET Nat
        BY <1>1
    <2>2. PICK i \in Differ : \A j \in Differ : i <= j
        <3> HIDE DEF Differ
        <3> QED BY <1>3, <2>1, LeastOf
    <2>3. i \in Nat /\ i \in 1..Len(one) /\ i \in 1..Len(two) /\ one[i] # two[i]
        BY <1>1, <2>2
    <2>4. \A j \in 1..(i - 1) : one[j] = two[j]
        BY <1>1, <2>2, <2>3
    <2>5. \/ one[i] = "right" /\ two[i] = "left"
          \/ one[i] = "left" /\ two[i] = "right"
        BY <1>1, <2>3 DEF Side
    <2>6. Parts(one, two, i) \/ Parts(two, one, i)
        BY <2>3, <2>4, <2>5 DEF Parts
    <2> QED BY <2>3, <2>6, VisitsByTurns
<1> QED BY <1>2, <1>3

\* The pointer takes each value below the number of nodes once.
LEMMA EveryPlaceOnce ==
    ASSUME NEW tree, WellFormed(tree)
    PROVE  /\ \A path \in DOMAIN tree : Place(tree, path) \in 1..TreeSize(tree)
           /\ \A one, two \in DOMAIN tree : Place(tree, one) = Place(tree, two) => one = two
           /\ \A i \in 1..TreeSize(tree) : \E path \in DOMAIN tree : Place(tree, path) = i
<1> DEFINE nodes == DOMAIN tree
           Earlier(path) == {node \in nodes : VisitedBefore(node, path)}
           size == Cardinality(nodes)
<1>1. IsFiniteSet(nodes) /\ size \in Nat /\ nodes \subseteq Path /\ TreeSize(tree) = size
    BY TreeIsFinite DEF WellFormed, Typed, TreeSize
<1>2. \A path \in nodes : Place(tree, path) = 1 + Cardinality(Earlier(path))
    BY DEF Place
<1> HIDE DEF nodes, size
<1>3. ASSUME NEW path \in nodes
      PROVE  /\ IsFiniteSet(Earlier(path)) /\ Cardinality(Earlier(path)) \in Nat
             /\ Cardinality(Earlier(path)) < size
    <2>1. Earlier(path) \in SUBSET nodes
        OBVIOUS
    <2>2. path \notin Earlier(path)
        BY <1>1, NotBeforeItself
    <2> HIDE DEF Earlier
    <2>3. /\ IsFiniteSet(Earlier(path)) /\ Cardinality(Earlier(path)) <= size
          /\ size = Cardinality(Earlier(path)) => nodes = Earlier(path)
        BY <1>1, <2>1, FS_Subset DEF size
    <2>4. Cardinality(Earlier(path)) \in Nat
        BY <2>3, FS_CardinalityType
    <2> QED BY <1>1, <2>2, <2>3, <2>4
<1>4. ASSUME NEW one \in nodes, NEW two \in nodes, VisitedBefore(one, two)
      PROVE  Cardinality(Earlier(one)) < Cardinality(Earlier(two))
    <2>1. Earlier(one) \in SUBSET Earlier(two)
        BY <1>1, <1>4, BeforeIsTransitive
    <2>2. one \in Earlier(two) /\ one \notin Earlier(one)
        BY <1>1, <1>4, NotBeforeItself
    <2>3. IsFiniteSet(Earlier(two)) /\ Cardinality(Earlier(two)) \in Nat /\ Cardinality(Earlier(one)) \in Nat
        BY <1>3
    <2> HIDE DEF Earlier
    <2>4. /\ Cardinality(Earlier(one)) <= Cardinality(Earlier(two))
          /\ Cardinality(Earlier(two)) = Cardinality(Earlier(one)) => Earlier(two) = Earlier(one)
        BY <2>1, <2>3, FS_Subset
    <2> QED BY <2>2, <2>3, <2>4
<1> HIDE DEF Earlier
<1>5. \A path \in nodes : Place(tree, path) \in 1..size
    BY <1>1, <1>2, <1>3
<1>6. ASSUME NEW one \in nodes, NEW two \in nodes, Place(tree, one) = Place(tree, two)
      PROVE  one = two
    <2>1. Cardinality(Earlier(one)) = Cardinality(Earlier(two))
        BY <1>2, <1>3, <1>6
    <2>2. ~VisitedBefore(one, two) /\ ~VisitedBefore(two, one)
        BY <1>3, <1>4, <2>1
    <2>3. one \in Path /\ two \in Path
        BY <1>1
    <2> QED BY <2>2, <2>3, BeforeIsTotal
<1>7. \A i \in 1..size : \E path \in nodes : Place(tree, path) = i
    <2> DEFINE places == [path \in nodes |-> Place(tree, path)]
    <2>1. /\ places \in [nodes -> 1..size]
          /\ \A one, two \in nodes : places[one] = places[two] => one = two
        BY <1>5, <1>6
    <2>2. \A path \in nodes : places[path] = Place(tree, path)
        OBVIOUS
    <2> HIDE DEF places
    <2>3. places \in Injection(nodes, 1..size)
        BY <2>1, Fun_IsInj
    <2>4. IsFiniteSet(1..size) /\ Cardinality(1..size) = size
        BY <1>1, FS_Interval
    <2>5. places \in Surjection(nodes, 1..size)
        BY <2>3, <2>4, FS_Injection DEF size
    <2>6. \A i \in 1..size : \E path \in nodes : places[path] = i
        BY <2>5, Fun_SurjectionProperties
    <2> QED BY <2>2, <2>6
<1> QED BY <1>1, <1>5, <1>6, <1>7 DEF nodes

\* tree_get_keys gives every key once.
THEOREM KeysOfTree ==
    ASSUME NEW tree, WellFormed(tree), Ordered(tree)
    PROVE  TreeKeys(tree) \in SetToSeqs(DOMAIN Contents(tree))
<1> DEFINE size == TreeSize(tree)
           Node(i) == CHOOSE path \in DOMAIN tree : Place(tree, path) = i
           Present == DOMAIN Contents(tree)
<1>1. \A i \in 1..size : \E path \in DOMAIN tree : Place(tree, path) = i
    BY EveryPlaceOnce
<1>2. \A i \in 1..size : Node(i) \in DOMAIN tree /\ Place(tree, Node(i)) = i
    <2> HIDE DEF size
    <2> QED BY <1>1
<1>3. TreeKeys(tree) = [i \in 1..size |-> tree[Node(i)].key]
    BY DEF TreeKeys
<1>4. Present = {tree[path].key : path \in DOMAIN tree} /\ Cardinality(Present) = size
    BY ContentsOf, SizeCountsKeys
<1> DEFINE keys == [i \in 1..size |-> tree[Node(i)].key]
<1> HIDE DEF size, Node, Present
<1>5. keys \in [1..size -> Present]
    BY <1>2, <1>4
<1>6. ASSUME NEW i \in 1..size, NEW j \in 1..size, i # j PROVE keys[i] # keys[j]
    <2>1. Node(i) # Node(j)
        BY <1>2, <1>6
    <2>2. tree[Node(i)].key # tree[Node(j)].key
        BY <1>2, <2>1, KeysAreUnique
    <2> QED BY <2>2
<1> HIDE DEF keys
<1>7. keys \in SetToSeqs(Present)
    BY <1>4, <1>5, <1>6 DEF SetToSeqs
<1> QED BY <1>3, <1>7 DEF keys, Present
=============================================================================
