-------------------------- MODULE TreeStoreProofs --------------------------
(***************************************************************************)
(* The safety of TreeStore for every set of keys and values.  A node with    *)
(* two children is deleted only when the loop of minValue ends, so the       *)
(* search order survives every step the program completes.  With it every    *)
(* key has one place, where the calls look for it: the tree is a dictionary. *)
(*                                                                           *)
(* The second half is about the memory of that tree (module Blocks): each    *)
(* place has a node and an entry that are live and that no other place has,  *)
(* and every call keeps it so.                                               *)
(***************************************************************************)
EXTENDS TreeStore, Blocks, TreeTheorems

\* The tree is finite in depth, so that descents end, and ordered.
IInv == /\ TypeOK
        /\ WellFormed(tree)
        /\ Ordered(tree)

LEMMA InitInvariant == Init => IInv
<1> SUFFICES ASSUME Init PROVE IInv
    OBVIOUS
<1>1. tree = EmptyTree
    BY DEF Init
<1>2. WellFormed(tree) /\ Ordered(tree)
    BY <1>1, EmptyTreeWellFormed, EmptyTreeOrdered
<1>3. result[1][1] = "none" /\ spinning = FALSE
    BY DEF Init
<1>4. Valued(tree)
    BY <1>1 DEF Valued, EmptyTree
<1> QED BY <1>2, <1>3, <1>4 DEF IInv, TypeOK, WellFormed, Typed, Valued

LEMMA NextInvariant == IInv /\ [Next]_vars => IInv'
<1> SUFFICES ASSUME IInv, [Next]_vars PROVE IInv'
    OBVIOUS
<1>1. WellFormed(tree) /\ Typed(tree) /\ Valued(tree) /\ Ordered(tree) /\ TypeOK
    BY DEF IInv, WellFormed, TypeOK, Valued
<1>2. ASSUME UNCHANGED tree, UNCHANGED spinning \/ spinning' = TRUE,
             result'[1][1] \in {"none", "put", "get", "del", "size", "height", "getkeys"}
      PROVE  IInv'
    BY <1>1, <1>2 DEF IInv, TypeOK, WellFormed, Typed
<1>3. ASSUME NEW key \in Key, NEW value \in Value, Put(key, value) PROVE IInv'
    <2>1. WellFormed(tree') /\ Valued(tree')
        BY <1>1, <1>3, PutWellFormed, PutValued DEF Put
    <2>2. Ordered(tree')
        BY <1>1, <1>3, PutOrdered DEF Put
    <2>3. result'[1][1] = "put" /\ spinning' = spinning
        BY <1>3 DEF Put, Returns
    <2> QED BY <1>1, <2>1, <2>2, <2>3 DEF IInv, TypeOK, WellFormed, Typed, Valued
<1>4. ASSUME NEW key \in Key, Get(key) PROVE IInv'
    BY <1>2, <1>4 DEF Get, Returns
<1>5. ASSUME NEW key \in Key, Del(key) PROVE IInv'
    <2>1. WellFormed(tree') /\ Valued(tree')
        BY <1>1, <1>5, DelWellFormed, DelValued DEF Del
    <2>2. Ordered(tree')
        BY <1>1, <1>5, DelOrdered DEF Del
    <2>3. result'[1][1] = "del" /\ spinning' = spinning
        BY <1>5 DEF Del, Returns
    <2> QED BY <1>1, <2>1, <2>2, <2>3 DEF IInv, TypeOK, WellFormed, Typed, Valued
<1>6. ASSUME NEW key \in Key, DelHangs(key) PROVE IInv'
    BY <1>1, <1>2, <1>6 DEF DelHangs, TypeOK
<1>7. CASE Size
    BY <1>2, <1>7 DEF Size, Returns
<1>8. CASE Height
    BY <1>2, <1>8 DEF Height, Returns
<1>9. CASE GetKeys
    BY <1>2, <1>9 DEF GetKeys, Returns
<1>10. CASE Spin \/ UNCHANGED vars
    BY <1>1, <1>2, <1>10 DEF Spin, vars, TypeOK
<1> QED BY <1>3, <1>4, <1>5, <1>6, <1>7, <1>8, <1>9, <1>10 DEF Next

LEMMA Invariant == Spec => []IInv
BY InitInvariant, NextInvariant, PTL DEF Spec

\* Whatever the calls, the tree keeps its type: every node is a path with an
\* entry of a key and a value (tree_put, tree_del).
THEOREM TypeCorrect == Spec => []TypeOK
<1>1. IInv => TypeOK
    BY DEF IInv
<1> QED BY <1>1, Invariant, PTL

\* Whatever the calls, every key lies where the descent for it looks
\* (tree_put and tree_del against tree_get).
THEOREM KeysStayReachable == Spec => []KeysReachable
<1>1. IInv => KeysReachable
    BY OrderedIsSearchOrder DEF IInv, WellFormed, KeysReachable
<1> QED BY <1>1, Invariant, PTL
-----------------------------------------------------------------------------
(* The calls against the dictionary of KVStore *)

LEMMA SameCardinality ==
    ASSUME NEW S
    PROVE  Dictionary!Cardinality(S) = Cardinality(S)
BY DEF Dictionary!Cardinality, Cardinality

LEMMA InitImplements == Init => Dictionary!Init
BY EmptyContents DEF Init, Dictionary!Init

LEMMA PutImplements ==
    ASSUME IInv, NEW key \in Key, NEW value \in Value, Put(key, value)
    PROVE  Dictionary!Put(key, value)
<1>1. tree' = TreePut(tree, key, value) /\ result' = << <<"put", key, value>>, 0>>
    BY DEF Put, Returns
<1>2. Contents(TreePut(tree, key, value)) =
            [k \in DOMAIN Contents(tree) \cup {key} |-> IF k = key THEN value ELSE Contents(tree)[k]]
    BY PutUpdates DEF IInv
<1>3. Contents(tree)' = [k \in DOMAIN Contents(tree) \cup {key} |->
                            IF k = key THEN value ELSE Contents(tree)[k]]
    BY <1>1, <1>2
<1> QED BY <1>1, <1>3 DEF Dictionary!Put, Dictionary!Present

LEMMA GetImplements ==
    ASSUME IInv, NEW key \in Key, Get(key)
    PROVE  Dictionary!Get(key)
<1>1. tree' = tree /\ result' = << <<"get", key>>, TreeGet(tree, key)>>
    BY DEF Get, Returns
<1>2. TreeGet(tree, key) = IF key \in DOMAIN Contents(tree) THEN Contents(tree)[key] ELSE NoValue
    BY GetFromContents DEF IInv, TypeOK, Valued
<1>3. Contents(tree)' = Contents(tree)
    BY <1>1
<1> QED BY <1>1, <1>2, <1>3 DEF Dictionary!Get, Dictionary!Present

LEMMA DelImplements ==
    ASSUME IInv, NEW key \in Key, Del(key)
    PROVE  Dictionary!DelPresent(key) \/ Dictionary!DelMissing(key)
<1>1. /\ tree' = TreeDel(tree, key) /\ ~DelSpins(tree, key)
      /\ result' = << <<"del", key>>, DelResult(key)>>
    BY DEF Del, Returns
<1>2. /\ TreeSize(TreeDel(tree, key)) = TreeSize(tree) <=> key \notin DOMAIN Contents(tree)
      /\ TreeGet(tree, key) = NoValue <=> key \notin DOMAIN Contents(tree)
      /\ Contents(TreeDel(tree, key)) = Without(Contents(tree), key)
    BY <1>1, SizeAfterDel, GetFromContents, DelRemoves DEF IInv, TypeOK, Valued
<1>3. DelResult(key) = IF key \in DOMAIN Contents(tree) THEN 0 ELSE -1
    BY <1>2 DEF DelResult
<1>4. Contents(tree)' = [k \in DOMAIN Contents(tree) \ {key} |-> Contents(tree)[k]]
    BY <1>1, <1>2 DEF Without
<1>5. CASE key \in DOMAIN Contents(tree)
    BY <1>1, <1>3, <1>4, <1>5 DEF Dictionary!DelPresent, Dictionary!Present
<1>6. CASE key \notin DOMAIN Contents(tree)
    <2>1. Contents(tree) = [k \in DOMAIN Contents(tree) |-> Contents(tree)[k]]
        BY DEF Contents
    <2>2. DOMAIN Contents(tree) \ {key} = DOMAIN Contents(tree)
        BY <1>6
    <2>3. Contents(tree)' = Contents(tree)
        BY <1>4, <2>1, <2>2
    <2> QED BY <1>1, <1>3, <1>6, <2>3 DEF Dictionary!DelMissing, Dictionary!Present
<1> QED BY <1>5, <1>6

LEMMA SizeImplements == IInv /\ Size => Dictionary!Size
<1> SUFFICES ASSUME IInv, Size PROVE Dictionary!Size
    OBVIOUS
<1>1. tree' = tree /\ result' = << <<"size">>, TreeSize(tree)>>
    BY DEF Size, Returns
<1>2. Dictionary!Cardinality(DOMAIN Contents(tree)) = TreeSize(tree)
    BY SameCardinality, SizeCountsKeys DEF IInv
<1>3. Contents(tree)' = Contents(tree)
    BY <1>1
<1> QED BY <1>1, <1>2, <1>3 DEF Dictionary!Size, Dictionary!Present

LEMMA HeightImplements == IInv /\ Height => Dictionary!Height
<1> SUFFICES ASSUME IInv, Height PROVE Dictionary!Height
    OBVIOUS
<1>1. tree' = tree /\ result' = << <<"height">>, TreeHeight(tree)>>
    BY DEF Height, Returns
<1>2. Dictionary!Cardinality(Dictionary!Present) = TreeSize(tree)
    BY SameCardinality, SizeCountsKeys DEF IInv, Dictionary!Present
<1>3. /\ TreeHeight(tree) \in 1..Max({1, TreeSize(tree)})
      /\ TreeSize(tree) < 2^TreeHeight(tree)
    BY HeightFitsSize DEF IInv
<1>4. TreeHeight(tree) \in 1..Dictionary!Max({1, Dictionary!Cardinality(Dictionary!Present)})
    BY <1>2, <1>3 DEF Dictionary!Max, Max
<1>5. Dictionary!Cardinality(Dictionary!Present) < 2^TreeHeight(tree)
    BY <1>2, <1>3
<1>6. Contents(tree)' = Contents(tree)
    BY <1>1
<1> QED BY <1>1, <1>4, <1>5, <1>6 DEF Dictionary!Height

LEMMA GetKeysImplements == IInv /\ GetKeys => Dictionary!GetKeys
<1> SUFFICES ASSUME IInv, GetKeys PROVE Dictionary!GetKeys
    OBVIOUS
<1>1. tree' = tree /\ result' = << <<"getkeys">>, TreeKeys(tree)>>
    BY DEF GetKeys, Returns
<1>2. TreeKeys(tree) \in SetToSeqs(DOMAIN Contents(tree))
    BY KeysOfTree DEF IInv
<1>3. TreeKeys(tree) \in Dictionary!SetToSeqs(Dictionary!Present)
    BY <1>2, SameCardinality DEF Dictionary!SetToSeqs, SetToSeqs, Dictionary!Present
<1>4. Contents(tree)' = Contents(tree)
    BY <1>1
<1> QED BY <1>1, <1>3, <1>4 DEF Dictionary!GetKeys

LEMMA NextImplements == IInv /\ [Next]_vars => [Dictionary!Next]_Dictionary!vars
<1> SUFFICES ASSUME IInv, [Next]_vars PROVE [Dictionary!Next]_Dictionary!vars
    OBVIOUS
<1>1. ASSUME NEW key \in Key, NEW value \in Value, Put(key, value) PROVE Dictionary!Next
    BY <1>1, PutImplements DEF Dictionary!Next
<1>2. ASSUME NEW key \in Key, Get(key) PROVE Dictionary!Next
    BY <1>2, GetImplements DEF Dictionary!Next
<1>3. ASSUME NEW key \in Key, Del(key) PROVE Dictionary!Next
    BY <1>3, DelImplements DEF Dictionary!Next
<1>4. CASE Size
    BY <1>4, SizeImplements DEF Dictionary!Next
<1>5. CASE Height
    BY <1>5, HeightImplements DEF Dictionary!Next
<1>6. CASE GetKeys
    BY <1>6, GetKeysImplements DEF Dictionary!Next
<1>7. ASSUME UNCHANGED <<tree, result>> PROVE UNCHANGED Dictionary!vars
    BY <1>7 DEF Dictionary!vars
<1>8. (\E key \in Key : DelHangs(key)) \/ Spin \/ UNCHANGED vars => UNCHANGED <<tree, result>>
    BY DEF DelHangs, Spin, vars
<1> QED BY <1>1, <1>2, <1>3, <1>4, <1>5, <1>6, <1>7, <1>8 DEF Next

\* The tree behind the calls of tree.h is a dictionary: every call returns and
\* changes what a dictionary's does, or never returns (include/tree.h).
THEOREM IsADictionary == Spec => ImplementsDictionary
BY InitImplements, NextImplements, Invariant, PTL
   DEF Spec, ImplementsDictionary, Dictionary!Spec

-----------------------------------------------------------------------------
(* The memory: what a tree leads to is its own *)

BlocksIn(t) == NodesOf(t) \cup EntriesOf(t)

\* Every place has a node and an entry that no other place has.
Owning(t) ==
    /\ \A path \in DOMAIN t :
         /\ t[path].value = Holds(t[path].value.node, t[path].value.entry)
         /\ t[path].value.entry # Top
         /\ t[path].value.node = Top <=> path = << >>
    /\ \A one, two \in DOMAIN t :
         /\ t[one].value.node = t[two].value.node => one = two
         /\ t[one].value.entry = t[two].value.entry => one = two
         /\ t[one].value.node # t[two].value.entry

\* Every node hangs on one of the tree.
Hanging(t) == DOMAIN t \subseteq {<< >>} \cup Links(t)

Held(path) == blocks[path].value.node \in heap /\ blocks[path].value.entry \in heap
Gone(path) == blocks[path].value.node \notin heap /\ blocks[path].value.entry \notin heap

\* The nodes whose calls of tree_destroy have begun and not returned.
Calling(path) == IsPrefix(path, freeing)

\* A call has freed the subtrees of the links it has followed, and only those; before
\* it began its whole subtree was live, and after it has returned none of it is.
ChildIs(path, side) ==
    LET child == Append(path, side) IN
    /\ ~ Calling(path) => (Gone(path) => Gone(child)) /\ (Held(path) => Held(child))
    /\ path = freeing => IF stage = "left" \/ (stage = "right" /\ side = "right")
                         THEN Held(child) ELSE Gone(child)
    /\ Calling(path) /\ path # freeing =>
          /\ side = "left" /\ Calling(Append(path, "right")) => Gone(child)
          /\ side = "right" /\ Calling(Append(path, "left")) => Held(child)

\* Where tree_destroy is, and what it has freed.
Walk ==
    /\ IF DOMAIN blocks = {} THEN freeing = << >> /\ stage \in {"left", "node"} /\ Top \in heap
       ELSE freeing \in DOMAIN blocks
    /\ \A path \in DOMAIN blocks :
         IF Calling(path)
         THEN /\ blocks[path].value.node \in heap
              /\ blocks[path].value.entry \in heap <=> ~ (path = freeing /\ stage = "node")
         ELSE Held(path) \/ Gone(path)
    /\ \A path \in DOMAIN blocks, side \in Side :
         Append(path, side) \in DOMAIN blocks => ChildIs(path, side)

Walking == {"left", "right", "entry", "node"}

\* What every call keeps: blocks below next, those of the tree among the live.
HeapInv ==
    /\ WellFormed(blocks) /\ Owning(blocks) /\ Hanging(blocks)
    /\ heap \subseteq 0 .. next - 1 /\ BlocksIn(blocks) \subseteq 0 .. next - 1
    /\ next \in 1 .. MaxBlocks + 1
    /\ misfreed = FALSE
    /\ stage \in {"serving", "done"} \cup Walking /\ freeing \in Path
    /\ stage = "serving" => BlocksIn(blocks) \subseteq heap
    /\ stage \in Walking => Walk
    /\ stage = "done" => BlocksIn(blocks) \cap heap = {}

-----------------------------------------------------------------------------
(* The links of a tree *)

LEMMA TurnsDiffer ==
    ASSUME NEW one \in Path, NEW two \in Path, NEW side \in Side, NEW turn \in Side
    PROVE  Append(one, side) = Append(two, turn) <=> one = two /\ side = turn
BY AppendInjective DEF Path

LEMMA TurnsFrom ==
    ASSUME NEW path \in Path, NEW other \in Path, NEW side \in Side
    PROVE  \A way \in Side :
             /\ Append(path, way) \in Path
             /\ Append(path, way) = Append(other, side) <=> path = other /\ way = side
<1> TAKE way \in Side
<1>1. Append(path, way) \in Path
    BY TurnsAreConcats
<1>2. Append(path, way) = Append(other, side) <=> path = other /\ way = side
    BY TurnsDiffer
<1> QED BY <1>1, <1>2

LEMMA LastTurn ==
    ASSUME NEW path \in Path, NEW side \in Side
    PROVE  /\ Append(path, side) \in Path /\ Append(path, side) # << >>
           /\ Last(Append(path, side)) = side /\ Front(Append(path, side)) = path
<1> DEFINE longer == Append(path, side)
<1>1. /\ longer \in Path /\ longer # << >> /\ Len(longer) = Len(path) + 1
      /\ longer[Len(path) + 1] = side /\ Len(path) \in Nat
    BY AppendProperties, LenProperties DEF Path
<1>2. SubSeq(longer, 1, Len(path)) = SubSeq(path, 1, Len(path))
    BY <1>1, BeginningOfAppend
<1>3. SubSeq(path, 1, Len(path)) = path
    BY SubSeqFull DEF Path
<1> HIDE DEF longer
<1>4. Len(longer) - 1 = Len(path)
    BY <1>1
<1>5. Last(longer) = side /\ Front(longer) = path
    BY <1>1, <1>2, <1>3, <1>4, Zenon DEF Last, Front
<1> QED BY <1>1, <1>5 DEF longer

LEMMA BeginsItself ==
    ASSUME NEW path \in Path
    PROVE  /\ IsPrefix(path, path) /\ IsPrefix(<< >>, path)
           /\ \A other \in Path : IsPrefix(other, << >>) => other = << >>
<1>1. Len(path) \in Nat /\ Len(<< >>) = 0
    BY LenProperties, EmptySeq DEF Path
<1>2. IsPrefix(path, path)
    BY <1>1 DEF IsPrefix
<1>3. IsPrefix(<< >>, path)
    BY <1>1, SubSeqEmpty DEF IsPrefix
<1>4. ASSUME NEW other \in Path, IsPrefix(other, << >>) PROVE other = << >>
    <2>1. Len(other) \in Nat /\ Len(other) <= 0
        BY <1>1, <1>4, LenProperties DEF Path, IsPrefix
    <2> QED BY <2>1, EmptySeq DEF Path
<1> QED BY <1>2, <1>3, <1>4

\* A path begins the next one down when it begins this one, or is the next itself.
LEMMA BeginningsOfNext ==
    ASSUME NEW other \in Path, NEW path \in Path, NEW side \in Side
    PROVE  /\ IsPrefix(other, Append(path, side)) <=> IsPrefix(other, path) \/ other = Append(path, side)
           /\ ~ IsPrefix(Append(path, side), path)
           /\ Append(path, side) # path
<1> DEFINE longer == Append(path, side)
<1>1. /\ longer \in Path /\ Len(longer) = Len(path) + 1 /\ Len(path) \in Nat /\ Len(other) \in Nat
    BY AppendProperties, LenProperties DEF Path
<1>2. ~ IsPrefix(longer, path) /\ longer # path
    <2> HIDE DEF longer
    <2> QED BY <1>1 DEF IsPrefix
<1>3. CASE Len(other) <= Len(path)
    <2>1. SubSeq(longer, 1, Len(other)) = SubSeq(path, 1, Len(other))
        BY <1>1, <1>3, BeginningOfAppend
    <2> HIDE DEF longer
    <2>2. Len(other) <= Len(longer) /\ other # longer
        BY <1>1, <1>3
    <2>3. IsPrefix(other, longer) <=> IsPrefix(other, path)
        BY <1>3, <2>1, <2>2, Zenon DEF IsPrefix
    <2> QED BY <1>2, <2>2, <2>3 DEF longer
<1>4. CASE ~ Len(other) <= Len(path)
    <2>1. SubSeq(other, 1, Len(other)) = other /\ SubSeq(longer, 1, Len(longer)) = longer
        BY <1>1, SubSeqFull DEF Path
    <2> HIDE DEF longer
    <2>2. ~ IsPrefix(other, path)
        BY <1>4 DEF IsPrefix
    <2>3. ASSUME IsPrefix(other, longer) PROVE other = longer
        <3>1. Len(other) = Len(longer)
            BY <1>1, <1>4, <2>3 DEF IsPrefix
        <3> QED BY <2>1, <2>3, <3>1, Zenon DEF IsPrefix
    <2>4. IsPrefix(longer, longer)
        BY <1>1 DEF IsPrefix
    <2> QED BY <1>2, <2>2, <2>3, <2>4 DEF longer
<1> QED BY <1>3, <1>4

LEMMA FrontAndTurn ==
    ASSUME NEW path \in Path, path # << >>
    PROVE  \E front \in Path, turn \in Side : path = Append(front, turn)
BY SequenceEmptyOrAppend DEF Path

LEMMA AppendToConcat ==
    ASSUME NEW path \in Path, NEW rest \in Path, NEW side \in Side
    PROVE  path \o Append(rest, side) = Append(path \o rest, side)
<1>1. Append(rest, side) = rest \o <<side>> /\ <<side>> \in Path
    BY TurnsAreConcats
<1>2. path \o rest \in Path
    BY SuffixOfConcat
<1>3. Append(path \o rest, side) = (path \o rest) \o <<side>>
    BY <1>2, TurnsAreConcats
<1> QED BY <1>1, <1>3, ConcatAssociative DEF Path

LEMMA LinkIs ==
    ASSUME NEW t, NEW node
    PROVE  node \in Links(t) <=> \E above \in DOMAIN t, turn \in Side : node = Append(above, turn)
BY SMT DEF Links

LEMMA HangsOn ==
    ASSUME NEW t, Hanging(t), NEW node \in DOMAIN t, node # << >>
    PROVE  \E above \in DOMAIN t, turn \in Side : node = Append(above, turn)
<1>1. node \in Links(t)
    BY DEF Hanging
<1> QED BY <1>1, LinkIs

\* Which nodes hang on one is a matter of the places alone.
LEMMA SamePlacesHang ==
    ASSUME NEW t, NEW u, DOMAIN u = DOMAIN t, Hanging(t)
    PROVE  Hanging(u)
BY DEF Hanging, Links

LEMMA PutHangs ==
    ASSUME NEW t, WellFormed(t), Hanging(t), NEW key \in Key, NEW value
    PROVE  Hanging(TreePut(t, key, value))
<1>1. Slot(t, key) \in {<< >>} \cup Links(t)
    BY DescentEnds
<1>2. DOMAIN TreePut(t, key, value) = DOMAIN t \cup {Slot(t, key)}
    BY DEF TreePut
<1> QED BY <1>1, <1>2 DEF Hanging, Links

LEMMA GraftHangs ==
    ASSUME NEW t, Typed(t), Hanging(t), NEW path \in DOMAIN t, NEW side \in Side
    PROVE  Hanging(Graft(t, path, side))
<1> DEFINE after == Graft(t, path, side)
           child == Append(path, side)
<1>1. path \in Path /\ child \in Path /\ DOMAIN t \subseteq Path
    BY AppendProperties DEF Typed, Path
<1>2. \A rest \in Path : child \o rest \in DOMAIN t => path \o rest \in DOMAIN after
    BY <1>1, GraftDomain
<1>3. \A node \in DOMAIN t : ~ IsPrefix(path, node) => node \in DOMAIN after
    BY <1>1, GraftDomain
<1>4. \A node \in DOMAIN after :
        /\ node \in Path
        /\ (IF IsPrefix(path, node) THEN child \o Suffix(node, Len(path)) ELSE node) \in DOMAIN t
    BY <1>1, GraftMoves
<1> HIDE DEF after
<1>5. ASSUME NEW above \in DOMAIN t, NEW turn \in Side, ~ IsPrefix(path, Append(above, turn))
      PROVE  Append(above, turn) \in Links(after)
    <2>1. ~ IsPrefix(path, above)
        BY <1>1, <1>5, BeginningsOfNext
    <2> QED BY <1>3, <2>1 DEF Links
<1>6. ASSUME NEW node \in DOMAIN after PROVE node \in {<< >>} \cup Links(after)
    <2>1. CASE ~ IsPrefix(path, node)
        <3>1. node \in DOMAIN t
            BY <1>4, <2>1
        <3>2. CASE node # << >>
            <4>1. PICK above \in DOMAIN t, turn \in Side : node = Append(above, turn)
                BY <3>1, <3>2, HangsOn
            <4> QED BY <1>5, <2>1, <4>1
        <3> QED BY <3>2
    <2>2. CASE IsPrefix(path, node)
        <3> DEFINE rest == Suffix(node, Len(path))
        <3>1. rest \in Path /\ path \o rest = node /\ child \o rest \in DOMAIN t
            BY <1>1, <1>4, <2>2, PrefixAndSuffix
        <3> HIDE DEF rest, child
        <3>2. CASE rest = << >>
            <4>1. node = path
                BY <1>1, <3>1, <3>2, ConcatEmptySeq DEF Path
            <4>2. path \in {<< >>} \cup Links(t)
                BY DEF Hanging
            <4>3. ASSUME NEW above \in DOMAIN t, NEW turn \in Side, path = Append(above, turn)
                  PROVE  path \in Links(after)
                <5>1. ~ IsPrefix(path, above)
                    BY <1>1, <4>3, BeginningsOfNext
                <5> QED BY <1>3, <4>3, <5>1 DEF Links
            <4> QED BY <4>1, <4>2, <4>3 DEF Links
        <3>3. CASE rest # << >>
            <4>1. PICK front \in Path, turn \in Side : rest = Append(front, turn)
                BY <3>1, <3>3, FrontAndTurn
            <4>2. /\ child \o rest = Append(child \o front, turn)
                  /\ path \o rest = Append(path \o front, turn)
                  /\ child \o front \in Path
                BY <1>1, <4>1, AppendToConcat, SuffixOfConcat
            <4>3. child \o rest # << >>
                BY <4>1, <4>2, LastTurn
            <4>4. PICK above \in DOMAIN t, last \in Side : child \o rest = Append(above, last)
                BY <3>1, <4>3, HangsOn
            <4>5. above = child \o front
                <5>1. Append(above, last) = Append(child \o front, turn) /\ above \in Path
                    BY <1>1, <4>2, <4>4
                <5> DEFINE low == child \o front
                <5>2. low \in Path /\ Append(above, last) = Append(low, turn)
                    BY <4>2, <5>1
                <5> HIDE DEF low
                <5>3. above = low
                    BY <5>1, <5>2, TurnsDiffer
                <5> QED BY <5>3 DEF low
            <4>6. path \o front \in DOMAIN after
                BY <1>2, <4>1, <4>4, <4>5
            <4> QED BY <3>1, <4>1, <4>2, <4>6, LinkIs
        <3> QED BY <3>2, <3>3
    <2> QED BY <2>1, <2>2
<1> QED BY <1>6 DEF Hanging, after

-----------------------------------------------------------------------------
(* The calls before tree_destroy *)

\* SetToSeq of a finite set goes through all of it.
LEMMA OrderIs ==
    ASSUME NEW S, IsFiniteSet(S)
    PROVE  /\ SetToSeq(S) \in [1 .. Cardinality(S) -> S]
           /\ \A x \in S : \E i \in 1 .. Cardinality(S) : SetToSeq(S)[i] = x
           /\ Cardinality(S) \in Nat
<1> DEFINE n == Cardinality(S)
           order == SetToSeq(S)
<1>1. n \in Nat /\ ExistsBijection(1 .. n, S)
    BY FS_CardinalityType
<1>2. \E f \in [1 .. n -> S] : IsInjective(f)
    BY <1>1 DEF ExistsBijection, Bijection, Injection, IsInjective
<1>3. order \in [1 .. n -> S] /\ IsInjective(order)
    BY <1>2 DEF SetToSeq
<1>4. order \in Injection(1 .. n, S)
    BY <1>3 DEF Injection, IsInjective
<1>5. IsFiniteSet(1 .. n) /\ Cardinality(1 .. n) = n
    BY <1>1, FS_Interval
<1>6. order \in Surjection(1 .. n, S)
    BY <1>4, <1>5, FS_Injection
<1> HIDE DEF order, n
<1>7. \A x \in S : \E i \in 1 .. n : order[i] = x
    BY <1>6 DEF Surjection
<1> QED BY <1>1, <1>3, <1>7 DEF order, n

\* The server starts with the structure of tree_skel_init and nothing else.
LEMMA InitHeap == BlocksInit => HeapInv
<1> SUFFICES ASSUME BlocksInit PROVE HeapInv
    OBVIOUS
<1>1. /\ blocks = EmptyTree /\ heap = {0} /\ next = 1 /\ misfreed = FALSE
      /\ stage = "serving" /\ freeing = << >>
    BY DEF BlocksInit, Top
<1>2. WellFormed(blocks)
    BY <1>1, EmptyTreeWellFormed
<1>3. DOMAIN blocks = {}
    BY <1>1 DEF EmptyTree
<1>4. Owning(blocks) /\ Hanging(blocks) /\ BlocksIn(blocks) = {0}
    BY <1>3 DEF Owning, Hanging, BlocksIn, NodesOf, EntriesOf, Top
<1>5. 1 \in 1 .. MaxBlocks + 1 /\ {0} \subseteq 0 .. 1 - 1
    BY MaxBlocksAssumption
<1>6. heap \subseteq 0 .. next - 1 /\ next \in 1 .. MaxBlocks + 1 /\ BlocksIn(blocks) \subseteq heap
    BY <1>1, <1>4, <1>5, Zenon
<1>7. /\ stage \in {"serving", "done"} \cup Walking /\ stage \notin Walking /\ stage # "done"
      /\ freeing \in Path /\ BlocksIn(blocks) \subseteq 0 .. next - 1
    BY <1>1, <1>6, EmptySeq DEF Walking, Path
<1> QED BY <1>1, <1>2, <1>4, <1>6, <1>7, Zenon DEF HeapInv

\* The blocks of an owning tree can be counted.
LEMMA CountBlocks ==
    ASSUME NEW t, WellFormed(t), Owning(t)
    PROVE  Cardinality(BlocksIn(t)) = Cardinality(DOMAIN t \cup {<< >>}) + Cardinality(DOMAIN t)
<1> DEFINE places == DOMAIN t \cup {<< >>}
           node == [path \in places |-> IF path = << >> THEN Top ELSE t[path].value.node]
           entry == [path \in DOMAIN t |-> t[path].value.entry]
<1>1. IsFiniteSet(DOMAIN t) /\ Cardinality(DOMAIN t) \in Nat
    BY TreeIsFinite
<1>2. IsFiniteSet(places) /\ Cardinality(places) \in Nat
    BY <1>1, FS_AddElement, FS_CardinalityType
<1>3. node \in [places -> NodesOf(t)]
    BY DEF NodesOf
<1>4. \A x \in NodesOf(t) : \E path \in places : node[path] = x
    <2>1. \A path \in DOMAIN t : node[path] = t[path].value.node
        BY DEF Owning
    <2>2. node[<< >>] = Top
        OBVIOUS
    <2> HIDE DEF node
    <2> QED BY <2>1, <2>2 DEF NodesOf
<1>5. \A one, two \in places : node[one] = node[two] => one = two
    BY DEF Owning
<1>6. entry \in [DOMAIN t -> EntriesOf(t)]
    BY DEF EntriesOf
<1>7. \A x \in EntriesOf(t) : \E path \in DOMAIN t : entry[path] = x
    BY DEF EntriesOf
<1>8. \A one, two \in DOMAIN t : entry[one] = entry[two] => one = two
    BY DEF Owning
<1>9. NodesOf(t) \cap EntriesOf(t) = {}
    BY DEF Owning, NodesOf, EntriesOf
<1> HIDE DEF node, entry, places
<1>10. node \in Bijection(places, NodesOf(t)) /\ entry \in Bijection(DOMAIN t, EntriesOf(t))
    BY <1>3, <1>4, <1>5, <1>6, <1>7, <1>8 DEF Bijection, Injection, Surjection, IsInjective
<1>11. /\ IsFiniteSet(NodesOf(t)) /\ Cardinality(NodesOf(t)) = Cardinality(places)
       /\ IsFiniteSet(EntriesOf(t)) /\ Cardinality(EntriesOf(t)) = Cardinality(DOMAIN t)
    BY <1>1, <1>2, <1>10, FS_Bijection DEF ExistsBijection
<1>12. Cardinality(BlocksIn(t)) = Cardinality(NodesOf(t)) + Cardinality(EntriesOf(t)) - 0
    BY <1>9, <1>11, FS_Union, FS_EmptySet DEF BlocksIn
<1> QED BY <1>1, <1>2, <1>11, <1>12 DEF places

\* Blocks that are numbered before first.
Before(t, first) == first \in Nat /\ \A block \in BlocksIn(t) : block \in Nat /\ block < first

\* A place's node and entry, and the top structure, are blocks of the tree.
LEMMA BlocksAre ==
    ASSUME NEW t, NEW path \in DOMAIN t
    PROVE  t[path].value.node \in BlocksIn(t) /\ t[path].value.entry \in BlocksIn(t) /\ Top \in BlocksIn(t)
BY DEF BlocksIn, NodesOf, EntriesOf

\* An entry with another value keeps its key.
LEMMA EntryWithValue ==
    ASSUME NEW e, NEW v, e = [key |-> e.key, value |-> e.value]
    PROVE  [e EXCEPT !.value = v] = [key |-> e.key, value |-> v]
<1>1. DOMAIN e = {"key", "value"}
    OBVIOUS
<1>2. DOMAIN [e EXCEPT !.value = v] = {"key", "value"}
    BY <1>1
<1>3. [e EXCEPT !.value = v].key = e.key /\ [e EXCEPT !.value = v].value = v
    BY <1>1
<1> QED BY <1>1, <1>2, <1>3

\* tree_dup gives each place below top two new blocks, and leaves the others theirs.
LEMMA CopiedIs ==
    ASSUME NEW t, WellFormed(t), Owning(t), NEW first, Before(t, first), NEW top \in Path, top # << >>
    PROVE  LET c == Copied(t, top, first)
           IN  /\ CopySize(t, top) \in Nat
               /\ WellFormed(c) /\ Owning(c) /\ DOMAIN c = DOMAIN t
               /\ \A path \in DOMAIN t :
                    /\ c[path].key = t[path].key
                    /\ ~ IsPrefix(top, path) => c[path] = t[path]
               /\ BlocksIn(c) \subseteq BlocksIn(t) \cup first .. first + CopySize(t, top) - 1
<1> DEFINE below == Below(t, top)
           order == SetToSeq(below)
           n == Cardinality(below)
           place(path) == CHOOSE i \in DOMAIN order : order[i] = path
           c == Copied(t, top, first)
<1>1. IsFiniteSet(below)
    BY TreeIsFinite, FS_Subset DEF Below
<1>2. n \in Nat /\ order \in [1 .. n -> below] /\ \A x \in below : \E i \in 1 .. n : order[i] = x
    BY <1>1, OrderIs
<1> HIDE DEF n, order
<1>3. \A path \in below : place(path) \in 1 .. n /\ order[place(path)] = path
    BY <1>2
<1> DEFINE node(path) == first + 2 * place(path) - 2
           entry(path) == first + 2 * place(path) - 1
<1>4. /\ DOMAIN c = DOMAIN t
      /\ c = [path \in DOMAIN c |-> c[path]]
      /\ \A path \in DOMAIN t :
            c[path] = IF ~ IsPrefix(top, path) THEN t[path]
                      ELSE [t[path] EXCEPT !.value = Holds(node(path), entry(path))]
    BY DEF Copied, below, order
<1>5. CopySize(t, top) = 2 * n
    BY DEF CopySize, n, below
<1> HIDE DEF c
<1>6. \A path \in DOMAIN t : path \in below <=> IsPrefix(top, path)
    BY DEF Below
<1>7. \A path \in DOMAIN t : t[path] = [key |-> t[path].key, value |-> t[path].value] /\ t[path].key \in Key
    BY DEF WellFormed, Typed, IsEntry
<1>8. \A path \in DOMAIN t :
        IF ~ IsPrefix(top, path) THEN c[path] = t[path]
        ELSE c[path] = [key |-> t[path].key, value |-> Holds(node(path), entry(path))]
    <2> SUFFICES ASSUME NEW path \in DOMAIN t
                 PROVE  IF ~ IsPrefix(top, path) THEN c[path] = t[path]
                        ELSE c[path] = [key |-> t[path].key, value |-> Holds(node(path), entry(path))]
        OBVIOUS
    <2> DEFINE held == Holds(node(path), entry(path))
    <2>1. CASE ~ IsPrefix(top, path)
        <3>1. c[path] = t[path]
            BY <1>4, <2>1, Zenon
        <3> QED BY <2>1, <3>1, Zenon
    <2>2. CASE IsPrefix(top, path)
        <3>1. c[path] = [t[path] EXCEPT !.value = held]
            BY <1>4, <2>2, Zenon
        <3> HIDE DEF held
        <3>2. [t[path] EXCEPT !.value = held] = [key |-> t[path].key, value |-> held]
            BY <1>7, EntryWithValue, Zenon
        <3>3. c[path] = [key |-> t[path].key, value |-> held]
            BY <3>1, <3>2, Zenon
        <3> QED BY <2>2, <3>3, Zenon DEF held
    <2> QED BY <2>1, <2>2, Zenon
<1> HIDE DEF below, place
<1>9. \A path \in below : /\ node(path) \in first .. first + 2 * n - 1
                          /\ entry(path) \in first .. first + 2 * n - 1
                          /\ node(path) \in Nat /\ entry(path) \in Nat
    BY <1>2, <1>3 DEF Before
<1>10. \A one, two \in below : /\ node(one) = node(two) => one = two
                               /\ entry(one) = entry(two) => one = two
                               /\ node(one) # entry(two)
    <2> SUFFICES ASSUME NEW one \in below, NEW two \in below
                 PROVE  /\ node(one) = node(two) => place(one) = place(two)
                        /\ entry(one) = entry(two) => place(one) = place(two)
                        /\ node(one) # entry(two)
        BY <1>3
    <2>1. place(one) \in Int /\ place(two) \in Int /\ first \in Int
        BY <1>2, <1>3 DEF Before
    <2> DEFINE i == place(one)
               j == place(two)
    <2>2. i \in Int /\ j \in Int
        BY <2>1
    <2> HIDE DEF i, j
    <2>3. /\ first + 2 * i - 2 = first + 2 * j - 2 => i = j
          /\ first + 2 * i - 1 = first + 2 * j - 1 => i = j
          /\ first + 2 * i - 2 # first + 2 * j - 1
        BY <2>1, <2>2
    <2> QED BY <2>3 DEF i, j
<1> HIDE DEF node, entry
<1>11. \A path \in DOMAIN t : /\ t[path].value.node \in Nat /\ t[path].value.node < first
                              /\ t[path].value.entry \in Nat /\ t[path].value.entry < first
                              /\ Top < first
    BY BlocksAre DEF Before
<1>12. \A path \in DOMAIN t : c[path].key = t[path].key /\ IsEntry(c[path])
    <2> SUFFICES ASSUME NEW path \in DOMAIN t
                 PROVE  c[path].key = t[path].key /\ IsEntry(c[path])
        OBVIOUS
    <2>1. CASE ~ IsPrefix(top, path)
        <3>1. c[path] = t[path]
            BY <1>8, <2>1, Zenon
        <3> QED BY <1>7, <3>1, Zenon DEF IsEntry
    <2>2. CASE IsPrefix(top, path)
        <3> DEFINE held == Holds(node(path), entry(path))
        <3>1. c[path] = [key |-> t[path].key, value |-> held]
            BY <1>8, <2>2, Zenon
        <3> HIDE DEF held
        <3>2. c[path].key = t[path].key /\ c[path].value = held
            BY <3>1
        <3> QED BY <1>7, <3>1, <3>2, Zenon DEF IsEntry
    <2> QED BY <2>1, <2>2
<1>13. WellFormed(c)
    BY <1>4, <1>12 DEF WellFormed, Typed, Shallow
<1>14. \A path \in DOMAIN t :
         /\ ~ IsPrefix(top, path) => c[path].value = t[path].value
         /\ IsPrefix(top, path) =>
              c[path].value = Holds(node(path), entry(path))
    <2> SUFFICES ASSUME NEW path \in DOMAIN t, IsPrefix(top, path)
                 PROVE  c[path].value = Holds(node(path), entry(path))
        BY <1>8, Zenon
    <2> DEFINE held == Holds(node(path), entry(path))
    <2>1. c[path] = [key |-> t[path].key, value |-> held]
        BY <1>8, Zenon
    <2> HIDE DEF held
    <2>2. c[path].value = held
        BY <2>1
    <2> QED BY <2>2 DEF held
<1>15. \A path \in DOMAIN t :
         IsPrefix(top, path) => c[path].value.node = node(path) /\ c[path].value.entry = entry(path)
    <2> SUFFICES ASSUME NEW path \in DOMAIN t, IsPrefix(top, path)
                 PROVE  c[path].value.node = node(path) /\ c[path].value.entry = entry(path)
        OBVIOUS
    <2>1. c[path].value = [node |-> node(path), entry |-> entry(path)]
        BY <1>14, Zenon DEF Holds
    <2> QED BY <2>1
<1>16. Owning(c)
    <2>1. ASSUME NEW path \in DOMAIN t
          PROVE  /\ c[path].value = Holds(c[path].value.node, c[path].value.entry)
                 /\ c[path].value.entry # Top
                 /\ c[path].value.node = Top <=> path = << >>
        <3>1. CASE ~ IsPrefix(top, path)
            BY <1>14, <3>1 DEF Owning
        <3>2. CASE IsPrefix(top, path)
            <4>1. path # << >>
                <5>1. path \in Path
                    BY DEF WellFormed, Typed
                <5>2. Len(path) = Len(top) + Len(Suffix(path, Len(top)))
                      /\ Len(Suffix(path, Len(top))) \in Nat /\ Len(top) \in Nat \ {0}
                    BY <5>1, <3>2, PrefixAndSuffix, LenProperties, EmptySeq DEF Path
                <5> QED BY <5>2, EmptySeq
            <4>2. node(path) # Top /\ entry(path) # Top
                <5>1. node(path) >= first /\ entry(path) >= first /\ node(path) \in Nat /\ entry(path) \in Nat
                    BY <1>2, <1>6, <1>9, <3>2
                <5> QED BY <1>11, <5>1 DEF Top, Before
            <4> QED BY <1>14, <1>15, <3>2, <4>1, <4>2
        <3> QED BY <3>1, <3>2
    <2>2. ASSUME NEW one \in DOMAIN t, NEW two \in DOMAIN t
          PROVE  /\ c[one].value.node = c[two].value.node => one = two
                 /\ c[one].value.entry = c[two].value.entry => one = two
                 /\ c[one].value.node # c[two].value.entry
        <3>1. \A path \in DOMAIN t : IsPrefix(top, path) =>
                /\ c[path].value.node \in Nat /\ c[path].value.node >= first
                /\ c[path].value.entry \in Nat /\ c[path].value.entry >= first
            BY <1>2, <1>6, <1>9, <1>15
        <3>2. \A path \in DOMAIN t : ~ IsPrefix(top, path) =>
                /\ c[path].value.node \in Nat /\ c[path].value.node < first
                /\ c[path].value.entry \in Nat /\ c[path].value.entry < first
            BY <1>11, <1>14
        <3>3. CASE IsPrefix(top, one) /\ IsPrefix(top, two)
            BY <1>6, <1>10, <1>15, <3>3
        <3>4. CASE ~ IsPrefix(top, one) /\ ~ IsPrefix(top, two)
            BY <1>14, <3>4 DEF Owning
        <3>5. CASE IsPrefix(top, one) /\ ~ IsPrefix(top, two)
            BY <3>1, <3>2, <3>5 DEF Before
        <3>6. CASE ~ IsPrefix(top, one) /\ IsPrefix(top, two)
            BY <3>1, <3>2, <3>6 DEF Before
        <3> QED BY <3>3, <3>4, <3>5, <3>6
    <2> QED BY <1>4, <2>1, <2>2 DEF Owning
<1>17. BlocksIn(c) \subseteq BlocksIn(t) \cup first .. first + CopySize(t, top) - 1
    <2>1. ASSUME NEW path \in DOMAIN t
          PROVE  /\ c[path].value.node \in BlocksIn(t) \cup first .. first + 2 * n - 1
                 /\ c[path].value.entry \in BlocksIn(t) \cup first .. first + 2 * n - 1
        <3>1. CASE ~ IsPrefix(top, path)
            BY <1>14, <3>1, BlocksAre
        <3>2. CASE IsPrefix(top, path)
            BY <1>6, <1>9, <1>15, <3>2
        <3> QED BY <3>1, <3>2
    <2>2. Top \in BlocksIn(t)
        BY DEF BlocksIn, NodesOf
    <2> QED BY <1>4, <1>5, <2>1, <2>2 DEF BlocksIn, NodesOf, EntriesOf
<1>18. CopySize(t, top) \in Nat
    BY <1>2, <1>5
<1> QED BY <1>4, <1>12, <1>13, <1>14, <1>8, <1>16, <1>17, <1>18 DEF c

\* Where a node of a grafted tree was before.
GraftSource(path, side, node) ==
    IF IsPrefix(path, node) THEN Append(path, side) \o Suffix(node, Len(path)) ELSE node

\* No node comes from the place that is grafted away, and no two from one.
LEMMA GraftSources ==
    ASSUME NEW path \in Path, NEW side \in Side
    PROVE  /\ \A node \in Path :
                /\ GraftSource(path, side, node) \in Path
                /\ GraftSource(path, side, node) # path
                /\ node # path => (node = << >> <=> GraftSource(path, side, node) = << >>)
           /\ \A one, two \in Path :
                GraftSource(path, side, one) = GraftSource(path, side, two) => one = two
<1> DEFINE child == Append(path, side)
           turn == <<side>>
           From(node) == GraftSource(path, side, node)
<1>1. /\ turn \in Path /\ child \in Path /\ child = path \o turn
      /\ Len(child) = Len(path) + 1 /\ Len(path) \in Nat
    BY TurnsAreConcats, LenProperties DEF Path
<1>2. << >> \in Path /\ Len(<< >>) = 0
    BY EmptySeq DEF Path
<1>3. \A node \in Path : IsPrefix(path, node) =>
        /\ Suffix(node, Len(path)) \in Path
        /\ path \o Suffix(node, Len(path)) = node
        /\ Len(Suffix(node, Len(path))) = Len(node) - Len(path)
    BY PrefixAndSuffix
<1>4. \A rest \in Path :
        /\ child \o rest \in Path
        /\ Len(child \o rest) = Len(child) + Len(rest)
        /\ Suffix(child \o rest, Len(child)) = rest
        /\ Len(rest) \in Nat
    BY <1>1, SuffixOfConcat, LenProperties DEF Path
<1>5. \A rest \in Path : IsPrefix(path, child \o rest)
    <2> SUFFICES ASSUME NEW rest \in Path
                 PROVE  IsPrefix(path, child \o rest)
        OBVIOUS
    <2>1. turn \o rest \in Path
        BY <1>1, SuffixOfConcat
    <2>2. child \o rest = path \o (turn \o rest)
        BY <1>1, Reassociate
    <2> HIDE DEF turn, child
    <2>3. IsPrefix(path, path \o (turn \o rest))
        BY <2>1, SuffixOfConcat
    <2> QED BY <2>2, <2>3, Zenon
<1>6. IsPrefix(path, path)
    <2>1. path \o << >> = path
        BY ConcatEmptySeq DEF Path
    <2> QED BY <1>2, <2>1, SuffixOfConcat
<1>7. \A node \in Path :
        /\ IsPrefix(path, node) => From(node) = child \o Suffix(node, Len(path))
        /\ ~ IsPrefix(path, node) => From(node) = node
    BY DEF GraftSource
<1> HIDE DEF turn, child, From
<1>10. \A node \in Path : IsPrefix(path, node) => IsPrefix(path, From(node))
    <2> SUFFICES ASSUME NEW node \in Path, IsPrefix(path, node)
                 PROVE  IsPrefix(path, From(node))
        OBVIOUS
    <2>1. Suffix(node, Len(path)) \in Path
        BY <1>3, Zenon
    <2>2. From(node) = child \o Suffix(node, Len(path))
        BY <1>7, Zenon
    <2> QED BY <1>5, <2>1, <2>2, Zenon
<1>8. ASSUME NEW node \in Path
      PROVE  /\ From(node) \in Path
             /\ From(node) # path
             /\ node # path => (node = << >> <=> From(node) = << >>)
    <2>1. CASE ~ IsPrefix(path, node)
        <3>1. From(node) = node
            BY <1>7, <2>1, Zenon
        <3> QED BY <1>6, <2>1, <3>1, Zenon
    <2>2. CASE IsPrefix(path, node)
        <3> DEFINE rest == Suffix(node, Len(path))
        <3>1. From(node) = child \o rest
            BY <1>7, <2>2, Zenon
        <3>2. rest \in Path /\ path \o rest = node /\ Len(rest) = Len(node) - Len(path)
            BY <1>3, <2>2, Zenon
        <3> HIDE DEF rest
        <3>3. From(node) \in Path /\ Len(From(node)) = Len(path) + 1 + Len(rest) /\ Len(rest) \in Nat
            BY <1>1, <1>4, <3>1, <3>2
        <3>4. Len(From(node)) # Len(path) /\ Len(From(node)) # 0
            BY <1>1, <3>3
        <3>5. From(node) # path /\ From(node) # << >>
            BY <1>2, <3>4, Zenon
        <3>6. ASSUME node = << >>
              PROVE  node = path
            <4>1. Len(path) = 0
                BY <1>1, <1>2, <3>2, <3>3, <3>6
            <4>2. path = << >>
                BY <4>1, EmptySeq DEF Path
            <4> QED BY <3>6, <4>2, Zenon
        <3> QED BY <3>3, <3>5, <3>6, Zenon
    <2> QED BY <2>1, <2>2
<1>9. ASSUME NEW one \in Path, NEW two \in Path, From(one) = From(two)
      PROVE  one = two
    <2>1. CASE IsPrefix(path, one) /\ IsPrefix(path, two)
        <3> DEFINE r1 == Suffix(one, Len(path))
                   r2 == Suffix(two, Len(path))
        <3>1. child \o r1 = child \o r2
            BY <1>7, <1>9, <2>1, Zenon
        <3>2. r1 \in Path /\ r2 \in Path /\ path \o r1 = one /\ path \o r2 = two
            BY <1>3, <2>1, Zenon
        <3> HIDE DEF r1, r2
        <3>3. r1 = r2
            BY <1>4, <3>1, <3>2, Zenon
        <3> QED BY <3>2, <3>3, Zenon
    <2>2. CASE ~ IsPrefix(path, one) /\ ~ IsPrefix(path, two)
        BY <1>7, <1>9, <2>2, Zenon
    <2>3. CASE IsPrefix(path, one) /\ ~ IsPrefix(path, two)
        BY <1>7, <1>9, <1>10, <2>3, Zenon
    <2>4. CASE ~ IsPrefix(path, one) /\ IsPrefix(path, two)
        BY <1>7, <1>9, <1>10, <2>4, Zenon
    <2> QED BY <2>1, <2>2, <2>3, <2>4
<1> QED BY <1>8, <1>9 DEF From

\* What tree_del_aux makes of a place with at most one child: the blocks that
\* are left are the tree's, but for the entry of the place, and the copies.
LEMMA MovedOwned ==
    ASSUME NEW t, WellFormed(t), Owning(t), NEW first, Before(t, first), NEW path \in DOMAIN t
    PROVE  LET m == Moved(t, path, first)
               size == CopySize(t, Child(t, path))
           IN  /\ size \in Nat
               /\ WellFormed(m) /\ Owning(m)
               /\ BlocksIn(m) \subseteq (BlocksIn(t) \cup first .. first + size - 1) \ {t[path].value.entry}
<1> DEFINE side == IF Append(path, "left") \in DOMAIN t THEN "left" ELSE "right"
           top == Child(t, path)
           size == CopySize(t, top)
           c == Copied(t, top, first)
           g == Unlink(c, path)
           m == Moved(t, path, first)
           From(node) == GraftSource(path, side, node)
<1>1. path \in Path /\ side \in Side /\ top = Append(path, side)
    BY DEF WellFormed, Typed, Side, Child
<1>2. top \in Path /\ top # << >> /\ Len(top) = Len(path) + 1 /\ Len(path) \in Nat
    <2>1. top \in Path /\ Len(top) = Len(path) + 1 /\ Len(path) \in Nat
        BY <1>1, TurnsAreConcats, LenProperties DEF Path
    <2>2. Len(top) # 0 /\ Len(<< >>) = 0
        BY <2>1, EmptySeq
    <2> HIDE DEF top
    <2> QED BY <2>1, <2>2
<1>3. /\ size \in Nat
      /\ WellFormed(c) /\ Owning(c) /\ DOMAIN c = DOMAIN t
      /\ \A node \in DOMAIN t : ~ IsPrefix(top, node) => c[node] = t[node]
      /\ BlocksIn(c) \subseteq BlocksIn(t) \cup first .. first + size - 1
    BY <1>2, CopiedIs
<1>4. ~ IsPrefix(top, path)
    <2> HIDE DEF top
    <2>1. ASSUME IsPrefix(top, path)
          PROVE  FALSE
        <3> DEFINE rest == Suffix(path, Len(top))
        <3>1. rest \in Path /\ Len(rest) = Len(path) - Len(top)
            BY <1>1, <1>2, <2>1, PrefixAndSuffix
        <3>2. Len(rest) \in Nat
            BY <3>1, LenProperties DEF Path
        <3> HIDE DEF rest
        <3> QED BY <1>2, <3>1, <3>2
    <2> QED BY <2>1
<1>5. c[path] = t[path]
    BY <1>3, <1>4, Zenon
<1>6. g = Graft(c, path, side) /\ WellFormed(g)
    BY <1>1, <1>3, UnlinkWellFormed DEF Unlink
<1>7. m = IF path \notin DOMAIN g THEN g ELSE [g EXCEPT ![path].value.node = t[path].value.node]
    BY DEF Moved
<1>8. \A node \in DOMAIN g : node \in Path /\ From(node) \in DOMAIN c /\ g[node] = c[From(node)]
    BY <1>1, <1>3, <1>6, GraftMoves DEF WellFormed, GraftSource
<1>9. /\ \A node \in Path :
           /\ From(node) \in Path
           /\ From(node) # path
           /\ node # path => (node = << >> <=> From(node) = << >>)
      /\ \A one, two \in Path : From(one) = From(two) => one = two
    BY <1>1, GraftSources
<1> HIDE DEF From, side, top, size, c, g, m
\* where the node and the entry of a place come from
<1> DEFINE NodeFrom(node) == IF node = path THEN path ELSE From(node)
           Made(node) == [key |-> g[node].key,
                          value |-> Holds(c[NodeFrom(node)].value.node, c[From(node)].value.entry)]
<1>10. /\ DOMAIN m = DOMAIN g
       /\ m = [node \in DOMAIN m |-> m[node]]
       /\ \A node \in DOMAIN g : m[node] = Made(node)
    <2>1. \A node \in DOMAIN g : g[node] = [key |-> g[node].key, value |-> g[node].value]
        BY <1>6 DEF WellFormed, Typed, IsEntry
    <2>2. \A node \in DOMAIN g :
            g[node].value = Holds(c[From(node)].value.node, c[From(node)].value.entry)
        BY <1>3, <1>8, Zenon DEF Owning
    <2>3. \A node \in DOMAIN g : node # path => g[node] = Made(node)
        BY <2>1, <2>2, Zenon
    <2>4. g = [node \in DOMAIN g |-> g[node]]
        BY <1>6 DEF WellFormed, Typed
    <2>5. CASE path \notin DOMAIN g
        BY <1>7, <2>3, <2>4, <2>5, Zenon
    <2>6. CASE path \in DOMAIN g
        <3> DEFINE mine == t[path].value.node
                   x == [g[path] EXCEPT !.value.node = mine]
        <3>1. m = [g EXCEPT ![path].value.node = mine]
            BY <1>7, <2>6, Zenon
        <3>2. DOMAIN m = DOMAIN g /\ m = [node \in DOMAIN m |-> m[node]]
            BY <3>1
        <3>3. \A node \in DOMAIN g : node # path => m[node] = g[node]
            BY <3>1
        <3>4. m[path] = Made(path)
            <4> DEFINE k == g[path].key
                       e == c[From(path)].value.entry
                       n == c[From(path)].value.node
            <4>1. g[path] = [key |-> k, value |-> Holds(n, e)]
                BY <2>1, <2>2, <2>6, Zenon
            <4>2. g[path] = [key |-> k, value |-> [node |-> n, entry |-> e]]
                BY <4>1, Zenon DEF Holds
            <4> HIDE DEF k, e, n
            <4>3. m[path] = [g[path] EXCEPT !.value.node = mine]
                BY <2>6, <3>1
            <4>4. m[path] = [g[path] EXCEPT !.value = [@ EXCEPT !.node = mine]]
                BY <2>6, <3>1
            <4>5. g[path].value = [node |-> n, entry |-> e]
                BY <4>2
            <4>6. [g[path].value EXCEPT !.node = mine] = [node |-> mine, entry |-> e]
                BY <4>5
            <4>7. m[path] = [g[path] EXCEPT !.value = [node |-> mine, entry |-> e]]
                BY <4>4, <4>6
            <4>8. m[path] = [key |-> k, value |-> [node |-> mine, entry |-> e]]
                BY <4>2, <4>7
            <4>9. mine = c[NodeFrom(path)].value.node
                BY <1>5
            <4> QED BY <4>8, <4>9 DEF k, e, Holds
        <3> QED BY <2>3, <3>2, <3>3, <3>4, Zenon
    <2> QED BY <2>5, <2>6
<1> HIDE DEF NodeFrom
<1>11. \A node \in DOMAIN m : NodeFrom(node) \in DOMAIN c /\ From(node) \in DOMAIN c /\ node \in Path
    BY <1>3, <1>8, <1>10 DEF NodeFrom
<1>12. \A node \in DOMAIN m :
         /\ m[node].key = g[node].key
         /\ m[node].value = Holds(c[NodeFrom(node)].value.node, c[From(node)].value.entry)
         /\ IsEntry(m[node])
    <2> SUFFICES ASSUME NEW node \in DOMAIN m
                 PROVE  /\ m[node].key = g[node].key
                        /\ m[node].value = Holds(c[NodeFrom(node)].value.node, c[From(node)].value.entry)
                        /\ IsEntry(m[node])
        OBVIOUS
    <2> DEFINE held == Holds(c[NodeFrom(node)].value.node, c[From(node)].value.entry)
    <2>1. m[node] = [key |-> g[node].key, value |-> held]
        BY <1>10, Zenon
    <2> HIDE DEF held
    <2>2. m[node].key = g[node].key /\ m[node].value = held
        BY <2>1
    <2>3. g[node].key \in Key
        BY <1>6, <1>10 DEF WellFormed, Typed, IsEntry
    <2>4. IsEntry(m[node])
        BY <2>1, <2>2, <2>3, Zenon DEF IsEntry
    <2> QED BY <2>2, <2>4 DEF held
<1>13. WellFormed(m)
    BY <1>6, <1>10, <1>12 DEF WellFormed, Typed, Shallow
<1>14. \A node \in DOMAIN m : /\ m[node].value.node = c[NodeFrom(node)].value.node
                              /\ m[node].value.entry = c[From(node)].value.entry
    <2> SUFFICES ASSUME NEW node \in DOMAIN m
                 PROVE  /\ m[node].value.node = c[NodeFrom(node)].value.node
                        /\ m[node].value.entry = c[From(node)].value.entry
        OBVIOUS
    <2>1. m[node].value = [node |-> c[NodeFrom(node)].value.node, entry |-> c[From(node)].value.entry]
        BY <1>12, Zenon DEF Holds
    <2> QED BY <2>1
<1>15. \A one, two \in DOMAIN m : NodeFrom(one) = NodeFrom(two) => one = two
    BY <1>9, <1>11 DEF NodeFrom
<1>16. \A one, two \in DOMAIN m : From(one) = From(two) => one = two
    BY <1>9, <1>11
<1>17. \A node \in DOMAIN m : NodeFrom(node) = << >> <=> node = << >>
    BY <1>9, <1>11 DEF NodeFrom
<1>18. Owning(m)
    <2>1. ASSUME NEW node \in DOMAIN m
          PROVE  /\ m[node].value = Holds(m[node].value.node, m[node].value.entry)
                 /\ m[node].value.entry # Top
                 /\ m[node].value.node = Top <=> node = << >>
        <3>1. m[node].value = Holds(m[node].value.node, m[node].value.entry)
            BY <1>12, <1>14
        <3>2. m[node].value.entry # Top
            BY <1>3, <1>11, <1>14 DEF Owning
        <3>3. c[NodeFrom(node)].value.node = Top <=> NodeFrom(node) = << >>
            BY <1>3, <1>11 DEF Owning
        <3> QED BY <1>14, <1>17, <3>1, <3>2, <3>3
    <2>2. ASSUME NEW one \in DOMAIN m, NEW two \in DOMAIN m
          PROVE  /\ m[one].value.node = m[two].value.node => one = two
                 /\ m[one].value.entry = m[two].value.entry => one = two
                 /\ m[one].value.node # m[two].value.entry
        BY <1>3, <1>11, <1>14, <1>15, <1>16 DEF Owning
    <2> QED BY <2>1, <2>2 DEF Owning
<1>19. BlocksIn(m) \subseteq BlocksIn(c) \ {c[path].value.entry}
    <2>1. path \in DOMAIN c
        BY <1>3
    <2>2. ASSUME NEW node \in DOMAIN m
          PROVE  /\ m[node].value.node \in BlocksIn(c) \ {c[path].value.entry}
                 /\ m[node].value.entry \in BlocksIn(c) \ {c[path].value.entry}
        <3>1. c[NodeFrom(node)].value.node \in BlocksIn(c) /\ c[From(node)].value.entry \in BlocksIn(c)
            BY <1>11, BlocksAre
        <3>2. c[NodeFrom(node)].value.node # c[path].value.entry
            BY <1>3, <1>11, <2>1 DEF Owning
        <3>3. From(node) # path
            BY <1>9, <1>11
        <3>4. c[From(node)].value.entry # c[path].value.entry
            BY <1>3, <1>11, <2>1, <3>3 DEF Owning
        <3> QED BY <1>14, <3>1, <3>2, <3>4
    <2>3. Top \in BlocksIn(c) \ {c[path].value.entry}
        BY <1>3, <2>1, BlocksAre DEF Owning
    <2> QED BY <2>2, <2>3 DEF BlocksIn, NodesOf, EntriesOf
<1>20. BlocksIn(m) \subseteq (BlocksIn(t) \cup first .. first + size - 1) \ {t[path].value.entry}
    BY <1>3, <1>5, <1>19
<1> QED BY <1>3, <1>13, <1>18, <1>20 DEF m, size, top

LEMMA MovedHangs ==
    ASSUME NEW t, WellFormed(t), Owning(t), Hanging(t), NEW first, Before(t, first),
           NEW path \in DOMAIN t
    PROVE  Hanging(Moved(t, path, first))
<1> DEFINE top == Child(t, path)
           c == Copied(t, top, first)
<1>1. top \in Path /\ top # << >>
    BY LastTurn DEF WellFormed, Typed, Side, Child
<1>2. WellFormed(c) /\ DOMAIN c = DOMAIN t
    BY <1>1, CopiedIs
<1> HIDE DEF c
<1>3. Typed(c) /\ Hanging(c) /\ path \in DOMAIN c
    BY <1>2, SamePlacesHang, Zenon DEF WellFormed
<1>4. Hanging(Unlink(c, path))
    BY <1>3, GraftHangs DEF Unlink, Side
<1>5. DOMAIN Moved(t, path, first) = DOMAIN Unlink(c, path)
    BY DEF Moved, c
<1> QED BY <1>4, <1>5, SamePlacesHang, Zenon

\* A place that gets a new entry, and a node that is its own, stays apart from
\* the others.
LEMMA PlaceOwned ==
    ASSUME NEW t, WellFormed(t), Owning(t), NEW key \in Key, NEW path \in Path, NEW node, NEW entry,
           node = Top <=> path = << >>,
           entry # Top, entry # node, entry \notin BlocksIn(t),
           \A other \in DOMAIN t : other # path => t[other].value.node # node,
           \A other \in DOMAIN t : t[other].value.entry # node,
           NEW m, DOMAIN m = DOMAIN t \cup {path}, m = [other \in DOMAIN m |-> m[other]],
           m[path] = [key |-> key, value |-> Holds(node, entry)],
           \A other \in DOMAIN m : other # path => m[other] = t[other]
    PROVE  Owning(m) /\ BlocksIn(m) \subseteq BlocksIn(t) \cup {node, entry}
<1>1. m[path].value = Holds(node, entry)
    <2> DEFINE held == Holds(node, entry)
    <2>1. m[path] = [key |-> key, value |-> held]
        OBVIOUS
    <2> HIDE DEF held
    <2>2. m[path].value = held
        BY <2>1
    <2> QED BY <2>2 DEF held
<1>2. m[path].value.node = node /\ m[path].value.entry = entry
    BY <1>1 DEF Holds
<1>3. \A other \in DOMAIN m : other # path =>
        /\ other \in DOMAIN t
        /\ m[other].value = t[other].value
        /\ t[other].value = Holds(t[other].value.node, t[other].value.entry)
        /\ t[other].value.entry # Top
        /\ t[other].value.node = Top <=> other = << >>
        /\ t[other].value.node # node
        /\ t[other].value.entry # node
        /\ t[other].value.node # entry
        /\ t[other].value.entry # entry
        /\ t[other].value.node \in BlocksIn(t)
        /\ t[other].value.entry \in BlocksIn(t)
    <2> SUFFICES ASSUME NEW other \in DOMAIN m, other # path
                 PROVE  /\ other \in DOMAIN t
                        /\ m[other].value = t[other].value
                        /\ t[other].value = Holds(t[other].value.node, t[other].value.entry)
                        /\ t[other].value.entry # Top
                        /\ t[other].value.node = Top <=> other = << >>
                        /\ t[other].value.node # node
                        /\ t[other].value.entry # node
                        /\ t[other].value.node # entry
                        /\ t[other].value.entry # entry
                        /\ t[other].value.node \in BlocksIn(t)
                        /\ t[other].value.entry \in BlocksIn(t)
        BY Zenon
    <2>1. other \in DOMAIN t /\ m[other] = t[other]
        OBVIOUS
    <2>2. t[other].value.node \in BlocksIn(t) /\ t[other].value.entry \in BlocksIn(t)
        BY <2>1, BlocksAre
    <2>3. t[other].value.node # entry /\ t[other].value.entry # entry
        BY <2>2, Zenon
    <2>4. /\ t[other].value = Holds(t[other].value.node, t[other].value.entry)
          /\ t[other].value.entry # Top
          /\ t[other].value.node = Top <=> other = << >>
        BY <2>1, Zenon DEF Owning
    <2>5. t[other].value.node # node /\ t[other].value.entry # node
        BY <2>1, Zenon
    <2> QED BY <2>1, <2>2, <2>3, <2>4, <2>5, Zenon
<1>4. Owning(m)
    <2>1. ASSUME NEW other \in DOMAIN m
          PROVE  /\ m[other].value = Holds(m[other].value.node, m[other].value.entry)
                 /\ m[other].value.entry # Top
                 /\ m[other].value.node = Top <=> other = << >>
        <3>1. CASE other = path
            BY <1>1, <1>2, <3>1, Zenon
        <3>2. CASE other # path
            BY <1>3, <3>2, Zenon
        <3> QED BY <3>1, <3>2
    <2>2. ASSUME NEW one \in DOMAIN m, NEW two \in DOMAIN m
          PROVE  /\ m[one].value.node = m[two].value.node => one = two
                 /\ m[one].value.entry = m[two].value.entry => one = two
                 /\ m[one].value.node # m[two].value.entry
        <3>1. CASE one = path /\ two = path
            BY <1>2, <3>1, Zenon
        <3>2. CASE one = path /\ two # path
            BY <1>2, <1>3, <3>2, Zenon
        <3>3. CASE one # path /\ two = path
            BY <1>2, <1>3, <3>3, Zenon
        <3>4. CASE one # path /\ two # path
            <4>1. /\ one \in DOMAIN t /\ m[one].value = t[one].value
                  /\ two \in DOMAIN t /\ m[two].value = t[two].value
                BY <1>3, <3>4, Zenon
            <4>2. /\ t[one].value.node = t[two].value.node => one = two
                  /\ t[one].value.entry = t[two].value.entry => one = two
                  /\ t[one].value.node # t[two].value.entry
                BY <4>1, Zenon DEF Owning
            <4> HIDE DEF Owning
            <4> QED BY <4>1, <4>2, SMT
        <3> QED BY <3>1, <3>2, <3>3, <3>4
    <2> QED BY <2>1, <2>2, Zenon DEF Owning
<1>5. ASSUME NEW other \in DOMAIN m
      PROVE  /\ m[other].value.node \in BlocksIn(t) \cup {node, entry}
             /\ m[other].value.entry \in BlocksIn(t) \cup {node, entry}
    <2>1. CASE other = path
        BY <1>2, <2>1
    <2>2. CASE other # path
        <3>1. /\ m[other].value = t[other].value
              /\ t[other].value.node \in BlocksIn(t) /\ t[other].value.entry \in BlocksIn(t)
            BY <1>3, <2>2, Zenon
        <3> QED BY <3>1
    <2> QED BY <2>1, <2>2
<1>6. Top \in BlocksIn(t)
    BY DEF BlocksIn, NodesOf
<1>7. BlocksIn(m) \subseteq BlocksIn(t) \cup {node, entry}
    BY <1>5, <1>6 DEF BlocksIn, NodesOf, EntriesOf
<1> QED BY <1>4, <1>7

\* tree_dup allocates a number of blocks.
LEMMA CopySizeIsNat ==
    ASSUME NEW t, WellFormed(t), NEW top
    PROVE  CopySize(t, top) \in Nat
<1>1. IsFiniteSet(Below(t, top))
    BY TreeIsFinite, FS_Subset DEF Below
<1>2. Cardinality(Below(t, top)) \in Nat
    BY <1>1, FS_CardinalityType
<1> QED BY <1>2 DEF CopySize

\* A place with two children: it gets a new entry, and the place of its
\* successor is taken out.
Refilled(t, path, min, entry) ==
    [t EXCEPT ![path] = [key |-> t[min].key, value |-> Holds(t[path].value.node, entry)]]

\* The new entry is no other place's, so the refilled tree owns its blocks.
LEMMA RefilledOwned ==
    ASSUME NEW t, WellFormed(t), Owning(t), NEW first, Before(t, first),
           NEW path \in DOMAIN t, NEW min \in DOMAIN t, min # path,
           NEW entry \in Nat, first <= entry
    PROVE  LET u == Refilled(t, path, min, entry)
           IN  /\ WellFormed(u) /\ Owning(u) /\ Before(u, entry + 1)
               /\ min \in DOMAIN u /\ u[min] = t[min]
               /\ BlocksIn(u) \subseteq BlocksIn(t) \cup {entry}
<1> DEFINE u == Refilled(t, path, min, entry)
           node == t[path].value.node
           key == t[min].key
           held == Holds(node, entry)
<1>1. path \in Path /\ key \in Key
    BY DEF WellFormed, Typed, IsEntry
<1>2. /\ DOMAIN u = DOMAIN t /\ u = [other \in DOMAIN u |-> u[other]]
      /\ u[path] = [key |-> key, value |-> held]
      /\ \A other \in DOMAIN t : other # path => u[other] = t[other]
    <2>1. u = [t EXCEPT ![path] = [key |-> key, value |-> held]]
        BY Zenon DEF Refilled
    <2> HIDE DEF held, u, key
    <2> QED BY <2>1
<1>3. \A block \in BlocksIn(t) : block \in Nat /\ block < first
    BY DEF Before
<1>4. first \in Nat
    BY DEF Before
<1>5. entry \notin BlocksIn(t)
    BY <1>3, <1>4
<1>6. node \in BlocksIn(t) /\ Top \in BlocksIn(t)
    BY BlocksAre
<1>7. entry # Top /\ entry # node
    BY <1>5, <1>6, Zenon
<1>8. /\ node = Top <=> path = << >>
      /\ \A other \in DOMAIN t : other # path => t[other].value.node # node
      /\ \A other \in DOMAIN t : t[other].value.entry # node
    BY Zenon DEF Owning
<1>9. DOMAIN u = DOMAIN t \cup {path}
    BY <1>2
<1>10. WellFormed(u)
    <2> HIDE DEF held, u, key
    <2>1. u[path].key = key
        BY <1>2
    <2>2. IsEntry(u[path])
        <3>1. u[path].value = held
            BY <1>2
        <3> QED BY <1>1, <1>2, <2>1, <3>1, Zenon DEF IsEntry
    <2>3. \A other \in DOMAIN t : IsEntry(t[other])
        BY DEF WellFormed, Typed
    <2>4. \A other \in DOMAIN u : IsEntry(u[other])
        BY <1>2, <2>2, <2>3, Zenon
    <2>5. DOMAIN u \subseteq Path /\ Shallow(u)
        BY <1>2 DEF WellFormed, Typed, Shallow
    <2> QED BY <1>2, <2>4, <2>5, Zenon DEF WellFormed, Typed
<1>11. u[path] = [key |-> key, value |-> Holds(node, entry)]
    BY <1>2, Zenon
<1>12. \A other \in DOMAIN u : other # path => u[other] = t[other]
    BY <1>2, Zenon
<1> HIDE DEF u, key, node, held
<1>13. u = [other \in DOMAIN u |-> u[other]]
    BY <1>2, Zenon
<1>14. Owning(u) /\ BlocksIn(u) \subseteq BlocksIn(t) \cup {node, entry}
    <2>1. node = Top <=> path = << >>
        BY <1>8, Zenon
    <2>2. entry # Top /\ entry # node
        BY <1>7, Zenon
    <2>3. \A other \in DOMAIN t : other # path => t[other].value.node # node
        BY <1>8, Zenon
    <2>4. \A other \in DOMAIN t : t[other].value.entry # node
        BY <1>8, Zenon
    <2>5. key \in Key /\ path \in Path
        BY <1>1, Zenon
    <2> QED BY <1>5, <1>9, <1>11, <1>12, <1>13, <2>1, <2>2, <2>3, <2>4, <2>5, PlaceOwned, Zenon
<1>15. BlocksIn(u) \subseteq BlocksIn(t) \cup {entry}
    BY <1>6, <1>14
<1>16. Before(u, entry + 1)
    BY <1>3, <1>4, <1>15 DEF Before
<1> QED BY <1>2, <1>10, <1>12, <1>14, <1>15, <1>16 DEF u

\* A call that frees blocks that are live, and leaves a tree whose blocks are.
LEMMA CallKeeps ==
    ASSUME HeapInv, stage = "serving", NEW n \in Nat, NEW freed, Manages(n, freed),
           freed \subseteq heap \cup Allocated(n),
           WellFormed(blocks'), Owning(blocks'), Hanging(blocks'),
           BlocksIn(blocks') \subseteq (heap \cup Allocated(n)) \ freed,
           UNCHANGED << stage, freeing >>
    PROVE  HeapInv'
<1>1. /\ heap \subseteq 0 .. next - 1 /\ next \in 1 .. MaxBlocks + 1 /\ misfreed = FALSE
      /\ MaxBlocks \in Nat
    BY MaxBlocksAssumption DEF HeapInv
<1>2. /\ next + n - 1 <= MaxBlocks /\ next' = next + n
      /\ heap' = (heap \cup Allocated(n)) \ freed
      /\ misfreed' = (misfreed \/ ~ freed \subseteq heap \cup Allocated(n))
    BY DEF Manages
<1>3. next' \in 1 .. MaxBlocks + 1
    BY <1>1, <1>2
<1>4. heap' \subseteq 0 .. next' - 1
    BY <1>1, <1>2 DEF Allocated
<1>5. misfreed' = FALSE
    BY <1>1, <1>2
<1>6. /\ BlocksIn(blocks') \subseteq heap'
      /\ stage' \in {"serving", "done"} \cup Walking /\ stage' \notin Walking /\ stage' # "done"
      /\ freeing' \in Path
    BY <1>2 DEF HeapInv, Walking
<1>7. BlocksIn(blocks') \subseteq 0 .. next' - 1
    BY <1>4, <1>6
<1> QED BY <1>3, <1>4, <1>5, <1>6, <1>7, Zenon DEF HeapInv

\* Until tree_destroy has run all blocks of the tree are live.
LEMMA LiveBlocks ==
    ASSUME HeapInv, stage = "serving"
    PROVE  /\ WellFormed(blocks) /\ Owning(blocks) /\ Hanging(blocks)
           /\ BlocksIn(blocks) \subseteq heap
           /\ next \in Nat /\ Before(blocks, next)
           /\ \A n \in Nat : Before(blocks, next + n)
<1>1. /\ WellFormed(blocks) /\ Owning(blocks) /\ Hanging(blocks) /\ BlocksIn(blocks) \subseteq heap
      /\ heap \subseteq 0 .. next - 1 /\ next \in 1 .. MaxBlocks + 1
    BY DEF HeapInv
<1>2. next \in Nat
    BY <1>1, MaxBlocksAssumption
<1>3. \A block \in BlocksIn(blocks) : block \in Nat /\ block < next
    <2> SUFFICES ASSUME NEW block \in BlocksIn(blocks)
                 PROVE  block \in Nat /\ block < next
        OBVIOUS
    <2>1. block \in 0 .. next - 1
        BY <1>1, Zenon
    <2> QED BY <1>2, <2>1
<1> QED BY <1>1, <1>2, <1>3 DEF Before

\* tree_put: the entry it destroys was never in the tree, its copy is new.
LEMMA PutKeepsHeap ==
    ASSUME HeapInv, NEW key \in Key, PutBlocks(key)
    PROVE  HeapInv'
<1> DEFINE slot == Slot(blocks, key)
<1>1. stage = "serving" /\ UNCHANGED << stage, freeing >>
    BY DEF PutBlocks
<1>2. /\ WellFormed(blocks) /\ Owning(blocks) /\ Hanging(blocks) /\ BlocksIn(blocks) \subseteq heap /\ next \in Nat
      /\ \A block \in BlocksIn(blocks) : block \in Nat /\ block < next
    BY <1>1, LiveBlocks DEF Before
<1>3. slot \in Path
    BY <1>2, DescentEnds
<1>4. Top \in BlocksIn(blocks) /\ Top = 0
    BY DEF BlocksIn, NodesOf, Top
<1>5. 0 < next
    BY <1>2, <1>4
<1>6. ASSUME NEW node, NEW entry,
             node = Top <=> slot = << >>,
             entry # Top, entry # node, entry \notin BlocksIn(blocks),
             \A other \in DOMAIN blocks : other # slot => blocks[other].value.node # node,
             \A other \in DOMAIN blocks : blocks[other].value.entry # node,
             NEW m, m = TreePut(blocks, key, Holds(node, entry))
      PROVE  WellFormed(m) /\ Owning(m) /\ BlocksIn(m) \subseteq BlocksIn(blocks) \cup {node, entry}
    <2> DEFINE held == Holds(node, entry)
    <2>1. WellFormed(m)
        BY <1>2, <1>6, PutWellFormed
    <2> HIDE DEF held
    <2>2. /\ DOMAIN m = DOMAIN blocks \cup {slot}
          /\ m = [other \in DOMAIN m |-> m[other]]
          /\ m[slot] = [key |-> key, value |-> held]
          /\ \A other \in DOMAIN m : other # slot => m[other] = blocks[other]
        <3>1. m = [path \in DOMAIN blocks \cup {slot} |->
                     IF path = slot THEN [key |-> key, value |-> held] ELSE blocks[path]]
            BY <1>6, Zenon DEF TreePut, held
        <3> HIDE DEF slot
        <3> QED BY <3>1
    <2>3. m[slot] = [key |-> key, value |-> Holds(node, entry)]
        BY <2>2 DEF held
    <2> HIDE DEF slot
    <2>4. WellFormed(blocks) /\ Owning(blocks)
        BY <1>2
    <2>5. /\ node = Top <=> slot = << >>
          /\ entry # Top /\ entry # node /\ entry \notin BlocksIn(blocks)
          /\ \A other \in DOMAIN blocks : other # slot => blocks[other].value.node # node
          /\ \A other \in DOMAIN blocks : blocks[other].value.entry # node
        BY <1>6, Zenon
    <2>6. /\ DOMAIN m = DOMAIN blocks \cup {slot}
          /\ m = [other \in DOMAIN m |-> m[other]]
          /\ \A other \in DOMAIN m : other # slot => m[other] = blocks[other]
        BY <2>2, Zenon
    <2>7. Owning(m) /\ BlocksIn(m) \subseteq BlocksIn(blocks) \cup {node, entry}
        BY <1>3, <2>3, <2>4, <2>5, <2>6, PlaceOwned
    <2> QED BY <2>1, <2>7
<1>7. \A block \in Nat : block >= next => block \notin BlocksIn(blocks) /\ block # Top
    BY <1>2, <1>4, <1>5
<1>8. CASE slot \in DOMAIN blocks \/ slot = << >>
    <2> DEFINE node == Node(slot)
    <2>1. blocks' = TreePut(blocks, key, Holds(node, next + 1)) /\ Manages(2, {next})
        BY <1>8 DEF PutBlocks
    <2>2. node \in BlocksIn(blocks)
        BY <1>4, <1>8, BlocksAre DEF Node
    <2>3. node = Top <=> slot = << >>
        BY <1>2, <1>8 DEF Owning, Node
    <2>4. slot \in DOMAIN blocks => blocks[slot].value.node = node
        BY <1>2 DEF Owning, Node
    <2>5. \A other \in DOMAIN blocks : other # slot => blocks[other].value.node # node
        <3>1. CASE slot \in DOMAIN blocks
            BY <1>2, <2>4, <3>1 DEF Owning
        <3>2. CASE slot = << >>
            BY <1>2, <2>3, <3>2 DEF Owning
        <3> QED BY <1>8, <3>1, <3>2
    <2>6. \A other \in DOMAIN blocks : blocks[other].value.entry # node
        <3>1. CASE slot \in DOMAIN blocks
            BY <1>2, <2>4, <3>1 DEF Owning
        <3>2. CASE slot = << >>
            BY <1>2, <2>3, <3>2 DEF Owning
        <3> QED BY <1>8, <3>1, <3>2
    <2>7. next + 1 \notin BlocksIn(blocks) /\ next + 1 # Top /\ next + 1 # node
        <3>1. next + 1 \notin BlocksIn(blocks) /\ next + 1 # Top
            BY <1>2, <1>7
        <3> QED BY <2>2, <3>1, Zenon
    <2> HIDE DEF slot, node
    <2>8. /\ WellFormed(blocks') /\ Owning(blocks')
          /\ BlocksIn(blocks') \subseteq BlocksIn(blocks) \cup {node, next + 1}
        BY <1>6, <2>1, <2>3, <2>5, <2>6, <2>7
    <2>9. Allocated(2) = {next, next + 1} /\ next \notin BlocksIn(blocks) /\ next + 1 # next
        BY <1>2, <1>7 DEF Allocated
    <2>10. BlocksIn(blocks') \subseteq (heap \cup Allocated(2)) \ {next}
        BY <1>2, <2>2, <2>8, <2>9
    <2>11. {next} \subseteq heap \cup Allocated(2)
        BY <2>9
    <2>12. Hanging(blocks')
        BY <1>2, <2>1, PutHangs
    <2> QED BY <1>1, <2>1, <2>8, <2>10, <2>11, <2>12, CallKeeps
<1>9. CASE ~ (slot \in DOMAIN blocks \/ slot = << >>)
    <2>1. blocks' = TreePut(blocks, key, Holds(next + 2, next + 1)) /\ Manages(3, {next})
        BY <1>9 DEF PutBlocks
    <2>2. /\ next + 1 \notin BlocksIn(blocks) /\ next + 1 # Top
          /\ next + 2 \notin BlocksIn(blocks) /\ next + 2 # Top
          /\ next + 1 # next + 2
        BY <1>2, <1>7
    <2>3. \A other \in DOMAIN blocks :
            blocks[other].value.node # next + 2 /\ blocks[other].value.entry # next + 2
        <3>1. \A other \in DOMAIN blocks :
                blocks[other].value.node \in BlocksIn(blocks) /\ blocks[other].value.entry \in BlocksIn(blocks)
            BY BlocksAre
        <3> QED BY <2>2, <3>1, Zenon
    <2>4. next + 2 = Top <=> slot = << >>
        BY <1>9, <2>2
    <2> HIDE DEF slot
    <2>5. /\ WellFormed(blocks') /\ Owning(blocks')
          /\ BlocksIn(blocks') \subseteq BlocksIn(blocks) \cup {next + 2, next + 1}
        BY <1>6, <2>1, <2>2, <2>3, <2>4
    <2>6. /\ Allocated(3) = {next, next + 1, next + 2} /\ next \notin BlocksIn(blocks)
          /\ next + 1 # next /\ next + 2 # next
        BY <1>2, <1>7 DEF Allocated
    <2>7. BlocksIn(blocks') \subseteq (heap \cup Allocated(3)) \ {next}
        BY <1>2, <2>5, <2>6
    <2>8. {next} \subseteq heap \cup Allocated(3)
        BY <2>6
    <2>9. Hanging(blocks')
        BY <1>2, <2>1, PutHangs
    <2> QED BY <1>1, <2>1, <2>5, <2>7, <2>8, <2>9, CallKeeps
<1> QED BY <1>8, <1>9

\* tree_del of a node with at most one child destroys its entry, and the copy
\* of the child, not the child, moves up.
LEMMA DelOneKeepsHeap ==
    ASSUME HeapInv, stage = "serving", UNCHANGED << stage, freeing >>, NEW path \in DOMAIN blocks,
           blocks' = Moved(blocks, path, next + 1),
           Manages(1 + CopySize(blocks, Child(blocks, path)), {Removed(blocks, path, next + 1)})
    PROVE  HeapInv'
<1> DEFINE size == CopySize(blocks, Child(blocks, path))
           gone == blocks[path].value.entry
           m == Moved(blocks, path, next + 1)
<1>1. /\ WellFormed(blocks) /\ Owning(blocks) /\ Hanging(blocks) /\ BlocksIn(blocks) \subseteq heap
      /\ next \in Nat /\ Before(blocks, next + 1)
    BY LiveBlocks
<1>2. /\ size \in Nat
      /\ WellFormed(m) /\ Owning(m)
      /\ BlocksIn(m) \subseteq (BlocksIn(blocks) \cup next + 1 .. next + 1 + size - 1) \ {gone}
    BY <1>1, MovedOwned
<1>3. blocks' = m /\ Manages(1 + size, {gone})
    BY Zenon DEF Removed
<1>4. gone \in heap
    BY <1>1, BlocksAre
<1>9. Hanging(m)
    <2>1. next + 1 \in Nat
        BY <1>1
    <2> QED BY <1>1, <2>1, MovedHangs
<1> HIDE DEF size, gone, m
<1>5. 1 + size \in Nat /\ next + 1 .. next + 1 + size - 1 \subseteq Allocated(1 + size)
    BY <1>1, <1>2 DEF Allocated
<1>6. BlocksIn(m) \subseteq (heap \cup Allocated(1 + size)) \ {gone}
    BY <1>1, <1>2, <1>5
<1>7. {gone} \subseteq heap \cup Allocated(1 + size)
    BY <1>4
<1>8. /\ WellFormed(blocks') /\ Owning(blocks') /\ Hanging(blocks')
      /\ BlocksIn(blocks') \subseteq (heap \cup Allocated(1 + size)) \ {gone}
    BY <1>2, <1>3, <1>6, <1>9, Zenon
<1> QED BY <1>3, <1>5, <1>7, <1>8, CallKeeps

\* tree_del of a node with two children: the node gets a copy of its successor's
\* entry, and the successor is taken out as in the case above.
LEMMA DelTwoKeepsHeap ==
    ASSUME HeapInv, stage = "serving", UNCHANGED << stage, freeing >>, NEW path \in DOMAIN blocks,
           NEW min \in DOMAIN blocks, min # path, NEW copied \in Nat,
           NEW entry, entry = next + 1 + copied,
           NEW t, t = Refilled(blocks, path, min, entry),
           blocks' = Moved(t, min, entry + 1),
           Manages(2 + copied + CopySize(t, Child(t, min)), {Removed(t, min, entry + 1)})
    PROVE  HeapInv'
<1> DEFINE size == CopySize(t, Child(t, min))
           gone == blocks[min].value.entry
           m == Moved(t, min, entry + 1)
           n == 2 + copied + size
<1>1. /\ WellFormed(blocks) /\ Owning(blocks) /\ Hanging(blocks) /\ BlocksIn(blocks) \subseteq heap
      /\ next \in Nat /\ Before(blocks, next)
    BY LiveBlocks
<1>2. entry \in Nat /\ next <= entry
    BY <1>1
<1>3. /\ WellFormed(t) /\ Owning(t) /\ Before(t, entry + 1)
      /\ min \in DOMAIN t /\ t[min] = blocks[min]
      /\ BlocksIn(t) \subseteq BlocksIn(blocks) \cup {entry}
    BY <1>1, <1>2, RefilledOwned
<1>4. /\ size \in Nat
      /\ WellFormed(m) /\ Owning(m)
      /\ BlocksIn(m) \subseteq (BlocksIn(t) \cup entry + 1 .. entry + 1 + size - 1) \ {t[min].value.entry}
    BY <1>3, MovedOwned
<1>5. blocks' = m /\ Manages(n, {gone})
    BY <1>3, Zenon DEF Removed
<1>6. gone \in heap /\ gone = t[min].value.entry
    BY <1>1, <1>3, BlocksAre
<1>11. Hanging(m)
    <2>1. DOMAIN t = DOMAIN blocks
        BY Zenon DEF Refilled
    <2>2. Hanging(t)
        BY <1>1, <2>1, SamePlacesHang
    <2> QED BY <1>2, <1>3, <2>2, MovedHangs
<1> HIDE DEF size, gone, m
<1>7. n \in Nat /\ entry + 1 .. entry + 1 + size - 1 \subseteq Allocated(n) /\ entry \in Allocated(n)
    BY <1>1, <1>2, <1>4 DEF Allocated
<1> HIDE DEF n
<1>8. BlocksIn(m) \subseteq (heap \cup Allocated(n)) \ {gone}
    BY <1>1, <1>3, <1>4, <1>6, <1>7
<1>9. {gone} \subseteq heap \cup Allocated(n)
    BY <1>6
<1>10. /\ WellFormed(blocks') /\ Owning(blocks') /\ Hanging(blocks')
       /\ BlocksIn(blocks') \subseteq (heap \cup Allocated(n)) \ {gone}
    BY <1>4, <1>5, <1>8, <1>11, Zenon
<1> QED BY <1>5, <1>7, <1>9, <1>10, CallKeeps

\* tree_del, in both cases.
LEMMA DelKeepsHeap ==
    ASSUME HeapInv, NEW key \in Key, DelBlocks(key)
    PROVE  HeapInv'
<1> DEFINE path == Slot(blocks, key)
<1>1. stage = "serving" /\ UNCHANGED << stage, freeing >> /\ path \in DOMAIN blocks
    BY DEF DelBlocks
<1>2. WellFormed(blocks) /\ Owning(blocks) /\ Typed(blocks) /\ next \in Nat
    BY <1>1, LiveBlocks DEF WellFormed
<1>3. CASE ~ HasBothChildren(blocks, path)
    <2>1. /\ blocks' = Moved(blocks, path, next + 1)
          /\ Manages(1 + CopySize(blocks, Child(blocks, path)), {Removed(blocks, path, next + 1)})
        BY <1>3, Zenon DEF DelBlocks
    <2> HIDE DEF path
    <2> QED BY <1>1, <2>1, DelOneKeepsHeap
<1>4. CASE HasBothChildren(blocks, path)
    <2> DEFINE right == Append(path, "right")
               min == MinValue(blocks, right)
               copied == CopySize(blocks, right)
               entry == next + 1 + copied
               t == Refilled(blocks, path, min, entry)
    <2>1. Node(path) = blocks[path].value.node
        BY <1>1, <1>2 DEF Node, Owning
    <2>2. t = [blocks EXCEPT ![path] = [key |-> blocks[min].key, value |-> Holds(Node(path), entry)]]
        BY <2>1, Zenon DEF Refilled
    <2>3. /\ blocks' = Moved(t, min, entry + 1)
          /\ Manages(2 + copied + CopySize(t, Child(t, min)), {Removed(t, min, entry + 1)})
        <3> HIDE DEF t
        <3> QED BY <1>4, <2>2, Zenon DEF DelBlocks
    <2>4. copied \in Nat
        BY <1>2, CopySizeIsNat
    <2>5. min \in DOMAIN blocks
        BY <1>1, <1>2, <1>4, SuccessorPlace
    <2>6. min # path
        <3> HIDE DEF path
        <3>1. PICK way \in Path : way # << >> /\ min = path \o way
            BY <1>1, <1>2, <1>4, SuccessorPlace
        <3>2. path \in Path
            BY <1>1, <1>2 DEF Typed
        <3> HIDE DEF min, right
        <3>3. Len(min) = Len(path) + Len(way) /\ Len(path) \in Nat /\ Len(way) \in Nat /\ Len(way) # 0
            BY <3>1, <3>2, SuffixOfConcat, LenProperties, EmptySeq DEF Path
        <3>4. Len(min) # Len(path)
            BY <3>3
        <3> QED BY <3>4, Zenon
    <2> HIDE DEF path, right, min, copied
    <2>7. entry = next + 1 + copied
        OBVIOUS
    <2> HIDE DEF entry
    <2>8. t = Refilled(blocks, path, min, entry)
        OBVIOUS
    <2> HIDE DEF t
    <2> QED BY <1>1, <2>3, <2>4, <2>5, <2>6, <2>7, <2>8, DelTwoKeepsHeap
<1> QED BY <1>3, <1>4

-----------------------------------------------------------------------------
(* tree_destroy *)

\* Of the nodes in a part of a tree one is the root, or hangs on a node outside the part.
LEMMA Topmost ==
    ASSUME NEW t, Typed(t), Hanging(t), NEW part \in SUBSET DOMAIN t, part # {}
    PROVE  \E path \in part :
              \/ path = << >>
              \/ \E above \in DOMAIN t \ part, turn \in Side : path = Append(above, turn)
<1> DEFINE lengths == {Len(path) : path \in part}
<1>1. \A path \in part : path \in DOMAIN t /\ path \in Path /\ Len(path) \in Nat
    BY LenProperties DEF Typed, Path
<1>2. lengths \in SUBSET Nat /\ lengths # {}
    BY <1>1
<1>3. PICK least \in lengths : \A n \in lengths : ~(<<n, least>> \in OpToRel(<, Nat))
    BY <1>2, NatLessThanWellFounded, WFMin
<1>4. \A n \in lengths : ~(n < least)
    BY <1>2, <1>3 DEF OpToRel
<1>5. PICK path \in part : Len(path) = least
    BY <1>3
<1>6. \A other \in part : ~(Len(other) < Len(path))
    BY <1>4, <1>5
<1>7. CASE path # << >>
    <2>1. PICK above \in DOMAIN t, turn \in Side : path = Append(above, turn)
        BY <1>1, <1>7, HangsOn
    <2>2. above \in Path /\ Len(above) \in Nat /\ Len(path) = Len(above) + 1
        BY <2>1, TurnsAreConcats, LenProperties DEF Typed, Path
    <2>3. above \notin part
        BY <1>6, <2>2
    <2> QED BY <2>1, <2>3
<1> QED BY <1>7

LEMMA RootIsThere ==
    ASSUME NEW t, Typed(t), Hanging(t), DOMAIN t # {}
    PROVE  << >> \in DOMAIN t
BY Topmost

\* tree_destroy is called with the root, before anything is freed.
LEMMA DestroyBegins ==
    ASSUME HeapInv, Destroy
    PROVE  HeapInv'
<1>1. /\ stage = "serving" /\ stage' = "left" /\ freeing' = << >>
      /\ UNCHANGED << blocks, heap, next, misfreed >>
    BY DEF Destroy, GoesOn, Untouched
<1>2. WellFormed(blocks) /\ Owning(blocks) /\ Hanging(blocks) /\ BlocksIn(blocks) \subseteq heap
    BY <1>1, LiveBlocks
<1>3. \A path \in DOMAIN blocks : Held(path)
    BY <1>2, BlocksAre DEF Held
<1>4. \A path \in DOMAIN blocks : Calling(path)' => path = << >>
    BY <1>1, <1>2, BeginsItself DEF Calling, WellFormed, Typed
<1>5. IF DOMAIN blocks = {} THEN Top \in heap ELSE << >> \in DOMAIN blocks
    BY <1>2, RootIsThere, BlocksAre DEF WellFormed, BlocksIn, NodesOf
<1>6. \A path \in DOMAIN blocks : Held(path)' /\ ~ Gone(path)'
    BY <1>1, <1>3 DEF Held, Gone
<1>7. \A path \in DOMAIN blocks, side \in Side :
        Append(path, side) \in DOMAIN blocks => ChildIs(path, side)'
    BY <1>1, <1>4, <1>6 DEF ChildIs
<1>8. \A path \in DOMAIN blocks :
        blocks'[path].value.node \in heap' /\ blocks'[path].value.entry \in heap'
    BY <1>6 DEF Held
<1>9. Walk'
    BY <1>1, <1>5, <1>6, <1>7, <1>8 DEF Walk
<1>10. stage' \in {"serving", "done"} \cup Walking /\ stage' # "serving" /\ stage' # "done"
       /\ freeing' \in Path
    BY <1>1, EmptySeq DEF Walking, Path
<1> QED BY <1>1, <1>9, <1>10 DEF HeapInv

LEMMA WalkIs ==
    ASSUME HeapInv, stage \in Walking
    PROVE  /\ WellFormed(blocks) /\ Typed(blocks) /\ Owning(blocks) /\ Hanging(blocks) /\ Walk
           /\ DOMAIN blocks \subseteq Path /\ freeing \in Path
BY DEF HeapInv, WellFormed, Typed

\* What is left of HeapInv when Walk has been shown.
LEMMA WalkGoesOn ==
    ASSUME HeapInv, stage \in Walking, stage' \in Walking, freeing' \in Path, Walk',
           blocks' = blocks, heap' \subseteq heap, next' = next, misfreed' = misfreed
    PROVE  HeapInv'
<1>1. /\ WellFormed(blocks) /\ Owning(blocks) /\ Hanging(blocks)
      /\ heap \subseteq 0 .. next - 1 /\ BlocksIn(blocks) \subseteq 0 .. next - 1
      /\ next \in 1 .. MaxBlocks + 1 /\ misfreed = FALSE
    BY DEF HeapInv
<1>2. stage' # "serving" /\ stage' # "done"
    BY DEF Walking
<1>3. heap' \subseteq 0 .. next' - 1
    BY <1>1
<1> QED BY <1>1, <1>2, <1>3 DEF HeapInv

\* A call looks for a link: it calls itself for the child, whose subtree is live, or
\* goes on.
LEMMA DescendKeeps ==
    ASSUME HeapInv, NEW side \in Side, stage = side, freeing \in DOMAIN blocks,
           Descend(side, IF side = "left" THEN "right" ELSE "entry"), Untouched
    PROVE  HeapInv'
<1> DEFINE child == Append(freeing, side)
<1>1. /\ stage \in Walking /\ Typed(blocks) /\ Walk /\ DOMAIN blocks \subseteq Path /\ freeing \in Path
      /\ child \in Path
    <2>1. stage \in Walking
        BY DEF Walking, Side
    <2> QED BY <2>1, WalkIs, TurnsAreConcats
<1>2. UNCHANGED << blocks, heap, next, misfreed >>
    BY DEF Untouched
<1>3. \A path : (Held(path)' <=> Held(path)) /\ (Gone(path)' <=> Gone(path))
    BY <1>2 DEF Held, Gone
<1>4. CASE child \in DOMAIN blocks
    <2>1. stage' = "left" /\ freeing' = child
        BY <1>4 DEF Descend, GoesOn
    <2>2. \A path \in Path : /\ Calling(path)' <=> Calling(path) \/ path = child
                             /\ ~ Calling(child)
        BY <1>1, <2>1, BeginningsOfNext DEF Calling
    <2>3. Held(child) /\ Calling(freeing) /\ freeing # child
        <3>1. ChildIs(freeing, side)
            BY <1>1, <1>4 DEF Walk
        <3> QED BY <1>1, <3>1, BeginsItself, BeginningsOfNext DEF ChildIs, Calling, Side
    <2>4. ASSUME NEW path \in DOMAIN blocks
          PROVE  IF Calling(path)'
                 THEN /\ blocks[path].value.node \in heap
                      /\ blocks[path].value.entry \in heap
                 ELSE Held(path) \/ Gone(path)
        <3>1. CASE path = child
            BY <1>1, <2>2, <2>3, <3>1 DEF Held
        <3>2. CASE path # child
            <4>1. Calling(path)' <=> Calling(path)
                BY <1>1, <2>2, <3>2
            <4>2. stage # "node"
                BY DEF Side
            <4> QED BY <1>1, <4>1, <4>2 DEF Walk
        <3> QED BY <3>1, <3>2
    <2>5. ASSUME NEW path \in DOMAIN blocks, NEW turn \in Side, Append(path, turn) \in DOMAIN blocks
          PROVE  ChildIs(path, turn)'
        <3>1. ChildIs(path, turn) /\ path \in Path
            BY <1>1, <2>5 DEF Walk
        <3>2. \A way \in Side : /\ Append(path, way) \in Path
                                /\ Append(path, way) = child <=> path = freeing /\ way = side
            BY <1>1, <3>1, TurnsFrom
        <3>3. CASE path = child
            <4>1. Held(Append(path, turn))
                BY <1>1, <2>2, <2>3, <3>1, <3>3 DEF ChildIs
            <4> QED BY <1>3, <2>1, <2>2, <3>1, <3>3, <4>1 DEF ChildIs
        <3>4. CASE path = freeing
            <4>1. \A way \in Side : ~ Calling(Append(path, way))
                BY <1>1, <3>4, BeginningsOfNext DEF Calling
            <4>2. \A way \in Side : Calling(Append(path, way))' => way = side
                BY <2>2, <3>2, <4>1
            <4>3. Calling(path)' /\ path # freeing'
                BY <1>1, <2>1, <2>2, <2>3, <3>4
            <4> QED BY <1>3, <3>1, <3>4, <4>2, <4>3 DEF ChildIs, Side
        <3>5. CASE path # child /\ path # freeing
            <4>1. \A way \in Side : Calling(Append(path, way))' <=> Calling(Append(path, way))
                BY <2>2, <3>2, <3>5
            <4>2. (Calling(path)' <=> Calling(path)) /\ path # freeing'
                BY <2>1, <2>2, <3>1, <3>5
            <4> QED BY <1>3, <3>1, <3>5, <4>1, <4>2 DEF ChildIs, Side
        <3> QED BY <3>3, <3>4, <3>5
    <2>6. Walk'
        <3>1. stage' # "node" /\ DOMAIN blocks # {} /\ freeing' \in DOMAIN blocks
            BY <1>4, <2>1
        <3> QED BY <1>2, <1>3, <2>4, <2>5, <3>1 DEF Walk
    <2>7. stage' \in Walking /\ freeing' \in Path
        BY <1>1, <2>1 DEF Walking
    <2> QED BY <1>1, <1>2, <2>6, <2>7, WalkGoesOn
<1>5. CASE child \notin DOMAIN blocks
    <2>1. stage' = (IF side = "left" THEN "right" ELSE "entry") /\ freeing' = freeing
        BY <1>5 DEF Descend, GoesOn
    <2>2. \A path : Calling(path)' <=> Calling(path)
        BY <2>1 DEF Calling
    <2>3. stage # "node" /\ stage' # "node" /\ stage' \in Walking
        BY <2>1 DEF Side, Walking
    <2>4. ASSUME NEW path \in DOMAIN blocks, NEW turn \in Side, Append(path, turn) \in DOMAIN blocks
          PROVE  ChildIs(path, turn)'
        <3>1. ChildIs(path, turn)
            BY <1>1, <2>4 DEF Walk
        <3>2. path = freeing => turn # side
            BY <1>5, <2>4
        <3> QED BY <1>3, <2>1, <2>2, <3>1, <3>2 DEF ChildIs, Side
    <2>5. Walk'
        BY <1>1, <1>2, <1>3, <2>1, <2>2, <2>3, <2>4 DEF Walk
    <2> QED BY <1>1, <1>2, <2>1, <2>3, <2>5, WalkGoesOn
<1> QED BY <1>4, <1>5

\* Without a root only the structure is freed.
LEMMA LeftKeeps ==
    ASSUME HeapInv, DestroyLeft
    PROVE  HeapInv'
<1>1. stage = "left" /\ Untouched /\ stage \in Walking
    BY DEF DestroyLeft, Walking
<1>2. CASE freeing \in DOMAIN blocks
    <2>1. Descend("left", "right")
        BY <1>2 DEF DestroyLeft
    <2> QED BY <1>1, <1>2, <2>1, DescendKeeps DEF Side
<1>3. CASE freeing \notin DOMAIN blocks
    <2>1. stage' = "node" /\ freeing' = freeing /\ UNCHANGED << blocks, heap, next, misfreed >>
        BY <1>1, <1>3 DEF DestroyLeft, GoesOn, Untouched
    <2>2. DOMAIN blocks = {} /\ freeing = << >> /\ Top \in heap /\ freeing \in Path
        BY <1>1, <1>3, WalkIs DEF Walk
    <2>3. Walk'
        BY <2>1, <2>2 DEF Walk
    <2>4. stage' \in Walking
        BY <2>1 DEF Walking
    <2> QED BY <1>1, <2>1, <2>2, <2>3, <2>4, WalkGoesOn
<1> QED BY <1>2, <1>3

LEMMA RightKeeps ==
    ASSUME HeapInv, DestroyRight
    PROVE  HeapInv'
<1>1. stage = "right" /\ Untouched /\ Descend("right", "entry") /\ stage \in Walking
    BY DEF DestroyRight, Walking
<1>2. freeing \in DOMAIN blocks
    BY <1>1, WalkIs DEF Walk
<1> QED BY <1>1, <1>2, DescendKeeps DEF Side

LEMMA Frees ==
    ASSUME HeapInv, NEW block \in heap, Manages(0, {block})
    PROVE  heap' = heap \ {block} /\ next' = next /\ misfreed' = misfreed
<1>1. next \in Nat /\ misfreed = FALSE
    BY MaxBlocksAssumption DEF HeapInv
<1>2. Allocated(0) = {}
    BY <1>1 DEF Allocated
<1>3. /\ next' = next + 0 /\ heap' = (heap \cup Allocated(0)) \ {block}
      /\ misfreed' = (misfreed \/ ~ {block} \subseteq heap \cup Allocated(0))
    BY Zenon DEF Manages
<1>4. next' = next
    BY <1>1, <1>3
<1>5. heap' = heap \ {block}
    BY <1>2, <1>3
<1>6. misfreed' = misfreed
    BY <1>1, <1>2, <1>3
<1> QED BY <1>4, <1>5, <1>6

\* Freeing a block of one place leaves the others as they are.
LEMMA OthersStay ==
    ASSUME Owning(blocks), NEW path \in DOMAIN blocks, NEW block,
           block \in {blocks[path].value.node, blocks[path].value.entry},
           blocks' = blocks, heap' = heap \ {block}
    PROVE  \A other \in DOMAIN blocks : other # path =>
              /\ blocks[other].value.node \in heap' <=> blocks[other].value.node \in heap
              /\ blocks[other].value.entry \in heap' <=> blocks[other].value.entry \in heap
              /\ Held(other)' <=> Held(other)
              /\ Gone(other)' <=> Gone(other)
<1>1. ASSUME NEW other \in DOMAIN blocks, other # path
      PROVE  blocks[other].value.node # block /\ blocks[other].value.entry # block
    BY <1>1 DEF Owning
<1>2. ASSUME NEW other \in DOMAIN blocks, other # path
      PROVE  /\ blocks[other].value.node \in heap' <=> blocks[other].value.node \in heap
             /\ blocks[other].value.entry \in heap' <=> blocks[other].value.entry \in heap
    BY <1>1, <1>2
<1> QED BY <1>2 DEF Held, Gone

LEMMA EntryKeeps ==
    ASSUME HeapInv, DestroyEntry
    PROVE  HeapInv'
<1> DEFINE block == blocks[freeing].value.entry
<1>1. /\ stage = "entry" /\ stage' = "node" /\ freeing' = freeing /\ blocks' = blocks
      /\ Manages(0, {block}) /\ stage \in Walking /\ stage' \in Walking
    BY DEF DestroyEntry, GoesOn, Walking
<1>2. /\ Owning(blocks) /\ Walk /\ DOMAIN blocks \subseteq Path /\ freeing \in Path
      /\ freeing \in DOMAIN blocks /\ Calling(freeing)
    BY <1>1, WalkIs, BeginsItself DEF Walk, Calling
<1>3. block \in heap /\ blocks[freeing].value.node \in heap /\ blocks[freeing].value.node # block
    BY <1>1, <1>2 DEF Walk, Owning
<1>4. heap' = heap \ {block} /\ next' = next /\ misfreed' = misfreed
    BY <1>1, <1>3, Frees
<1>5. \A other \in DOMAIN blocks : other # freeing =>
              /\ blocks[other].value.node \in heap' <=> blocks[other].value.node \in heap
              /\ blocks[other].value.entry \in heap' <=> blocks[other].value.entry \in heap
              /\ Held(other)' <=> Held(other)
              /\ Gone(other)' <=> Gone(other)
    BY <1>1, <1>2, <1>4, OthersStay
<1>6. \A path : Calling(path)' <=> Calling(path)
    BY <1>1 DEF Calling
<1>7. blocks[freeing].value.node \in heap' /\ blocks[freeing].value.entry \notin heap'
    BY <1>3, <1>4
<1>8. ASSUME NEW path \in DOMAIN blocks, NEW turn \in Side, Append(path, turn) \in DOMAIN blocks
      PROVE  ChildIs(path, turn)'
    <2> DEFINE child == Append(path, turn)
    <2>1. ChildIs(path, turn) /\ path \in Path /\ child \in Path
        BY <1>2, <1>8, TurnsAreConcats DEF Walk
    <2>2. CASE path = freeing
        <3>1. child # freeing
            BY <1>2, <2>2, BeginningsOfNext
        <3> QED BY <1>1, <1>2, <1>5, <1>6, <1>8, <2>1, <2>2, <3>1 DEF ChildIs, Side
    <2>3. CASE path # freeing /\ child # freeing
        BY <1>1, <1>5, <1>6, <1>8, <2>1, <2>3 DEF ChildIs
    <2>4. CASE path # freeing /\ child = freeing
        <3>1. Calling(path)
            BY <1>2, <2>1, <2>4, BeginsItself, BeginningsOfNext DEF Calling
        <3>2. \A way \in Side : Calling(Append(path, way)) => way = turn
            <4>1. \A way \in Side : /\ Append(path, way) \in Path
                                    /\ ~ IsPrefix(Append(path, way), path)
                                    /\ Append(path, way) = child <=> way = turn
                BY <2>1, TurnsFrom, BeginningsOfNext
            <4> QED BY <2>1, <2>4, <4>1, BeginningsOfNext DEF Calling
        <3> QED BY <1>1, <1>6, <2>4, <3>1, <3>2 DEF ChildIs, Side
    <2> QED BY <2>2, <2>3, <2>4
<1>9. Walk'
    BY <1>1, <1>2, <1>5, <1>6, <1>7, <1>8 DEF Walk
<1>10. heap' \subseteq heap
    BY <1>4
<1> QED BY <1>1, <1>2, <1>4, <1>9, <1>10, WalkGoesOn

\* The node of a call whose subtrees are freed, and with it the last of its place.
LEMMA NodeFreed ==
    ASSUME HeapInv, DestroyNode, NEW node, node = freeing
    PROVE  /\ stage = "node" /\ stage \in Walking /\ blocks' = blocks
           /\ heap' = heap \ {Node(freeing)} /\ next' = next /\ misfreed' = misfreed
           /\ node \in DOMAIN blocks =>
                 /\ Gone(node)'
                 /\ \A turn \in Side : Append(node, turn) \in DOMAIN blocks =>
                       Gone(Append(node, turn))'
                 /\ \A other \in DOMAIN blocks : other # node =>
                       /\ blocks[other].value.node \in heap' <=> blocks[other].value.node \in heap
                       /\ blocks[other].value.entry \in heap' <=> blocks[other].value.entry \in heap
                       /\ Held(other)' <=> Held(other)
                       /\ Gone(other)' <=> Gone(other)
<1>1. stage = "node" /\ stage \in Walking /\ blocks' = blocks /\ Manages(0, {Node(freeing)})
    BY DEF DestroyNode, Walking
<1>2. Owning(blocks) /\ Walk /\ freeing \in Path
    BY <1>1, WalkIs
<1>3. freeing \in DOMAIN blocks => Node(freeing) = blocks[freeing].value.node
    BY <1>2 DEF Owning, Node
<1>4. freeing \in DOMAIN blocks => /\ Calling(freeing)
                                   /\ blocks[freeing].value.node \in heap
                                   /\ blocks[freeing].value.entry \notin heap
    BY <1>1, <1>2, BeginsItself DEF Walk, Calling
<1>5. freeing \notin DOMAIN blocks => freeing = << >> /\ Top \in heap
    BY <1>2 DEF Walk
<1>6. Node(freeing) \in heap
    BY <1>3, <1>4, <1>5 DEF Node
<1>7. heap' = heap \ {Node(freeing)} /\ next' = next /\ misfreed' = misfreed
    BY <1>1, <1>6, Frees
<1>8. ASSUME node \in DOMAIN blocks
      PROVE  /\ Gone(node)'
             /\ \A turn \in Side : Append(node, turn) \in DOMAIN blocks =>
                   Gone(Append(node, turn))'
    <2>1. Gone(node)'
        BY <1>1, <1>3, <1>4, <1>7, <1>8 DEF Gone
    <2>2. ASSUME NEW turn \in Side, Append(node, turn) \in DOMAIN blocks
          PROVE  Gone(Append(node, turn))'
        <3>1. ChildIs(node, turn)
            BY <1>2, <1>8, <2>2 DEF Walk
        <3>2. Gone(Append(node, turn))
            BY <1>1, <3>1 DEF ChildIs
        <3> QED BY <1>1, <1>7, <3>2 DEF Gone
    <2> QED BY <2>1, <2>2
<1>9. ASSUME node \in DOMAIN blocks
      PROVE  \A other \in DOMAIN blocks : other # node =>
                /\ blocks[other].value.node \in heap' <=> blocks[other].value.node \in heap
                /\ blocks[other].value.entry \in heap' <=> blocks[other].value.entry \in heap
                /\ Held(other)' <=> Held(other)
                /\ Gone(other)' <=> Gone(other)
    BY <1>1, <1>2, <1>3, <1>7, <1>9, OthersStay
<1> QED BY <1>1, <1>7, <1>8, <1>9

\* The call of the root returns: the whole tree is freed.
LEMMA LastReturns ==
    ASSUME HeapInv, DestroyNode, freeing = << >>
    PROVE  HeapInv'
<1>1. stage' = "done" /\ freeing' = freeing /\ freeing \in Path
    BY EmptySeq DEF DestroyNode, GoesOn, Path
<1>2. /\ stage = "node" /\ stage \in Walking /\ blocks' = blocks
      /\ heap' = heap \ {Node(freeing)} /\ next' = next /\ misfreed' = misfreed
    BY NodeFreed
<1>3. Typed(blocks) /\ Owning(blocks) /\ Hanging(blocks) /\ Walk /\ DOMAIN blocks \subseteq Path
    BY <1>2, WalkIs
<1>4. Top \notin heap'
    BY <1>2 DEF Node
<1>5. \A path \in DOMAIN blocks : Gone(path)'
    <2> DEFINE left == {path \in DOMAIN blocks : ~ Gone(path)'}
    <2>1. ASSUME NEW path \in left PROVE FALSE
        <3>1. /\ << >> \in DOMAIN blocks /\ Gone(<< >>)'
              /\ \A way \in Side : Append(<< >>, way) \in DOMAIN blocks => Gone(Append(<< >>, way))'
              /\ \A other \in DOMAIN blocks : other # << >> => (Gone(other)' <=> Gone(other))
            <4>1. << >> \in DOMAIN blocks
                BY <1>3, <2>1 DEF Walk
            <4> QED BY <4>1, NodeFreed
        <3>2. << >> \notin left
            BY <3>1
        <3>3. PICK lost \in left, above \in DOMAIN blocks \ left, turn \in Side :
                 lost = Append(above, turn)
            <4>1. left \in SUBSET DOMAIN blocks /\ left # {}
                BY <2>1
            <4> HIDE DEF left
            <4> QED BY <1>3, <3>2, <4>1, Topmost
        <3>4. above # << >> /\ lost # << >>
            BY <3>1, <3>2, <3>3
        <3>5. ~ Calling(above) /\ above \in Path
            BY <1>3, <3>4, BeginsItself DEF Calling
        <3>6. ChildIs(above, turn)
            BY <1>3, <3>3 DEF Walk
        <3>7. Gone(above) /\ ~ Gone(lost)
            <4>1. Gone(above)' /\ ~ Gone(lost)'
                BY <3>3
            <4> QED BY <3>1, <3>3, <3>4, <4>1
        <3> QED BY <3>3, <3>5, <3>6, <3>7 DEF ChildIs
    <2> QED BY <2>1
<1>6. BlocksIn(blocks') \cap heap' = {}
    <2>1. \A path \in DOMAIN blocks : blocks[path].value.node \notin heap'
                                      /\ blocks[path].value.entry \notin heap'
        BY <1>2, <1>5 DEF Gone
    <2> QED BY <1>2, <1>4, <2>1 DEF BlocksIn, NodesOf, EntriesOf
<1>7. heap' \subseteq 0 .. next' - 1 /\ next' \in 1 .. MaxBlocks + 1 /\ misfreed' = FALSE
      /\ BlocksIn(blocks') \subseteq 0 .. next' - 1
    BY <1>2 DEF HeapInv
<1>8. WellFormed(blocks') /\ Owning(blocks') /\ Hanging(blocks')
    BY <1>2 DEF HeapInv
<1>9. stage' \in {"serving", "done"} \cup Walking /\ stage' # "serving" /\ stage' \notin Walking
    BY <1>1 DEF Walking
<1> QED BY <1>1, <1>6, <1>7, <1>8, <1>9 DEF HeapInv

\* Another call returns: the caller goes on behind the link that it had followed.
LEMMA CallReturns ==
    ASSUME HeapInv, DestroyNode, freeing # << >>
    PROVE  HeapInv'
<1>1. /\ stage = "node" /\ stage \in Walking /\ blocks' = blocks
      /\ heap' = heap \ {Node(freeing)} /\ next' = next /\ misfreed' = misfreed
    BY NodeFreed
<1>2. /\ Typed(blocks) /\ Owning(blocks) /\ Hanging(blocks) /\ Walk /\ DOMAIN blocks \subseteq Path
      /\ freeing \in Path /\ freeing \in DOMAIN blocks
    BY <1>1, WalkIs DEF Walk
<1>3. PICK caller \in DOMAIN blocks, side \in Side : freeing = Append(caller, side)
    BY <1>2, HangsOn
<1>4. /\ caller \in Path /\ caller # freeing
      /\ freeing' = caller /\ stage' = (IF side = "left" THEN "right" ELSE "entry")
    <2>1. caller \in Path /\ caller # freeing
        BY <1>2, <1>3, BeginningsOfNext
    <2>2. Last(freeing) = side /\ Front(freeing) = caller
        BY <1>3, <2>1, LastTurn
    <2> QED BY <2>1, <2>2 DEF DestroyNode, GoesOn
<1> DEFINE node == Append(caller, side)
<1>5. \A path \in Path : Calling(path) <=> Calling(path)' \/ path = node
    BY <1>3, <1>4, BeginningsOfNext DEF Calling
<1>6. ~ Calling(node)' /\ Calling(caller)' /\ Calling(caller)
    <2>1. ~ IsPrefix(node, caller) /\ IsPrefix(caller, caller) /\ IsPrefix(caller, node)
        BY <1>4, BeginsItself, BeginningsOfNext
    <2> QED BY <1>3, <1>4, <2>1 DEF Calling
<1>7. /\ Gone(node)'
      /\ \A turn \in Side : Append(node, turn) \in DOMAIN blocks => Gone(Append(node, turn))'
      /\ \A other \in DOMAIN blocks : other # node =>
            /\ blocks[other].value.node \in heap' <=> blocks[other].value.node \in heap
            /\ blocks[other].value.entry \in heap' <=> blocks[other].value.entry \in heap
            /\ Held(other)' <=> Held(other)
            /\ Gone(other)' <=> Gone(other)
    <2> HIDE DEF node
    <2>1. node = freeing
        BY <1>3 DEF node
    <2> QED BY <1>2, <2>1, NodeFreed
<1>8. \A path \in DOMAIN blocks : ~ (Gone(path) /\ Held(path)) /\ ~ (Gone(path)' /\ Held(path)')
    BY DEF Gone, Held
<1>9. ASSUME NEW path \in DOMAIN blocks, NEW turn \in Side, Append(path, turn) \in DOMAIN blocks
      PROVE  ChildIs(path, turn)'
    <2> DEFINE child == Append(path, turn)
    <2>1. ChildIs(path, turn) /\ path \in Path /\ child \in Path
        BY <1>2, <1>9, TurnsAreConcats DEF Walk
    <2>2. \A way \in Side : /\ Append(path, way) \in Path
                            /\ Append(path, way) = node <=> path = caller /\ way = side
        BY <1>3, <1>4, <2>1, TurnsFrom
    <2>3. \A way \in Side : Calling(Append(path, way))' => Calling(Append(path, way))
        BY <1>5, <2>2
    <2>4. CASE path = node
        <3>1. Gone(path)' /\ Gone(child)' /\ ~ Held(path)' /\ ~ Calling(path)' /\ path # freeing'
            BY <1>4, <1>6, <1>7, <1>8, <1>9, <2>4
        <3> QED BY <3>1 DEF ChildIs
    <2>5. CASE path = caller
        <3>1. CASE turn = side
            <4>1. child = node /\ Gone(child)'
                BY <1>7, <2>2, <2>5, <3>1
            <4> QED BY <1>4, <1>6, <2>5, <3>1, <4>1 DEF ChildIs, Side
        <3>2. CASE turn # side
            <4>1. child # node /\ Calling(Append(path, side))
                <5>1. Append(path, side) = node
                    BY <2>2, <2>5
                <5> QED BY <1>2, <1>3, <2>2, <3>2, <5>1, BeginsItself DEF Calling
            <4>2. IF turn = "left" THEN Gone(child) ELSE Held(child)
                BY <1>4, <1>6, <2>1, <2>5, <3>2, <4>1 DEF ChildIs, Side
            <4>3. IF turn = "left" THEN Gone(child)' ELSE Held(child)'
                BY <1>7, <1>9, <4>1, <4>2
            <4> QED BY <1>4, <1>6, <2>5, <3>2, <4>3 DEF ChildIs, Side
        <3> QED BY <3>1, <3>2
    <2>6. CASE path # node /\ path # caller
        <3>1. child # node
            BY <2>2, <2>6
        <3>2. /\ Held(child)' <=> Held(child)
              /\ Gone(child)' <=> Gone(child)
              /\ Held(path)' <=> Held(path)
              /\ Gone(path)' <=> Gone(path)
            BY <1>7, <1>9, <2>6, <3>1
        <3>3. (Calling(path)' <=> Calling(path)) /\ path # freeing'
            BY <1>4, <1>5, <2>1, <2>6
        <3> QED BY <1>3, <2>1, <2>3, <2>6, <3>2, <3>3 DEF ChildIs, Side
    <2> QED BY <2>4, <2>5, <2>6
<1>10. ASSUME NEW path \in DOMAIN blocks
       PROVE  IF Calling(path)'
              THEN blocks[path].value.node \in heap' /\ blocks[path].value.entry \in heap'
              ELSE Held(path)' \/ Gone(path)'
    <2>1. CASE path = node
        BY <1>6, <1>7, <2>1
    <2>2. CASE path # node
        <3>1. Calling(path)' <=> Calling(path)
            BY <1>2, <1>5, <2>2
        <3> QED BY <1>2, <1>3, <1>7, <2>2, <3>1 DEF Walk
    <2> QED BY <2>1, <2>2
<1>11. stage' # "node" /\ stage' \in Walking /\ DOMAIN blocks # {}
    BY <1>3, <1>4 DEF Walking
<1>12. Walk'
    BY <1>1, <1>4, <1>9, <1>10, <1>11 DEF Walk
<1>13. heap' \subseteq heap
    BY <1>1
<1> QED BY <1>1, <1>4, <1>11, <1>12, <1>13, WalkGoesOn

\* Every call of the tree keeps the invariant.
LEMMA NextHeap == HeapInv /\ [BlocksNext]_blocksVars => HeapInv'
<1> SUFFICES ASSUME HeapInv, [BlocksNext]_blocksVars PROVE HeapInv'
    OBVIOUS
<1>1. ASSUME NEW key \in Key, PutBlocks(key) PROVE HeapInv'
    BY <1>1, PutKeepsHeap
<1>2. ASSUME NEW key \in Key, DelBlocks(key) PROVE HeapInv'
    BY <1>2, DelKeepsHeap
<1>3. CASE Destroy
    BY <1>3, DestroyBegins
<1>4. CASE Destroying
    BY <1>4, LeftKeeps, RightKeeps, EntryKeeps, LastReturns, CallReturns DEF Destroying
<1>5. CASE UNCHANGED blocksVars
    <2>1. /\ blocks' = blocks /\ heap' = heap /\ next' = next /\ misfreed' = misfreed
          /\ stage' = stage /\ freeing' = freeing
        BY <1>5 DEF blocksVars
    <2> QED BY <2>1 DEF HeapInv, Walk, ChildIs, Calling, Held, Gone
<1> QED BY <1>1, <1>2, <1>3, <1>4, <1>5 DEF BlocksNext

\* A tree that owns its blocks leads to as many as it has places for.
LEMMA HeapInvIsSound == HeapInv => HeapSound
<1> SUFFICES ASSUME HeapInv PROVE HeapSound
    OBVIOUS
<1>1. /\ WellFormed(blocks) /\ Owning(blocks)
      /\ heap \subseteq 0 .. next - 1 /\ next \in 1 .. MaxBlocks + 1
      /\ BlocksIn(blocks) \subseteq 0 .. next - 1
      /\ misfreed = FALSE /\ freeing \in Path
      /\ stage = "serving" => BlocksIn(blocks) \subseteq heap
    BY DEF HeapInv
<1>2. ASSUME NEW path \in DOMAIN blocks
      PROVE  /\ path \in Path /\ blocks[path].key \in Key
             /\ blocks[path].value.node \in 0 .. next - 1 /\ blocks[path].value.entry \in 1 .. next - 1
    <2>1. blocks[path].value.node \in 0 .. next - 1 /\ blocks[path].value.entry \in 0 .. next - 1
        BY <1>1, BlocksAre, Zenon
    <2>2. blocks[path].value.entry # 0
        BY <1>1 DEF Owning, Top
    <2>3. blocks[path].value.entry \in 1 .. next - 1
        BY <2>1, <2>2
    <2>4. path \in Path /\ blocks[path].key \in Key
        BY <1>1 DEF WellFormed, Typed, IsEntry
    <2> QED BY <2>1, <2>3, <2>4
<1>3. BlocksTypeOK
    <2>1. stage \in {"serving", "left", "right", "entry", "node", "done"} /\ misfreed \in BOOLEAN
        BY DEF HeapInv, Walking
    <2> QED BY <1>1, <1>2, <2>1, Zenon DEF BlocksTypeOK
<1>4. Reachable = BlocksIn(blocks)
    BY Zenon DEF Reachable, BlocksIn
<1>5. Cardinality(Reachable) = Cardinality(DOMAIN blocks \cup {<< >>}) + Cardinality(DOMAIN blocks)
    BY <1>1, <1>4, CountBlocks
<1>6. << >> \in DOMAIN blocks => blocks[<< >>].value.node = Top
    BY <1>1 DEF Owning
<1>7. ASSUME stage \in Walking, NEW path \in DOMAIN blocks \cup {<< >>}, IsPrefix(path, freeing)
      PROVE  Node(path) \in heap
    <2>1. Walk
        BY <1>7 DEF HeapInv
    <2>2. CASE path \in DOMAIN blocks
        <3>1. blocks[path].value.node \in heap
            BY <1>7, <2>1, <2>2 DEF Walk, Calling
        <3> QED BY <1>6, <2>2, <3>1 DEF Node
    <2>3. CASE path \notin DOMAIN blocks
        <3>1. path = << >> /\ DOMAIN blocks = {}
            BY <1>1, <1>7, <2>3, RootIsThere DEF HeapInv, WellFormed
        <3> QED BY <2>1, <3>1 DEF Walk, Node
    <2> QED BY <2>2, <2>3
<1>8. PlacesOwnTheirs
    BY <1>1, <1>4, <1>5, <1>6, <1>7 DEF PlacesOwnTheirs, Walking
<1>9. FreedOnce
    BY <1>1 DEF FreedOnce
<1> QED BY <1>3, <1>8, <1>9 DEF HeapSound

\* For every set of keys, however many blocks there are and in whatever order
\* the calls come, what the tree leads to is live, no place shares a node or an
\* entry with another, tree_destroy reads no freed node, and nothing is freed
\* twice (tree.c, entry.c, data.c).
THEOREM HeapIsSound == BlocksSpec => []HeapSound
<1>1. BlocksSpec => []HeapInv
    BY InitHeap, NextHeap, PTL DEF BlocksSpec
<1> QED BY <1>1, HeapInvIsSound, PTL

\* When the recursion of tree_destroy has returned nothing that the tree led to
\* is live, whatever shape the tree has got: no link was passed over.
THEOREM DestroyFrees == BlocksSpec => []DestroyFreesTree
<1>1. BlocksSpec => []HeapInv
    BY InitHeap, NextHeap, PTL DEF BlocksSpec
<1>2. HeapInv => DestroyFreesTree
    BY DEF HeapInv, DestroyFreesTree, Reachable, BlocksIn
<1> QED BY <1>1, <1>2, PTL
=============================================================================
