------------------------------ MODULE TreeStore ------------------------------
(***************************************************************************)
(* The module tree as its callers see it: one struct tree_t and the calls   *)
(* of include/tree.h, each of which runs under tree_lock and is one step.   *)
(* result is the last call with its arguments and its return value.        *)
(***************************************************************************)
EXTENDS Tree

VARIABLES tree,       \* the tree behind the top struct tree_t
          result,     \* <<call with arguments, returned value>>
          spinning    \* a tree_del is in the loop of minValue for good

vars == <<tree, result, spinning>>

Init == /\ tree = EmptyTree
        /\ result = << <<"none">>, 0>>
        /\ spinning = FALSE

\* Every call returns its value and leaves the module free for the next one.
Returns(call, value) ==
    /\ ~spinning
    /\ result' = <<call, value>>
    /\ UNCHANGED spinning

Put(key, value) == /\ Returns(<<"put", key, value>>, 0)
                   /\ tree' = TreePut(tree, key, value)

Get(key) == /\ Returns(<<"get", key>>, TreeGet(tree, key))
            /\ UNCHANGED tree

\* tree_del reports -1 when the key is missing, and also when the number of
\* nodes did not change.
DelResult(key) ==
    IF TreeGet(tree, key) = NoValue \/ TreeSize(TreeDel(tree, key)) = TreeSize(tree)
    THEN -1
    ELSE 0

Del(key) == /\ ~DelSpins(tree, key)
            /\ Returns(<<"del", key>>, DelResult(key))
            /\ tree' = TreeDel(tree, key)

DelHangs(key) == /\ ~spinning
                 /\ DelSpins(tree, key)
                 /\ spinning' = TRUE
                 /\ UNCHANGED <<tree, result>>

\* A turn of the loop: arv gets the value it already has.
Spin == spinning /\ UNCHANGED vars

Size == Returns(<<"size">>, TreeSize(tree)) /\ UNCHANGED tree

Height == Returns(<<"height">>, TreeHeight(tree)) /\ UNCHANGED tree

GetKeys == Returns(<<"getkeys">>, TreeKeys(tree)) /\ UNCHANGED tree

Next == \/ \E key \in Key, value \in Value : Put(key, value)
        \/ \E key \in Key : Get(key) \/ Del(key) \/ DelHangs(key)
        \/ Size \/ Height \/ GetKeys
        \/ Spin

Spec == Init /\ [][Next]_vars
-----------------------------------------------------------------------------
(* Properties *)

TypeOK == /\ tree \in [DOMAIN tree -> Entry]
          /\ DOMAIN tree \subseteq Path
          /\ result[1][1] \in {"none", "put", "get", "del", "size", "height", "getkeys"}
          /\ spinning \in BOOLEAN

\* Every node is where the descent for its key ends, whatever puts and
\* deletes came before: a deletion that moves a subtree or copies the
\* successor leaves all the other keys reachable (tree_del_aux).
KeysReachable == SearchOrder(tree)

\* The calls return what a dictionary returns and change what it changes
\* (the contract of include/tree.h, for every sequence of calls).
Dictionary == INSTANCE KVStore WITH contents <- Contents(tree)
ImplementsDictionary == Dictionary!Spec

\* "Função para remover um elemento da árvore ... Retorna 0 (ok) ou -1 (key
\* not found)" (include/tree.h): every deletion comes to an end.
DelReturns == ~spinning
=============================================================================
