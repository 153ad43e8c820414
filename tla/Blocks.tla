------------------------------- MODULE Blocks -------------------------------
(***************************************************************************)
(* The memory of the tree: which blocks tree.c, entry.c and data.c have    *)
(* allocated, and which of them the tree still leads to.                   *)
(*                                                                         *)
(* A block is a number, never used twice.  A struct tree_t is one; an      *)
(* entry_t, its key, its data_t and the bytes are another, since           *)
(* entry_create, entry_dup and entry_destroy deal with the four together;  *)
(* a data_t alone with its bytes is a third kind.  Blocks have no size.    *)
(* Each call runs under tree_lock and is one step, but for tree_destroy,   *)
(* whose recursion is followed from node to node.                          *)
(***************************************************************************)
EXTENDS Tree

CONSTANT MaxBlocks      \* blocks that are allocated in a behaviour

ASSUME MaxBlocksAssumption == MaxBlocks \in Nat

VARIABLES blocks,       \* the tree; the values are [node, entry], not data blocks
          heap,         \* the live blocks
          next,         \* the next block
          misfreed,     \* history: a block was freed that was not live
          stage,        \* the next statement of the innermost tree_destroy
          freeing       \* the node it was called with; those above it have their calls

blocksVars == << blocks, heap, next, misfreed, stage, freeing >>

Top == 0                \* the struct tree_t of tree_skel_init

BlocksInit ==
  /\ blocks = EmptyTree
  /\ heap = {Top}
  /\ next = 1
  /\ misfreed = FALSE
  /\ stage = "serving"
  /\ freeing = << >>

Allocated(n) == next .. next + n - 1

(* What one call allocates, n blocks in all, and what it frees of them and *)
(* of the older ones.                                                      *)
Manages(n, freed) ==
  /\ next + n - 1 <= MaxBlocks
  /\ next' = next + n
  /\ heap' = (heap \cup Allocated(n)) \ freed
  /\ misfreed' = (misfreed \/ ~ freed \subseteq heap \cup Allocated(n))

Node(path) == IF path = << >> THEN Top ELSE blocks[path].value.node
Holds(node, entry) == [node |-> node, entry |-> entry]

\* Mutant of PutBlocks: the tree gets the entry that is destroyed, not its copy.
PutKeepsFreed(key) ==
  LET slot == Slot(blocks, key)
  IN  /\ stage = "serving"
      /\ IF slot \in DOMAIN blocks \/ slot = << >>
         THEN blocks' = TreePut(blocks, key, Holds(Node(slot), next)) /\ Manages(2, {next})
         ELSE blocks' = TreePut(blocks, key, Holds(next + 2, next)) /\ Manages(3, {next})
      /\ UNCHANGED << stage, freeing >>

\* Mutant of PutBlocks: the copy is NULL, as entry_dup's is of an entry without a value.
PutNothing(key) ==
  LET slot == Slot(blocks, key)
  IN  /\ stage = "serving"
      /\ IF slot \in DOMAIN blocks \/ slot = << >>
         THEN blocks' = TreePut(blocks, key, Holds(Node(slot), 0)) /\ Manages(1, {next})
         ELSE blocks' = TreePut(blocks, key, Holds(next + 1, 0)) /\ Manages(2, {next})
      /\ UNCHANGED << stage, freeing >>

(* novaEntrada is the first block, its copy that stays in the tree the     *)
(* second.  The levels above, which make and destroy a novaEntrada each,   *)
(* leave nothing.                                                          *)
PutBlocks(key) ==
  LET slot == Slot(blocks, key)
  IN  /\ stage = "serving"
      /\ IF slot \in DOMAIN blocks \/ slot = << >>
         THEN blocks' = TreePut(blocks, key, Holds(Node(slot), next + 1)) /\ Manages(2, {next})
         ELSE blocks' = TreePut(blocks, key, Holds(next + 2, next + 1)) /\ Manages(3, {next})
      /\ UNCHANGED << stage, freeing >>

-----------------------------------------------------------------------------
(* tree_dup of the subtree t has at top: 2 blocks for each of its nodes.   *)

CopySize(t, top) == 2 * Cardinality(Below(t, top))

Copied(t, top, first) ==
  LET order == SetToSeq(Below(t, top))
      place(path) == CHOOSE i \in DOMAIN order : order[i] = path
  IN  [path \in DOMAIN t |->
         IF ~ IsPrefix(top, path) THEN t[path]
         ELSE [t[path] EXCEPT !.value =
                 Holds(first + 2 * place(path) - 2, first + 2 * place(path) - 1)]]

Child(t, path) ==
  Append(path, IF Append(path, "left") \in DOMAIN t THEN "left" ELSE "right")

(* What tree_del_aux makes of a node with at most one child: the node      *)
(* takes entry and links of the child's copy, which starts at block first. *)
Moved(t, path, first) ==
  LET moved == Unlink(Copied(t, Child(t, path), first), path)
  IN  IF path \notin DOMAIN moved THEN moved
      ELSE [moved EXCEPT ![path].value.node = t[path].value.node]

\* Mutant of Removed: the entry that moves up is destroyed, not the deleted one.
RemovedChild(t, path, first) ==
  LET moved == Moved(t, path, first)
  IN  IF path \in DOMAIN moved THEN moved[path].value.entry ELSE t[path].value.entry

(* The entry tree_del_aux destroys.                                        *)
Removed(t, path, first) == t[path].value.entry

(* The first block is the copy that tree_del gets from tree_get to see     *)
(* whether the key is there.  With two children, minValue copies the right *)
(* subtree, and one more block is the copy of the successor's entry.       *)
DelBlocks(key) ==
  LET path == Slot(blocks, key)
  IN  /\ stage = "serving" /\ ~ DelSpins(blocks, key)
      /\ path \in DOMAIN blocks
      /\ IF HasBothChildren(blocks, path)
         THEN LET right == Append(path, "right")
                  min   == MinValue(blocks, right)
                  entry == next + 1 + CopySize(blocks, right)
                  t     == [blocks EXCEPT ![path] =
                              [key |-> blocks[min].key, value |-> Holds(Node(path), entry)]]
              IN  /\ blocks' = Moved(t, min, entry + 1)
                  /\ Manages(2 + CopySize(blocks, right) + CopySize(t, Child(t, min)),
                             {Removed(t, min, entry + 1)})
         ELSE /\ blocks' = Moved(blocks, path, next + 1)
              /\ Manages(1 + CopySize(blocks, Child(blocks, path)),
                         {Removed(blocks, path, next + 1)})
      /\ UNCHANGED << stage, freeing >>

-----------------------------------------------------------------------------
(* tree_destroy.  The tree is not changed, only freed, and a link that is  *)
(* followed is one of the tree.                                            *)

GoesOn(at, path) == stage' = at /\ freeing' = path

Untouched == UNCHANGED << blocks, heap, next, misfreed >>

(* The call for a child, or the statement after it when there is none.     *)
Descend(side, after) ==
  IF Append(freeing, side) \in DOMAIN blocks
  THEN GoesOn("left", Append(freeing, side))
  ELSE GoesOn(after, freeing)

(* tree_skel_destroy.                                                      *)
Destroy == stage = "serving" /\ GoesOn("left", << >>) /\ Untouched

(* Without an entry only the node is freed.                                *)
DestroyLeft ==
  /\ stage = "left"
  /\ IF freeing \in DOMAIN blocks THEN Descend("left", "right") ELSE GoesOn("node", freeing)
  /\ Untouched

\* Mutant of DestroyRight: an else, so that a node with two links loses the right one.
DestroyRightElse ==
  /\ stage = "right"
  /\ IF Append(freeing, "left") \in DOMAIN blocks
     THEN GoesOn("entry", freeing) ELSE Descend("right", "entry")
  /\ Untouched

DestroyRight == stage = "right" /\ Descend("right", "entry") /\ Untouched

DestroyEntry ==
  /\ stage = "entry"
  /\ Manages(0, {blocks[freeing].value.entry})
  /\ GoesOn("node", freeing)
  /\ UNCHANGED blocks

(* The caller goes on after the link it had followed.                      *)
DestroyNode ==
  /\ stage = "node"
  /\ Manages(0, {Node(freeing)})
  /\ IF freeing = << >> THEN GoesOn("done", freeing)
     ELSE GoesOn(IF Last(freeing) = "left" THEN "right" ELSE "entry", Front(freeing))
  /\ UNCHANGED blocks

Destroying == DestroyLeft \/ DestroyRight \/ DestroyEntry \/ DestroyNode

BlocksNext == (\E key \in Key : PutBlocks(key) \/ DelBlocks(key)) \/ Destroy \/ Destroying

BlocksSpec == BlocksInit /\ [][BlocksNext]_blocksVars

-----------------------------------------------------------------------------
NodesOf(t) == {Top} \cup {t[path].value.node : path \in DOMAIN t}
EntriesOf(t) == {t[path].value.entry : path \in DOMAIN t}

Reachable == NodesOf(blocks) \cup EntriesOf(blocks)
Lost == heap \ Reachable

BlocksTypeOK ==
  /\ \A path \in DOMAIN blocks :
       /\ path \in Path
       /\ blocks[path].key \in Key
       /\ blocks[path].value.node \in 0 .. next - 1 /\ blocks[path].value.entry \in 1 .. next - 1
  /\ heap \subseteq 0 .. next - 1
  /\ next \in 1 .. MaxBlocks + 1
  /\ misfreed \in BOOLEAN
  /\ stage \in {"serving", "left", "right", "entry", "node", "done"} /\ freeing \in Path

(* Whatever was put, replaced, copied and moved before, every place of the *)
(* tree has a live node and a live entry of its own: no link and no entry  *)
(* is used after it is freed, and what one deletion frees no other place   *)
(* needs.  While tree_destroy runs, the nodes that its calls have still to *)
(* read are live.                                                          *)
PlacesOwnTheirs ==
  /\ stage = "serving" =>
       /\ Reachable \subseteq heap
       /\ Cardinality(Reachable) = Cardinality(DOMAIN blocks \cup {<< >>})
                                    + Cardinality(DOMAIN blocks)
       /\ << >> \in DOMAIN blocks => blocks[<< >>].value.node = Top
  /\ stage \in {"left", "right", "entry", "node"} =>
       \A path \in DOMAIN blocks \cup {<< >>} : IsPrefix(path, freeing) => Node(path) \in heap

(* Nothing is freed twice, by deletions or by tree_destroy at the end.     *)
FreedOnce == ~ misfreed

(* What the tree relies on of the heap.                                    *)
HeapSound == BlocksTypeOK /\ PlacesOwnTheirs /\ FreedOnce

(* "Função para libertar toda a memória ocupada por uma árvore" (tree.h):  *)
(* when tree_destroy returns, whatever shape the tree has got, none of its *)
(* nodes and entries is live.                                              *)
DestroyFreesTree == stage = "done" => Reachable \cap heap = {}

(* tree.h: a put of a key that exists replaces the entry "fazendo a        *)
(* necessária gestão da memória": no block is lost on the way.             *)
PutLosesNothing == [][\A key \in Key : PutBlocks(key) => Lost' = Lost]_blocksVars

(* tree.h: tree_del frees "toda a memória alocada na respetiva operação    *)
(* tree_put".                                                              *)
DelFreesPut ==
  [][\A key \in Key : DelBlocks(key) =>
       LET held == blocks[Slot(blocks, key)].value
       IN  {held.node, held.entry} \cap Lost' = {}]_blocksVars
=============================================================================
