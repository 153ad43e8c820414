# A verification project for the replicated key-value tree of Grupo44

The repository (`src/Grupo44`) is a key-value store in C. A server keeps a binary search
tree in memory and executes writes asynchronously: the client gets a number at once and may
ask later whether the write with that number has been executed. Two servers, a primary and a
backup, register in ZooKeeper; clients send writes to the primary, which forwards what it
receives to the backup, and send reads to the backup. This directory holds TLA+ models of
that program, the TLC runs that check them and proofs checked by TLAPS.

## The system

| part | state | operations | talks to |
|---|---|---|---|
| data and entries (`data.c`, `entry.c`) | the blocks they allocate | create, copy, compare, free | the tree |
| search tree (`tree.c`) | linked `struct tree_t` | `tree_put`, `tree_get`, `tree_del`, `tree_size`, `tree_height`, `tree_get_keys` | called by the skeleton |
| skeleton (`tree_skel.c`: `invoke`, `process_task`, `verify`) | the tree, the task list `queue_head`, `last_assigned`, `op_count`, two mutexes, a condition | one function per request; a worker thread executes the queued writes | called by the main loop |
| membership (`tree_skel.c`: `tree_skel_init_private`, `child_watcher`, `conecta`) | znodes `/kvstore/primary` and `/kvstore/backup`, a child watch, `flag_alteracao` | register, promote the backup, connect to the backup, zero the counters | ZooKeeper, the other server |
| forwarding (`tree_skel.c`: `invoke_aux`, `conect_new`) | `rtree->sock_primary` | every request received is written to the backup first | the backup's main loop |
| network (`network_server.c`) | the table `connections` | poll, accept, receive, `invoke_aux`, `invoke`, send | clients, the skeleton |
| framing (`message.c`, both `network_*.c`) | bytes on their way | length, message, reply; one `read` and one `write` each | client and server |
| client stub (`client_stub.c`, `network_client.c`) | two sockets, a child watch, `flag_alteracao` | `rtree_*`; reconnects when the children of `/kvstore` change | both servers, ZooKeeper |
| programs (`tree_client.c`, `tree_server.c`) | none | parse commands and arguments | stub, skeleton |
| protobuf (`sdmessage.pb-c.c`, `protobuf-c.c`) | the blocks of one unpack | sizes, pack, unpack, free | stub, network |

Three threads share a server's memory: the main loop, which serves one request after the
other; the worker, which takes tasks from the list; and ZooKeeper's thread, which runs
`child_watcher`. What is hard in this code:

- the main loop and the worker meet on two locks, one list and one condition; the watcher
  uses no lock at all and zeroes both counters when a second server joins;
- `op_count` and the tree must change together, and the number a client gets must be the
  place of its write in the order of execution;
- the tree's deletion copies and moves nodes, and its search for a successor has a loop
  that need not end, inside both locks;
- ZooKeeper watches fire once and are set after the state they watch was read, znodes
  vanish when a session ends, and three parties (old primary, backup, new server) may act
  on the same two names;
- requests are forwarded without waiting for an answer over a socket that another thread
  replaces, and nobody reads the backup's replies;
- descriptors are closed by one thread while another uses them, and the system gives the
  number to the next connection, in servers and in clients;
- `read_All` and `write_All` call `read` and `write` once, whatever they return;
- `message_t__unpack` allocates and frees along many error paths.

What makes the parts correct: the tree is a dictionary whatever the calls; the server is a
dictionary that executes the accepted writes in order, with exact numbers; there is at most
one primary, and a surviving backup takes over; primary and backup execute the same writes; a
client's sockets lead to the present servers and a reply belongs to its request; what is packed
is unpacked, and every block is freed once.

## The modules

| module | content |
|---|---|
| `Tree` | the algorithms of `tree.c` as operators on a function from paths to entries |
| `TreeStore` | the tree as an object: one action per call of `tree.h`, and the endless loop |
| `KVStore` | what `tree.h` promises: a dictionary. `TreeStore` implements it |
| `Blocks` | the same calls as allocations and frees: which blocks live and which the tree leads to |
| `Server` | one server: main loop, worker and watcher with their locks |
| `AsyncStore` | what a server promises: writes executed one by one in the order of acceptance. `Server` implements it |
| `Membership` | server processes, the two znodes, sessions and watches: start-up and `child_watcher`, one step per ZooKeeper call |
| `Replication` | several servers: receiving, forwarding, enqueueing and replying, with the watcher that moves the connection between them |
| `ClientStub` | a client's two threads, its descriptors, and the servers it talks to |
| `Connections` | a server's descriptors: the poll table, accepts, and what ZooKeeper's thread closes and opens |
| `Framing` | the bytes of requests and replies on one connection |
| `Wire` | sizes, packing and parsing of a `MessageT` as operators on bytes |
| `Unpack` | `message_t__unpack` and the free of its result, allocation by allocation |
| `MCServer`, `MCServerLong`, `MCReplication`, `MCClientStub`, `MCFraming`, `MCUnpack` | instances for TLC; the other modules are checked as they are |
| `TreeTheorems` | theorems about the operators of `Tree` |
| `TreeStoreProofs`, `ServerProofs` | the safety theorems of the two, and that they implement `KVStore` and `AsyncStore`; `TreeStoreProofs` has the theorems of `Blocks` too |
| `MembershipProofs`, `ReplicationProofs`, `ClientStubProofs`, `ConnectionsProofs` | the safety theorems of the four specifications |
| `MessageProofs` | those of `Framing` and `Unpack`, on top of theorems about `Wire`'s operators |

Each component has a specification of its own, at the grain its hazards need, and sees its
neighbours as far as they reach into it: `Server` uses `Tree`'s operators for its data and a put or
del of several lines is one step in it; `Replication` keeps of a server its log and its numbers and
of `Membership` the names and events; `Framing` takes `Wire`'s bytes and leaves out who is at the
other end of a descriptor, which is in `Connections` and `ClientStub`.

**Tree.** A node is named by its path from the top, a sequence of `"left"` and `"right"`; since
`tree_dup` and `entry_dup` copy, no two trees share a node and the path is as good as the
pointer (`Blocks` proves that). Each descent in the C code (`tree_put`, `tree_get`,
`tree_del_aux`) turns the same way at every node, so all of them rest on one operator, `Slot`: the
place where the descent for a key ends. `Graft` is what `tree_del_aux` does with a node of at most
one child; `DelAux` adds the case of two children, where the entry of the successor is copied and
its node deleted. `minValue` in C assigns `arv = tree->left` from the parameter, not from `arv`:
`MinValue` is its result when it ends and `MinValueSpins` the condition under which it never does.
Keys are integers (for `strcmp`), values are opaque.

**Blocks** gives each node of the same tree two blocks, the `struct tree_t` and the entry with
its key, data and bytes, and says of each call what it allocates and frees. Blocks are numbered
and a number is never used twice, so a block freed too early or twice is seen (`misfreed`). It
follows the recursion of `tree_destroy` (`tree.c:25-38`) statement by statement: `freeing` is the node of the
present call and `stage` its next statement; the nodes above it are those whose calls wait, and the
turn by which a call was made tells where its caller goes on. The other calls are one step. The
module shares the operators of `Tree`; its tree is the variable `blocks`, whose values are pairs of
blocks instead of data, so `Value` plays no part in it (`Value = {}` in its configurations).

**Server** has one `pc` per thread. A step is a lock operation or an access to state that
another thread may touch at that moment; what runs under the lock of its data is one step
(the list under `queue_lock`, the tree under `tree_lock`). The counters are loaded and stored
in separate steps, because `child_watcher` writes them without a lock. `accepted`, `done`,
`given` and `resets` are history: they record the writes in the order in which they were queued,
how many were executed, the numbers replied, and how often a second server joined. The
reply of `get` goes through `Found`: the worker keeps `sizeof(task->data)`, eight bytes, of each
value.

**Membership** has one `pc` per server process: the start-up of the main thread up to its first
`zoo_wget_children`, then `"idle"`, then the calls of `child_watcher` for one event. The two never
overlap, because no event comes before the first watch is set. A member of `Servers` is one
process; a restart is another member. ZooKeeper is external and modelled by what the code
relies on: a znode lives as long as the session that created it, a set watch turns the next
change of the children into one event and is gone, and an event waits until the process handles
it. A process that ends, by a crash or one of the many `exit` calls, leaves its session and its
znodes behind until the session times out (`Expire`); the session of a live process may end too,
after which its calls fail and `child_watcher` walks a list that was never filled
(`GarbageChildren`). A server that cannot listen goes on all the same (`tree_server.c:24-26` only
prints it); here every server gets its port. `sock_primary` is the process the link leads to: `Unset` as `malloc` left it,
`Nobody` once the watcher closed it. Not kept: the printed lists, `flag_ativas` (never read),
`flag_alteracao` (chooses a message), the read of `/kvstore/primary` into `dados_main` (never
read), and the reset of the counters, which is in `Server` and `Replication`.

**Replication** has per server the place of its main loop (`receive`, `aux`, the two writes of
`conect_new`, `enqueue`, `reply`) and of its watcher, and per connection the items on their way
(`Length` or a write), the replies nobody reads (`unread`) and whether either end is closed. A
server that is started, with its name, is one step, and the watcher keeps the calls that
matter to the connection: the look-up, the connect and the reset of the counters. The forwarding
of a server that holds no connection goes to whatever `malloc` left, and that of a promoted
backup to itself, as in the code.

**ClientStub** has the place of the main thread in the current call and of `child_watcher`, the
table of descriptors (`fd`), the numbers in `rtree` and the connections behind them; a call looks
up the two names, writes length and message, starts the read and returns what it makes of
the answer. A descriptor number that is closed is given to the next `socket`, and a read that has
begun stays on its connection. `network_connect2` stores the number of the socket before it connects
(`Socket`, then `Connect`), so that a call may write on it in between. `calm` is chosen once: in a
calm world a server's name changes only when the client has handled the last change, in a rough one at
any time, and ZooKeeper merges the changes into one event. The servers take the names as they do in
`Membership`: after a primary's end either the backup takes its name, or a new server that comes
before the backup's watcher does. `usurped` is history and records that the latter happened once. An answer is reduced to the call it answers and yes or no.

**Connections** has what each descriptor of a server names (`file`), the table of `poll`, and
`sock_primary`, which the watcher closes and opens, the new socket before it is connected (`Conecta`,
`ConectaConnect`); `misclosed` records that a thread has
closed a number that was not what it had opened there.

**Framing** carries the bytes of `Wire`'s messages. A read returns any part of what has arrived
(`pieces`), or all of it; what `message_t__unpack` makes of a buffer is the message whose bytes
fill it, or else NULL, a message without an opcode, or a message nobody sent. **Unpack** opens that
up: the scan of all members into slabs that double, the array of unknown fields, their bytes and
the strings, each with an allocation that may fail, and the two clean-ups. Its input is every
contiguous piece of two messages. 32-bit words wrap as in C, in `Wire`.

## The runs

| run | question | bound | states |
|---|---|---|---|
| `tree` | does the tree stay ordered, and is it a dictionary? | 5 keys, 2 values, all sequences of calls | 41 037 |
| `blocks` | is everything the tree leads to alive, and freed once? | 4 keys, 19 allocations, then `tree_destroy` call by call | 4.1 million |
| `server` | numbers, `verify`, the abstract server, executed writes, answered requests, and what `minValue`'s loop stops | any 2 writes of 2 values with one join; or the 7 writes that lead into the loop; any number of reads | 72 201 |
| `membership` | names, addresses and links through starts, crashes and session ends; does a told backup take over? | 3 processes | 166 480 |
| `replication` | does the backup execute the primary's writes, once and in order? | 3 processes that may all crash, 2 writes, 4 items per connection | 1.2 million up to symmetry |
| `replication_fair` | is everybody answered, and does the backup catch up? | 2 processes, 2 writes, 6 items per connection | 28 112 |
| `replication_numbers` | do both servers number a write alike? | | violated |
| `replication_join` | does a primary nobody kills survive a join? | | violated |
| `client` | do the sockets follow the servers, the answers belong to their calls, and does no client outlive the last server? | 3 servers, 3 calls of put, get, verify, 4 descriptors; rough worlds without calls | 5.0 million up to symmetry |
| `connections` | are table and descriptors in agreement, is everybody answered, and accepted while there is room? | 3 clients of a primary, 2 changes of the other server, a table of 3, 7 descriptors | 578 958 |
| `framing` | do requests and replies arrive as they were sent, and does every call come back? | 2 calls, a reply longer than the buffer, any cut of any read | 1.3 million |
| `unpack` | is what arrives whole read as it was sent, and is no block lost or freed twice? | all pieces of all pairs of 7 messages, every allocation failing, a first slab of 2 | 82 497 |

Why the bounds are enough. *tree*: the smallest tree on which `minValue` loops has five nodes, and
five contain every shape of deletion (leaf, one child on either side, two children with the
successor at the top of the right subtree or at its left child). *blocks*: a deletion
copies the subtree that moves up, after the puts that built the tree. With sixteen blocks no node with two
children and a right subtree of two nodes or more was ever deleted; with nineteen every deletion of
every shape of four nodes happens. The loop of `minValue` needs five keys, and nothing is
freed in it. *server*: two writes let one be in the worker's hands while the
other is in the list or on its way there; one join is enough to hit every pair of a load and a
store; seven free writes over five keys are too many states, so `Scripted` lets the writes be two
free ones or follow the shortest way into the loop, and reads interleave freely with both.
*membership*, *replication*: three processes are a primary, a backup and a newcomer that races the
promotion; each may crash once. Two writes have an order and may be mixed up. *client*: three
servers are a pair and the backup that comes after a takeover; of three calls the first leaves
an answer behind, the second takes it and leaves its own, and the third may take that. Calls in rough worlds are left out (`Command` names the bound): they are
more than twenty million states. *connections*: a table of three is full with two clients, so that the
third meets it full, or with an entry that an early leaver has left; two changes are the other server's end
and its successor's start, or the other way round. A backup with a table of four and three changes
(5.4 million states, by hand) is where the watcher closes a number that `poll` has found
readable, and `accept` gives it to another client: the main loop then waits in `read`, and
`misclosed` is set whenever it does. *framing*: with two
calls the rest of one message can be taken for the beginning of the next. *unpack*: the seven
messages have all wire types among their bytes when they are read from the middle, and each of
the fields empty, negative and filled.

`CHECK_DEADLOCK FALSE` stands where the system may stop: all processes gone, all calls made, no
event left, or the worker in its loop.

Each property of a passing run has a mutant in `PROJECT.json`: a form of a modelled definition
with a plausible bug, under which TLC finds the property violated.

**What the properties leave out, and why.** Where the code breaks a stronger property, the run
checks what remains true, and the condition says exactly when: `VerifyExact` and
`NumberedInOrder` until a second server joins; `Consistent` while the backup has one
connection; `RequestsArrive` and `SurvivesWholeReads` as long as no read of the server is short;
`RepliesArrive` as long as none of the client is and replies fit in its buffer; `TableSound`,
`OnlyLeaversClosed`, `AnsweredIfKept` and `AcceptedIfRoom` as long as no thread has closed what is not
its own, and the last one while the table has room and a descriptor is free; `LinksLead` in calm
worlds, and of the primary's socket before the first call and as long as no newcomer has taken the name of
a dead primary before the backup did (the client skips the event that tells of it,
`client_stub.c:45`, and goes on with the backup's socket, `client_stub.c:83`: without `~usurped`
`PrimaryLink` is violated in a calm world without any call); `AnswersAreOwn` for the primary until an answer was taken for a
failure. The tables below show that each condition is needed.

**Fairness.** `Server`: weak fairness of the main thread between `Receive` and its reply, of
the worker and of the watcher's second store: the operating system runs every thread that can
go on. Strong fairness of one step, the worker's `pthread_mutex_lock(&tree_lock)`, because
a main thread that takes and releases the mutex for one read after the other enables and
disables that step for ever; with the wait in `poll` between two requests the worker is woken
and gets the mutex. Nothing is asked of `Receive`, of joins or of spurious wake-ups, and the
liveness properties assume that spurious wake-ups come to an end, which POSIX allows but no
implementation does for ever. Both liveness properties leave out a worker in `minValue`'s loop.
`Membership`: weak fairness of every live process's next call and of the session timeout of a
process that is gone, nothing of starts, crashes or the loss of a live session. `Replication`:
weak fairness of both threads of each server and of session timeouts; a main loop blocked in
`write` is not enabled. `Connections`: of the main loop and of the watcher. `Framing`: of both
sides once a call has begun; nothing makes a client call or leave. `ClientStub`: of both threads
and of the servers' answers.

## Disagreements with the repository's own words

Two are runs that end in a violation: a write that both servers number differently
(`replication_numbers`: `conecta` connects before the counters are zeroed,
`tree_skel.c:143-145`; `client_stub.h:57` says that verify tells whether the operation was
executed), and a primary that ends when a write arrives during a join (`replication_join`:
`private_connect` stores the socket before it is connected, `tree_skel.c:68`;
`client_stub.c:116` tells the user to go on). The others are kept as configurations to be
run by hand; each ends in a violation, of each property named when checked alone.

| configuration (module) | property | what the code does |
|---|---|---|
| `MCTreeDelete` (`TreeStore`) | `DelReturns` | `minValue` loops (`tree.c:176`); `tree.h:44` says `tree_del` returns 0 or -1 |
| `MCServerJoin` (`MCServer`) | `VerifyIdentifies` | a join zeroes the counters with writes queued, and numbers are given twice (`tree_skel.c:144`) |
| `MCServerLong` (`MCServerLong`) | `GetsWhatWasPut` | eight bytes of a value are kept (`tree_skel.c:506`); `tree.h:22-24` says the data are copied |
| `MCMembershipStart` (`Membership`) | `BackupTakesOver` | a backup watches after it registered and never looks at the children that call returns (`tree_skel.c:285`) |
| `MCMembershipRefused` (`Membership`) | `RefusedMeansTwo` | a promoted backup holds both names for a moment (`tree_skel.c:259`) |
| `MCReplicationRestart` (`MCReplication`) | `WritesReachBackup` | a primary started beside a backup gets no event and never connects (`tree_skel.c:285`) |
| `MCReplicationFull` (`MCReplication`) | `Answered` | nobody reads the backup's replies: full buffers block both servers (`network_server.c:75`) |
| `MCReplicationTwice` (`MCReplication`) | `Answered` | a second event with both names there moves the socket between length and bytes; the backup waits for the bytes on the first (`tree_skel.c:561`) |
| `MCClientStubMerged` (`MCClientStub`) | `BackupLink` | the two events `flag_alteracao` skips are not the ones it was set for (`client_stub.c:45`) |
| `MCClientStubShared` (`MCClientStub`) | `PrimaryFollowed` | a failed put closes the shared descriptor and keeps its number, and writes go to the next backup (`network_client.c:190`) |
| `MCClientStubStale` (`MCClientStub`) | `OwnAnswer` | an answer left unread is taken by the next put, which reports a failure (`network_client.c:130`) |
| | `SuccessIsOwn` | and the put after that takes the answer of the one that failed, for a success (`network_client.c:130`) |
| `MCClientStubReturns` (`MCClientStub`) | `NoWildPointer`, `DoneMeansDone` | `rtree_get` returns -1 as a pointer (`client_stub.c:311`, against `client_stub.h:30`); no bytes unpack as a yes to verify (`network_client.c:156`) |
| `MCClientStubSwap` (`MCClientStub`) | `CommandsReturn` | the socket is replaced between write and read, and the read waits for ever (`network_client.c:156`) |
| `MCConnectionsLost` (`Connections`) | `Answered` | a promoted backup closes descriptor 0; the accept that gets it is taken for an error (`network_server.c:53`) |
| | `KeptUntilTheyLeave` | the watcher closes the same number again, which is a client's by then (`tree_skel.c:103`) |
| `MCConnectionsFull` (`Connections`) | `Accepted` | closed entries keep their place in the table (`network_server.c:52`) |
| `MCFramingCut` (`MCFraming`) | `IsTheRequest` | a request in pieces is unpacked from a half-filled buffer (`message.c:23`) |
| `MCFramingLong` (`MCFraming`) | `IsTheReply` | the rest of a long reply is read as the next (`network_client.c:156`) |
| | `Survives` | a client that ends after a length leaves a NULL message whose opcode is looked at (`network_server.c:66`) |
| `MCUnpackSent` (`MCUnpack`) | `SentIsFreed` | the strings of an answered request, and what `tree_get` found, stay allocated (`network_server.c:162`, against `network_server.h:30`) |
| | `SentIsLive` | `invoke` frees the key of a `get` (`tree_skel.c:365`, `tree_skel.c:373`), which `network_send` then measures and packs with the reply (`network_server.c:153-155`) |
| `MCBlocksLost` (`Blocks`) | `PutLosesNothing`, `DelFreesPut` | the replaced entry and the deleted node are not freed (`tree.c:58`, `tree.c:142`, against `tree.h:24-26` and `tree.h:42-43`) |

## The proofs

Everything below holds for every value of the constants, under the assumptions named in the
modules: keys are integers, `NULL` is no value, the length of a value is a natural number, the
numbers asked about are integers, the bounds are natural numbers, messages are in `MessageT`, the
first slab holds at least one member.

*The tree.* `WellFormed` is a type and a bound on the depth; finiteness is not needed. `DescentEnds`
shows by induction on that bound (the well-founded induction of the library, over the depth
left) that `Slot` is defined: everything else rests on it. `Ordered` restates the search order for
pairs of nodes, one below the other: whatever lies below a node on one side has a key on that
side. It is equivalent to `SearchOrder` (`OrderedIsSearchOrder`), which descends from the top, and
unlike it survives a move of a subtree by simple arithmetic on paths. `PutOrdered`,
`GraftOrdered` and `CopyOrdered` are the three ways of changing a tree; the last needs
`SuccessorSeparates`, that the entry found by `minValue`, when it ends, lies between the deleted
key and the rest of the right subtree. `DelOrdered` joins them. `TreeStoreProofs` derives
`[]TypeOK` and `[]KeysReachable` from the inductive invariant `TypeOK /\ WellFormed /\ Ordered`.

*The memory of the tree* (`HeapIsSound`, `DestroyFrees`). `HeapSound` counts the blocks the tree
leads to, which no step can be shown to keep; the invariant behind it, `HeapInv`, says why the count
is right: the tree is `Owning`, that is each place has a node and an entry, no two blocks of two
places are the same, and only the top has the structure of `tree_skel_init`; its blocks are live;
and every live block has a number below `next`, so that what a call allocates is new.
Each operation is then one lemma about `Owning`. `PlaceOwned`: a place that gets a new entry, in
`tree_put` or as the copy of a successor's. `CopiedIs`: `tree_dup` gives the places of a subtree two
fresh blocks each and leaves the others theirs (`OrderIs`: the numbering it uses goes through
all of the subtree). `MovedOwned`: the node and the entry of each place that is left come from two
places of the old tree, and no place takes the entry of the deleted one (`GraftSources`: where
places come from is one to one, and never the place that goes). So the entry that
`tree_del_aux` destroys is live and no place of the new tree has it. `CountBlocks` turns `Owning`
back into the count. The descent is only needed to end (`DescentEnds`): the memory is sound in
a tree whose search order is lost, too. While `tree_destroy` runs, the invariant is `Walk`: a call has freed the subtrees of
the links it has followed, and only those; before it begins its whole subtree is live, and after
it has returned none of it is. So each free is of a live block, and when the call for the top
returns, every node has been freed with its entry, since each hangs on one above it (`Hanging`). What the tree does not lead to any more is not claimed to be
freed: that is what `MCBlocksLost` refutes.

*The tree is a dictionary* (`IsADictionary`: `Spec => ImplementsDictionary`, step by step). In an
ordered tree the descent for the key of a node ends at that node (`NodeOfKey`), so no two nodes have
the same key (`KeysAreUnique`) and `Contents`, the function from keys to values that the tree
stands for, is defined by its nodes. From this `tree_get` reads `Contents` (`GetFromContents`),
`tree_put` updates it at one key (`PutUpdates`), and `tree_del`, when `minValue` ends, takes one
key away (`DelRemoves`); with two children that rests on the copied successor and the deleted one
being the same entry. `tree_size` is the number of keys, since nodes and keys
correspond one to one. What `tree_height` returns is at most one more than the size, and the
size less than 2 to its power (`HeightFitsSize`): the nodes on the way to a deepest one give the
first; for the second every path of a tree of h levels is marked by its length and its turns to
the right, a subset of 1..h that no other path has, and the library counts subsets. For `tree_get_keys`,
the order in which `colocaArray` goes through the nodes is total and transitive, so each node takes
a place of its own and none stays empty (`EveryPlaceOnce`, `KeysOfTree`).

*The server.* The inductive invariant `IInv` adds to the checked invariants what they need:
which thread holds which lock at which place (`QueueLocked`, `TreeLocked`), that a thread at work
has a request of the right kind in its hands (`InHand`), that `op_count`, and the value the worker
is about to store in it, never exceed the writes executed (`Counts`), and that until a second
server joins both counters are exact except between the load and the store (`Undisturbed`). One
lemma per part shows that every step keeps it, and the theorems of `ServerProofs` follow:
types, no lost write, no race on the tree (`NoTreeRace`, which follows from the locks and is in no
run), numbers that are places, `verify` that is never early whatever the resets and exact until
the first one, and the server that stops for good once `minValue` loops.

*The server keeps its promise* (`KeepsItsPromise`: `Spec => ImplementsAsyncStore`). Two conjuncts of `IInv`
serve the refinement: the tree is ordered, so that the lemmas of `TreeTheorems` turn each reply and
the worker's step into those of a dictionary; and `last_assigned` never runs ahead of the
accepted writes (`Assigned`), so that the number of a write is one the abstract server may give. The
step of the worker that changes the tree is the abstract `Execute`, the step that
queues is `Accept`, the others are replies or stutter. The theorem has one hypothesis, `FitsInPointer`: the values
have fewer than eight characters. Without it the promise is broken, since the worker keeps
`sizeof(task->data)` bytes (`tree_skel.c:506`, run `MCServerLong` by hand).

*Membership.* For any set of processes. The inductive invariant has two parts. `NamesOf(s)` says which
names server `s` holds at each place of its code; it shows that a watcher that finds no primary,
and holds a name, must hold the backup's, so what it reads, publishes and deletes is its own.
`ViewOf(s)` says that a watching server without an event has its watch set, and that then what it
concluded from the children is still so. A step of one server leaves the memory of the others
alone (`OthersStandStill`) and every step that changes a znode tells those that watch
(`OthersHearStep`); with these two lemmas only the server that moves has to be looked at.

*Replication.* `Consistency` and `WriteOnlyOnce` hold for any number of processes that start, crash
and take over, any number of writes and any size of buffers. Both speak of writes that may be in
seven places on their way, so the inductive invariant first settles the ground: who holds the names
(`Names`), that a process that has not started or has ended is at rest (`AtRest`), that only
the primary is linked to another server and a descriptor leads to a connection of its own
(`Links`), whose request a main loop works on (`Hands`), and that a backup nobody has connected to has done
nothing (`Untouched`). `Framed` says that lengths and messages alternate in every stream and that
where a message is expected no length is read, although the watcher replaces the
socket between the two writes; `Flow`, that the last item of a stream tells between which of its two
writes the sender is. `Issued`, `NotAhead` and `Once` place the writes: none is newer than the last one
issued, what the primary has yet to forward the backup does not have, and a write is in one place of one
server. On these stands `KeepsUp`, which is `BackupFollows` for each link by its number: what the
backup has executed, what it holds and what is in the stream, one after the other, are the
end of what the primary has executed and passed on. Because the items alternate, the writes of a
stream are counted by their positions. Each of the handlers is first shown to change
the connections in one of a few ways (`StepActs`: it sends or takes one item, shuts, cuts,
adds, or ends), and each part of the invariant is then shown to survive these ways; that is
what keeps thirteen parts times sixteen steps readable.

*Bytes.* `MessageProofs` first shows that `unzigzag32` undoes `zigzag32` and that `parse_uint32` reads
back what `uint32_pack` wrote, both for all 2^32 words, wrapped ones included, by the sign and by
the number of bytes; and that the size computed before a message is packed is the number of
bytes the packing writes (`PackedSizeIsLength`), member by member. Different messages have
different bytes (`PackTellsMessages`): a varint ends at its first byte below 128, so that the codes of
two values are no prefixes of one another, and a field that is left out is seen at the first byte
of the next one.

*Framing.* The invariants hold for any number of calls, any messages and any cut of any read.
`RequestsAlwaysArrive` rests on `InStep`: while no read of the server was short, the stream to it
is what the client has written after what the server has read. `Chain` says what follows each
request in all that was written, the last one of which may lack its bytes or its length too;
`Position` says where in it the server is, at a length or, knowing the length, at a message. Such
a message is read whole, so it is unpacked to the request that has its bytes, and to no other
(`PackTellsMessages`). `WholeReadsAreSurvived` adds that every length is one malloc has room for.
`RepliesAlwaysArrive` rests on `OneAtATime`: when a read takes all there is, and no reply is longer than the
buffer, the two streams hold the present call's length, its bytes, or its reply, one after the other,
and nothing else. The first and the third need that an int counts the bytes of a request
(`FitsInInt`), the second that malloc has room for them (`FitsInMemory`): no message of the program comes near
either limit, and beyond them the length that is sent is another number.

*The client.* `ClientStubProofs` is for any number of servers, calls and descriptors. `SocketsLead`
speaks of a calm world, in which the next server changes only when the client has seen the last
change; what makes it hard is `flag_alteracao`, which a takeover sets to skip the events it is about to
cause. `Situation` says what it stands for: at every place of the thread, and for every pair of names, the
number of child events that the takeover has yet to cause. A newcomer that takes the primary's name
before the backup does (`usurped`) makes the count fall on other events; which ones the invariant says too, and
the claim for the primary's socket ends there, while that for the backup's does not. With it the address that `child_watcher`
compares is the backup's or about to be read (`Address`), the backup's socket leads to that address
(`BackupFollows`), and, until a call has closed a descriptor or a newcomer was first, the primary's socket follows its
name through a takeover (`PrimaryFollows`); for the last the two sockets must be known to differ whenever
the thread may close the backup's (`Apart`). `AnswersBelong` rests on none of that (calls are made in
calm worlds only, a bound of the model, but its proof does not use it): whatever the thread does to the
sockets, on each connection requests and replies come in the order of the calls
and are at most as new as the present one (`InTurn`). So it is enough to say that the backup's present
connection carries nothing a server will still answer, or just the request or reply of the present call
(`Still`, `InUse`), and that on the primary's what is left over belongs to calls for the backup, whose
replies carry another opcode and end a call in a failure (`Tame`), after which nothing is claimed.
`NobodyLeftBehind` needs only that the watch is set or an event tells why it is not (`Watched`). The steps
of servers and ZooKeeper are shown to keep all this for one connection (`OthersKept`); those of the main
thread go one by one.

*Descriptors.* In `ConnectionsProofs` the invariant follows what the main loop knows of the table: what `poll`
reported of an entry stays true until the loop has passed it (`Polled`, `Working`), no two
entries have the same number (`Distinct`), whoever hung up, and whoever is about to be closed, has
left (`Leavers`), and descriptor 0 stays what it was, so that every accept enters
the table (`Kept`). All of it holds while no thread has closed what was not its own, and gives
`TableSound` and `OnlyLeaversClosed` for any number of clients and descriptors. The attempt
showed that the entries are only known to be right while the process runs: it may end between
a close and the store of -1.

*Unpack.* `BufferIsFilled` is that last theorem for the buffers client and server allocate. The
memory rests on an inductive invariant of two parts: `Shape`, the types of what is left to scan,
of the scanned members and of the message under construction; and `Live`, which names the exact
set of live blocks at every place of the function and says that each string of the message is
the copy of one known member (`PointersOwn`), so that no block has two owners. With `Live` each free is seen to free live blocks
only (`NothingMisfreed`), and at the end nothing is live but what the message owns
(`NothingLost`), for all messages, all pieces of them and all allocations that fail.

That what is read is what was sent (`WhatIsReadWasSent`) needs both loops of the function followed
on the bytes. Between them the two messages have ten places for a field (`PartAt`), some of
which are empty; `After(p)` is what is written from place p on. The invariant `ReadInv` says
that what is left to scan, together with what the read did not deliver (`Cut`), is `After` of
some place; that the scanned members are those of the fields written before it, in the order of
their places (`PlacedIn`); and that the message under construction holds, field by field, what
the members parsed so far say (`Expect`), the last of two with the same number winning. A step of
`Scan` meets the next written field (`ScanMeets`), because a field's first byte tells its number and its
wire type, its varint or length ends where the packer ended it (the lemmas about `Wire`) and
whatever the cut took away leaves either the whole field or no member; a step of `ParseMember` stores
the value that was packed (`ValueOfCode`). At the end nothing is left to scan: whole messages were never
refused, and a message that is cut lacks a written field, so it is not the one sent. The
types that this rests on (`Typed`) include the number of members in the slabs, each twice as
large as the one before. `SlabSize` is a recursive function; what the proof needs of it is shown by
the least number without such sizes, which does not exist (`SlabsExist`, `SlabsAgree`, `SlabSizeIs`).

Each inductive invariant was checked with TLC on the bounds of its run before it was proved.

*Only model-checked*: all liveness, which is beyond the prover. Every invariant that a run checks is
proved.

## Not modelled

- The parsing and printing of commands, the arguments of the programs, and the formatting of
  keys and addresses into strings.
- Sizes of keys and values in memory: blocks have none. `entry_dup` copies a key of any length
  into the eight bytes of a pointer (`entry.c:43`), which no model shows; of a value's eight bytes
  `Server`'s `Found` tells.
- `data_create`, `data_replace`, `entry_replace` and `entry_initialize`, which the tree does not
  call; memory that the callers of `tree_get` and `tree_get_keys` never free, and the tasks of
  the queue.
- What `protobuf-c.c` has for other messages: repeated, optional and oneof fields, the other
  types, append buffers, look-ups by name, services, `protobuf_c_message_check`. None of it is
  reached with `MessageT`.
- Requests other than writes in `Replication` (they are forwarded the same way and change no log),
  and in `Server` the forwarding itself.
- The insides of ZooKeeper, TCP and the system's descriptor table: they are external, each
  modelled in its module by what the code relies on.

## What is left

Calls of a client in rough worlds, once they can be cut down to those that meet a change.
