------------------------------- MODULE Server -------------------------------
(***************************************************************************)
(* One tree-server process (source/tree_skel.c): the three threads that     *)
(* share the tree, the task queue and the two operation counters.           *)
(*                                                                         *)
(*   main     network_main_loop calling invoke, one request at a time       *)
(*   worker   process_task, which executes the queued writes                *)
(*   watcher  the ZooKeeper thread, whose child_watcher zeroes the counters *)
(*            when a second server joins                                    *)
(*                                                                         *)
(* A step is a lock operation, or an access to state that another thread    *)
(* can touch at that moment.  Accesses made under the lock that guards the  *)
(* data they touch are joined into one step; the counters are accessed by   *)
(* plain loads and stores, each one a step.                                 *)
(***************************************************************************)
EXTENDS Tree

CONSTANTS Chars,        \* the length of each value as a string
          Garbled,      \* a string that no client stored
          Asked,        \* the operation numbers that clients ask about
          MaxRequests,  \* bound: write requests in a behaviour
          MaxResets     \* bound: joins of a second server in a behaviour

ASSUME CharsAssumption == Chars \in [Value -> Nat]
ASSUME AskedAssumption == Asked \subseteq Int
ASSUME BoundsAssumption == MaxRequests \in Nat /\ MaxResets \in Nat

VARIABLES tree,           \* the tree
          queue,          \* the list at queue_head
          last_assigned,  \* the number of the last accepted write
          op_count,       \* how many writes have been executed
          queue_lock,     \* the thread that holds queue_lock
          tree_lock,      \* the thread that holds tree_lock
          pc,             \* what each thread does next
          request,        \* the request main works on
          task,           \* the task the worker has taken
          register,       \* the counter value each thread has loaded
          answer,         \* the reply just sent, NoAnswer once main goes on
          accepted,       \* history: the writes, in the order they were queued
          done,           \* history: how many of them the worker has executed
          given,          \* history: the number replied for each of them
          resets          \* history: how often the counters were zeroed

data == <<tree, queue, last_assigned, op_count>>
locks == <<queue_lock, tree_lock>>
history == <<accepted, done, given, resets>>
vars == <<data, locks, pc, request, task, register, answer, history>>

Thread == {"main", "worker", "watcher"}

Put == [op : {"put"}, key : Key, value : Value]
Del == [op : {"del"}, key : Key]
Write == Put \cup Del
Read == [op : {"get"}, key : Key] \cup [op : {"verify"}, number : Asked]
        \cup [op : {"size", "height", "getkeys"}]

NoRequest == [op |-> "none"]
NoAnswer == <<"nobody">>

Init == /\ tree = EmptyTree
        /\ queue = << >>
        /\ last_assigned = 0
        /\ op_count = 0
        /\ queue_lock = "free"
        /\ tree_lock = "free"
        /\ pc = [main |-> "idle", worker |-> "lock queue", watcher |-> "idle"]
        /\ request = NoRequest
        /\ task = NoRequest
        /\ register = [main |-> 0, worker |-> 0]
        /\ answer = NoAnswer
        /\ accepted = << >>
        /\ done = 0
        /\ given = << >>
        /\ resets = 0

Goes(thread, from, to) == pc[thread] = from /\ pc' = [pc EXCEPT ![thread] = to]

TakesQueueLock(thread) == /\ queue_lock = "free"
                          /\ queue_lock' = thread
                          /\ UNCHANGED tree_lock

\* Mutant of TakesTreeLock: the tree is used without its lock.
SkipsTreeLock(thread) == UNCHANGED locks

TakesTreeLock(thread) == /\ tree_lock = "free"
                         /\ tree_lock' = thread
                         /\ UNCHANGED queue_lock

-----------------------------------------------------------------------------
(* The main thread: network_main_loop hands a request to invoke and sends   *)
(* the reply.                                                               *)

Receive(message) ==
    /\ message \in Write => Len(accepted) < MaxRequests
    /\ Goes("main", "idle", IF message \in Write THEN "lock queue" ELSE "lock tree")
    /\ request' = message
    /\ answer' = NoAnswer
    /\ UNCHANGED <<data, locks, task, register, history>>

MainLocksQueue == /\ Goes("main", "lock queue", "load")
                  /\ TakesQueueLock("main")
                  /\ UNCHANGED <<data, request, task, register, answer, history>>

\* last_assigned += 1, in two steps: the watcher may write in between.
LoadAssigned == /\ Goes("main", "load", "store")
                /\ register' = [register EXCEPT !.main = last_assigned]
                /\ UNCHANGED <<data, locks, request, task, answer, history>>

StoreAssigned == /\ Goes("main", "store", "enqueue")
                 /\ last_assigned' = register.main + 1
                 /\ UNCHANGED <<tree, queue, op_count, locks, request, task,
                                register, answer, history>>

\* Mutant of Signalled: nobody calls pthread_cond_signal.
NotSignalled == pc.worker

\* The worker sleeping in pthread_cond_wait wakes up and wants its lock back.
Signalled == IF pc.worker = "wait" THEN "lock queue" ELSE pc.worker

\* Mutant of Lengthened: the task is put in front of the list.
PutInFront == <<request>> \o queue

Lengthened == Append(queue, request)

\* The task goes to the end of the list, the worker is signalled and the
\* queue unlocked: nobody else looks at the list before that.
Enqueue == /\ pc.main = "enqueue"
           /\ pc' = [pc EXCEPT !.main = "number", !.worker = Signalled]
           /\ queue' = Lengthened
           /\ queue_lock' = "free"
           /\ accepted' = Append(accepted, request)
           /\ UNCHANGED <<tree, last_assigned, op_count, tree_lock, request,
                          task, register, answer, done, given, resets>>

\* Mutant of Number: the number that task->op_n got before the increment.
TaskNumber == last_assigned - 1

\* The reply's data_size is read from last_assigned after the unlock.
Number == last_assigned

NumberWrite == /\ Goes("main", "number", "idle")
               /\ answer' = <<"write", Number>>
               /\ given' = Append(given, Number)
               /\ request' = NoRequest
               /\ UNCHANGED <<data, locks, task, register, accepted, done, resets>>

MainLocksTree == /\ Goes("main", "lock tree", "read")
                 /\ TakesTreeLock("main")
                 /\ UNCHANGED <<data, request, task, register, answer, history>>

\* The worker keeps sizeof(task->data), the size of a pointer, of a value; a
\* shorter string fits with its NUL.  The reply is the string found there: of
\* a longer value it is the first characters and whatever follows in memory.
PointerSize == 8

Found(value) ==
    IF value = NoValue \/ Chars[value] < PointerSize THEN {value}
    ELSE IF Chars[value] = PointerSize THEN {value, Garbled}
    ELSE {Garbled}

\* Mutant of Verified: the number is compared with the wrong counter.
VerifiedWhenAssigned(number) == number <= last_assigned

\* verify(op_n) compares with op_count.
Verified(number) == number <= op_count

Replies(message) ==
    CASE message.op = "get" ->
            {<<"get", message.key, found>> : found \in Found(TreeGet(tree, message.key))}
      [] message.op = "size" -> {<<"size", TreeSize(tree)>>}
      [] message.op = "height" -> {<<"height", TreeHeight(tree)>>}
      [] message.op = "getkeys" -> {<<"getkeys", TreeKeys(tree)>>}
      [] message.op = "verify" ->
            {<<"verify", message.number, Verified(message.number)>>}

\* Mutant of AnswerRead: the return for a missing key forgets the unlock.
AnswerKeepsLock == /\ Goes("main", "read", "idle")
                   /\ answer' \in Replies(request)
                   /\ tree_lock' = IF request.op = "get" /\ answer'[3] = NoValue
                                    THEN "main" ELSE "free"
                   /\ request' = NoRequest
                   /\ UNCHANGED <<data, queue_lock, task, register, history>>

AnswerRead == /\ Goes("main", "read", "idle")
              /\ answer' \in Replies(request)
              /\ tree_lock' = "free"
              /\ request' = NoRequest
              /\ UNCHANGED <<data, queue_lock, task, register, history>>

Main == \/ \E message \in Write \cup Read : Receive(message)
        \/ MainLocksQueue \/ LoadAssigned \/ StoreAssigned \/ Enqueue \/ NumberWrite
        \/ MainLocksTree \/ AnswerRead

-----------------------------------------------------------------------------
(* The worker: process_task.                                                *)

WorkerLocksQueue == /\ Goes("worker", "lock queue", "check")
                    /\ TakesQueueLock("worker")
                    /\ UNCHANGED <<data, request, task, register, answer, history>>

\* pthread_cond_wait sleeps and gives the lock away, in one step.
WaitForTask == /\ queue = << >>
               /\ Goes("worker", "check", "wait")
               /\ queue_lock' = "free"
               /\ UNCHANGED <<data, tree_lock, request, task, register, answer, history>>

\* POSIX allows pthread_cond_wait to return although nobody signalled.
WakeSpuriously == /\ Goes("worker", "wait", "lock queue")
                  /\ UNCHANGED <<data, locks, request, task, register, answer, history>>

\* Mutant of TakeTask: the queue is unlocked once the task is taken.
TakeTaskUnlocks == /\ queue # << >>
                   /\ Goes("worker", "check", "lock tree")
                   /\ task' = Head(queue)
                   /\ queue' = Tail(queue)
                   /\ queue_lock' = "free"
                   /\ UNCHANGED <<tree, last_assigned, op_count, tree_lock, request,
                                  register, answer, history>>

TakeTask == /\ queue # << >>
            /\ Goes("worker", "check", "lock tree")
            /\ task' = Head(queue)
            /\ queue' = Tail(queue)
            /\ UNCHANGED <<tree, last_assigned, op_count, locks, request,
                           register, answer, history>>

WorkerLocksTree == /\ Goes("worker", "lock tree", "apply")
                   /\ TakesTreeLock("worker")
                   /\ UNCHANGED <<data, request, task, register, answer, history>>

Applied == IF task.op = "put" THEN TreePut(tree, task.key, task.value)
           ELSE TreeDel(tree, task.key)

Hangs == task.op = "del" /\ DelSpins(tree, task.key)

ApplyTask == /\ ~Hangs
             /\ Goes("worker", "apply", "load")
             /\ tree' = Applied
             /\ done' = done + 1
             /\ UNCHANGED <<queue, last_assigned, op_count, locks, request,
                            task, register, answer, accepted, given, resets>>

\* minValue never returns; the worker keeps both locks.
ApplyHangs == /\ Hangs
              /\ Goes("worker", "apply", "spin")
              /\ UNCHANGED <<data, locks, request, task, register, answer, history>>

\* A turn of the loop in minValue.
Spin == pc.worker = "spin" /\ UNCHANGED vars

LoadCount == /\ Goes("worker", "load", "store")
             /\ register' = [register EXCEPT !.worker = op_count]
             /\ UNCHANGED <<data, locks, request, task, answer, history>>

\* Mutants of Counted: the counter runs down; deletes are not counted.
CountedDown == register.worker - 1

CountedPuts == IF task.op = "put" THEN register.worker + 1 ELSE op_count

\* op_count += 1, for a delete whatever tree_del returned; tree_put is never
\* called with what makes it fail.
Counted == register.worker + 1

\* tree_lock and queue_lock are released after the count.
StoreCount == /\ Goes("worker", "store", "lock queue")
              /\ op_count' = Counted
              /\ tree_lock' = "free"
              /\ queue_lock' = "free"
              /\ task' = NoRequest
              /\ UNCHANGED <<tree, queue, last_assigned, request, register,
                             answer, history>>

Worker == \/ WorkerLocksQueue \/ WaitForTask \/ WakeSpuriously \/ TakeTask
          \/ WorkerLocksTree \/ ApplyTask \/ ApplyHangs \/ Spin \/ LoadCount \/ StoreCount

-----------------------------------------------------------------------------
(* The watcher: child_watcher with two children zeroes both counters and    *)
(* takes no lock for it.                                                    *)

ZeroCount == /\ resets < MaxResets
             /\ Goes("watcher", "idle", "zero assigned")
             /\ op_count' = 0
             /\ resets' = resets + 1
             /\ UNCHANGED <<tree, queue, last_assigned, locks, request, task,
                            register, answer, accepted, done, given>>

ZeroAssigned == /\ Goes("watcher", "zero assigned", "idle")
                /\ last_assigned' = 0
                /\ UNCHANGED <<tree, queue, op_count, locks, request, task,
                               register, answer, history>>

Watcher == ZeroCount \/ ZeroAssigned

Next == Main \/ Worker \/ Watcher

Spec == Init /\ [][Next]_vars

\* A thread that can go on does so in the end, and the worker is not passed
\* over for ever by a main thread that takes tree_lock for one read after the
\* other: main waits in poll and recv between two requests, and the worker
\* asleep on the mutex is woken by every unlock.  No fairness for Receive (the
\* clients may stay silent), ZeroCount (servers join when they like) and
\* WakeSpuriously.
MainGoesOn == \/ MainLocksQueue \/ LoadAssigned \/ StoreAssigned \/ Enqueue
              \/ NumberWrite \/ MainLocksTree \/ AnswerRead

WorkerGoesOn == \/ WorkerLocksQueue \/ WaitForTask \/ TakeTask \/ WorkerLocksTree
                \/ ApplyTask \/ ApplyHangs \/ LoadCount \/ StoreCount

FairSpec == /\ Spec
            /\ WF_vars(MainGoesOn)
            /\ WF_vars(WorkerGoesOn)
            /\ SF_vars(WorkerLocksTree)
            /\ WF_vars(ZeroAssigned)

-----------------------------------------------------------------------------
(* Properties *)

Lock == {"free", "main", "worker"}

Places == [main : {"idle", "lock queue", "load", "store", "enqueue", "number",
                   "lock tree", "read"},
           worker : {"lock queue", "check", "wait", "lock tree", "apply", "spin",
                     "load", "store"},
           watcher : {"idle", "zero assigned"}]

TypeOK ==
    /\ tree \in [DOMAIN tree -> Entry]
    /\ DOMAIN tree \subseteq Path
    /\ queue \in Seq(Write)
    /\ last_assigned \in Nat
    /\ op_count \in Nat
    /\ queue_lock \in Lock
    /\ tree_lock \in Lock
    /\ pc \in Places
    /\ request \in Write \cup Read \cup {NoRequest}
    /\ task \in Write \cup {NoRequest}
    /\ register \in [main : Nat, worker : Nat]
    /\ accepted \in Seq(Write)
    /\ done \in Nat
    /\ given \in Seq(Nat)
    /\ resets \in Nat

\* The write that the worker has taken and not executed yet.
InFlight == IF pc.worker \in {"lock tree", "apply", "spin"} THEN <<task>> ELSE << >>

\* Between the main thread's append and the worker's take no write is lost,
\* executed twice or overtaken: the writes not executed yet are the one in
\* the worker's hands followed by the list at queue_head (invoke,
\* process_task), whatever the watcher does to the counters.
Backlog == SubSeq(accepted, done + 1, Len(accepted)) = InFlight \o queue

\* invoke reads the tree only while the worker is not changing it.
TreeRaceFree ==
    ~(pc.main = "read" /\ pc.worker \in {"apply", "spin", "load", "store"})

\* verify(n) says yes only when at least n writes are executed, however the
\* resets of child_watcher fall between the loads and stores of the others.
VerifyNeverEarly ==
    [][(answer'[1] = "verify" /\ answer' # answer /\ answer'[3])
        => answer'[2] <= done]_vars

\* As long as no second server joined, the number in the reply to a write is
\* its place in the order of execution.
NumberedInOrder == resets = 0 => \A place \in DOMAIN given : given[place] = place

\* As long as no second server joined, verify(n) says yes exactly when the
\* write that got the number n is executed: the count and the tree change
\* together for whoever holds tree_lock.
VerifyExact ==
    [][(resets = 0 /\ answer'[1] = "verify" /\ answer' # answer) =>
        \A place \in DOMAIN given :
            given[place] = answer'[2] => (answer'[3] <=> place <= done)]_vars

\* "Verifica se a operação identificada por op_n foi executada"
\* (include/client_stub.h): the same, whether servers join or not.
VerifyIdentifies ==
    [][(answer'[1] = "verify" /\ answer' # answer) =>
        \A place \in DOMAIN given :
            (given[place] = answer'[2] /\ answer'[3]) => place <= done]_vars

\* The queue, the tree and the locks together are the abstract server: the
\* clients see the accepted writes take effect in order.
Promise == INSTANCE AsyncStore WITH contents <- Contents(tree)
ImplementsAsyncStore == Promise!Spec

\* A write that stays in the queue is executed in the end: the worker misses
\* no signal and is never shut out by the main thread, unless minValue loops.
WritesExecuted ==
    (<>[][~WakeSpuriously]_vars) =>
        \A place \in 1..MaxRequests :
            Len(accepted) >= place ~> (done >= place \/ pc.worker = "spin")

\* Every request is answered, unless minValue loops.
RequestsAnswered ==
    (<>[][~WakeSpuriously]_vars) => (pc.main # "idle" ~> (pc.main = "idle" \/ pc.worker = "spin"))

\* When minValue loops, the worker keeps both locks for good and no client
\* gets an answer any more, except the one whose write is queued already.
SpinBlocksAll ==
    [][pc.worker = "spin" =>
        /\ queue_lock' = "worker" /\ tree_lock' = "worker"
        /\ accepted' = accepted
        /\ answer' \in {answer, NoAnswer, <<"write", last_assigned>>}]_vars

\* "Função para obter da árvore o valor associado à chave key" (tree_get in
\* include/tree.h): the reply to a get is a value that a client stored.
GetsWhatWasPut == [][answer'[1] = "get" => answer'[3] \in Value \cup {NoValue}]_vars
=============================================================================
