---------------------------- MODULE ServerProofs ----------------------------
(***************************************************************************)
(* The safety of Server for every set of keys, values and bounds.  What      *)
(* TLC checks on an instance rests on an inductive invariant: who holds the *)
(* locks, what the threads have in their hands, and how far the counters    *)
(* and the queue are from the writes that were accepted and executed.  With  *)
(* it the three threads implement the server that AsyncStore promises.      *)
(***************************************************************************)
EXTENDS Server, TreeTheorems

\* Who holds queue_lock and tree_lock, by where the threads are.
QueueLocked ==
    /\ queue_lock = "main" <=> pc.main \in {"load", "store", "enqueue"}
    /\ queue_lock = "worker" <=>
            pc.worker \in {"check", "lock tree", "apply", "spin", "load", "store"}

TreeLocked ==
    /\ tree_lock = "main" <=> pc.main = "read"
    /\ tree_lock = "worker" <=> pc.worker \in {"apply", "spin", "load", "store"}

\* What the threads have in their hands.
InHand ==
    /\ pc.main \in {"lock queue", "load", "store", "enqueue", "number"} => request \in Write
    /\ pc.main \in {"lock tree", "read"} => request \in Read
    /\ pc.worker \in {"lock tree", "apply", "spin", "load", "store"} => task \in Write

\* op_count never runs ahead of the executed writes, nor does the value that
\* the worker is about to store in it.
Counts ==
    /\ done <= Len(accepted)
    /\ op_count <= done
    /\ pc.worker \in {"load", "store"} => op_count + 1 <= done
    /\ pc.worker = "store" => register.worker + 1 <= done

\* Until a second server joins, both counters are exact but for the steps in
\* which they are being changed.
Undisturbed ==
    resets = 0 =>
        /\ pc.watcher = "idle"
        /\ last_assigned = IF pc.main = "enqueue" THEN Len(accepted) + 1 ELSE Len(accepted)
        /\ pc.main = "store" => register.main = Len(accepted)
        /\ done = IF pc.worker \in {"load", "store"} THEN op_count + 1 ELSE op_count
        /\ pc.worker = "store" => register.worker = op_count
        /\ Len(accepted) = IF pc.main = "number" THEN Len(given) + 1 ELSE Len(given)

\* last_assigned never runs ahead of the accepted writes, nor does the value
\* that the main thread is about to store in it.
Assigned ==
    /\ last_assigned <= IF pc.main = "enqueue" THEN Len(accepted) + 1 ELSE Len(accepted)
    /\ pc.main = "store" => register.main <= Len(accepted)

IInv == /\ TypeOK
        /\ WellFormed(tree)
        /\ Ordered(tree)
        /\ QueueLocked
        /\ TreeLocked
        /\ InHand
        /\ Backlog
        /\ Counts
        /\ Assigned
        /\ Undisturbed
        /\ NumberedInOrder
-----------------------------------------------------------------------------
(* Locks *)

LEMMA LocksStep ==
    ASSUME pc \in Places, QueueLocked, TreeLocked, [Next]_vars
    PROVE  pc' \in Places /\ QueueLocked' /\ TreeLocked'
<1> USE DEF Places, QueueLocked, TreeLocked, Goes, locks
<1>1. ASSUME NEW message \in Write \cup Read, Receive(message)
      PROVE  pc' \in Places /\ QueueLocked' /\ TreeLocked'
    BY <1>1 DEF Receive
<1>2. CASE MainLocksQueue
    BY <1>2 DEF MainLocksQueue, TakesQueueLock
<1>3. CASE LoadAssigned
    BY <1>3 DEF LoadAssigned
<1>4. CASE StoreAssigned
    BY <1>4 DEF StoreAssigned
<1>5. CASE Enqueue
    BY <1>5 DEF Enqueue, Signalled
<1>6. CASE NumberWrite
    BY <1>6 DEF NumberWrite
<1>7. CASE MainLocksTree
    BY <1>7 DEF MainLocksTree, TakesTreeLock
<1>8. CASE AnswerRead
    BY <1>8 DEF AnswerRead
<1>9. CASE WorkerLocksQueue
    BY <1>9 DEF WorkerLocksQueue, TakesQueueLock
<1>10. CASE WaitForTask
    BY <1>10 DEF WaitForTask
<1>11. CASE WakeSpuriously
    BY <1>11 DEF WakeSpuriously
<1>12. CASE TakeTask
    BY <1>12 DEF TakeTask
<1>13. CASE WorkerLocksTree
    BY <1>13 DEF WorkerLocksTree, TakesTreeLock
<1>14. CASE ApplyTask
    BY <1>14 DEF ApplyTask
<1>15. CASE ApplyHangs
    BY <1>15 DEF ApplyHangs
<1>16. CASE Spin
    BY <1>16 DEF Spin, vars
<1>17. CASE LoadCount
    BY <1>17 DEF LoadCount
<1>18. CASE StoreCount
    BY <1>18 DEF StoreCount
<1>19. CASE ZeroCount
    BY <1>19 DEF ZeroCount
<1>20. CASE ZeroAssigned
    BY <1>20 DEF ZeroAssigned
<1>21. CASE UNCHANGED vars
    BY <1>21 DEF vars
<1> QED BY <1>1, <1>2, <1>3, <1>4, <1>5, <1>6, <1>7, <1>8, <1>9, <1>10, <1>11, <1>12,
           <1>13, <1>14, <1>15, <1>16, <1>17, <1>18, <1>19, <1>20, <1>21
    DEF Next, Main, Worker, Watcher

-----------------------------------------------------------------------------
(* Types *)

\* The counters, the queue and the histories.
CountersTyped ==
    /\ last_assigned \in Nat
    /\ op_count \in Nat
    /\ register \in [main : Nat, worker : Nat]
    /\ done \in Nat
    /\ resets \in Nat

ListsTyped ==
    /\ queue \in Seq(Write)
    /\ accepted \in Seq(Write)
    /\ given \in Seq(Nat)

HandsTyped ==
    /\ request \in Write \cup Read \cup {NoRequest}
    /\ task \in Write \cup {NoRequest}

LEMMA TreeStep ==
    ASSUME WellFormed(tree), Valued(tree), Ordered(tree), InHand, [Next]_vars
    PROVE  WellFormed(tree)' /\ Valued(tree)' /\ Ordered(tree)'
<1>1. CASE ApplyTask
    <2>1. task \in Write /\ tree' = Applied /\ ~Hangs
        BY <1>1 DEF ApplyTask, Goes, InHand
    <2>2. CASE task \in Put
        <3>1. task.op = "put" /\ task.key \in Key /\ task.value \in Value
            BY <2>2 DEF Put
        <3>2. tree' = TreePut(tree, task.key, task.value)
            BY <2>1, <3>1 DEF Applied
        <3> QED BY <3>1, <3>2, PutWellFormed, PutValued, PutOrdered
    <2>3. CASE task \in Del
        <3>1. task.op = "del" /\ task.key \in Key
            BY <2>3 DEF Del
        <3>2. tree' = TreeDel(tree, task.key) /\ ~DelSpins(tree, task.key)
            BY <2>1, <3>1 DEF Applied, Hangs
        <3> QED BY <3>1, <3>2, DelWellFormed, DelValued, DelOrdered DEF WellFormed
    <2> QED BY <2>1, <2>2, <2>3 DEF Write
<1>2. CASE ~ApplyTask
    <2>1. UNCHANGED tree
        BY <1>2 DEF Next, Main, Worker, Watcher, vars, data, Receive, MainLocksQueue,
            LoadAssigned, StoreAssigned, Enqueue, NumberWrite, MainLocksTree, AnswerRead,
            WorkerLocksQueue, WaitForTask, WakeSpuriously, TakeTask, WorkerLocksTree,
            ApplyHangs, Spin, LoadCount, StoreCount, ZeroCount, ZeroAssigned
    <2> QED BY <2>1
<1> QED BY <1>1, <1>2

LEMMA CountersStep ==
    ASSUME CountersTyped, [Next]_vars
    PROVE  CountersTyped'
<1> USE DEF CountersTyped
<1>1. CASE LoadAssigned
    BY <1>1 DEF LoadAssigned, Goes, data, locks, history
<1>2. CASE StoreAssigned
    BY <1>2 DEF StoreAssigned, Goes, data, locks, history
<1>3. CASE ApplyTask
    BY <1>3 DEF ApplyTask, Goes, data, locks, history
<1>4. CASE LoadCount
    BY <1>4 DEF LoadCount, Goes, data, locks, history
<1>5. CASE StoreCount
    <2>1. op_count' = register.worker + 1 /\ UNCHANGED <<last_assigned, register, done, resets>>
        BY <1>5 DEF StoreCount, Counted, history
    <2> QED BY <2>1
<1>6. CASE ZeroCount
    <2>1. op_count' = 0 /\ resets' = resets + 1 /\ UNCHANGED <<last_assigned, register, done>>
        BY <1>6 DEF ZeroCount
    <2> QED BY <2>1
<1>7. CASE ZeroAssigned
    BY <1>7 DEF ZeroAssigned, Goes, data, locks, history
<1>8. CASE UNCHANGED <<last_assigned, op_count, register, done, resets>>
    BY <1>8
<1> QED BY <1>1, <1>2, <1>3, <1>4, <1>5, <1>6, <1>7, <1>8
    DEF Next, Main, Worker, Watcher, vars, data, locks, history, Receive,
        MainLocksQueue, Enqueue, NumberWrite, MainLocksTree, AnswerRead,
        WorkerLocksQueue, WaitForTask, WakeSpuriously, TakeTask,
        WorkerLocksTree, ApplyHangs, Spin

LEMMA ListsStep ==
    ASSUME CountersTyped, ListsTyped, InHand, [Next]_vars
    PROVE  ListsTyped'
<1> USE DEF CountersTyped, ListsTyped, InHand
<1>1. CASE Enqueue
    <2>1. /\ request \in Write
          /\ queue' = Append(queue, request)
          /\ accepted' = Append(accepted, request)
          /\ given' = given
        BY <1>1 DEF Enqueue, Lengthened
    <2> QED BY <2>1, AppendProperties
<1>2. CASE NumberWrite
    <2>1. given' = Append(given, last_assigned) /\ UNCHANGED <<queue, accepted>>
        BY <1>2 DEF NumberWrite, Number, data
    <2> QED BY <2>1, AppendProperties
<1>3. CASE TakeTask
    <2>1. queue # << >> /\ queue' = Tail(queue) /\ UNCHANGED <<accepted, given>>
        BY <1>3 DEF TakeTask, history
    <2> QED BY <2>1, HeadTailProperties
<1>4. CASE UNCHANGED <<queue, accepted, given>>
    BY <1>4
<1> QED BY <1>1, <1>2, <1>3, <1>4
    DEF Next, Main, Worker, Watcher, vars, data, locks, history, Receive,
        MainLocksQueue, LoadAssigned, StoreAssigned, MainLocksTree,
        AnswerRead, WorkerLocksQueue, WaitForTask, WakeSpuriously,
        WorkerLocksTree, ApplyTask, ApplyHangs, Spin, LoadCount, StoreCount,
        ZeroCount, ZeroAssigned

LEMMA HandsStep ==
    ASSUME HandsTyped, InHand, ListsTyped, pc \in Places, [Next]_vars
    PROVE  HandsTyped' /\ InHand'
<1> USE DEF HandsTyped, InHand, ListsTyped, Places
<1>1. ASSUME NEW message \in Write \cup Read, Receive(message)
      PROVE  HandsTyped' /\ InHand'
    BY <1>1 DEF Receive, Goes, data, locks, history
<1>2. CASE MainLocksQueue
    BY <1>2 DEF MainLocksQueue, Goes, data, locks, history
<1>3. CASE LoadAssigned
    BY <1>3 DEF LoadAssigned, Goes, data, locks, history
<1>4. CASE StoreAssigned
    BY <1>4 DEF StoreAssigned, Goes, data, locks, history
<1>5. CASE Enqueue
    BY <1>5 DEF Enqueue, Signalled, Lengthened, Goes, data, locks, history
<1>6. CASE NumberWrite
    BY <1>6 DEF NumberWrite, Number, Goes, data, locks, history
<1>7. CASE MainLocksTree
    BY <1>7 DEF MainLocksTree, Goes, data, locks, history
<1>8. CASE AnswerRead
    BY <1>8 DEF AnswerRead, Goes, data, locks, history
<1>9. CASE WorkerLocksQueue
    BY <1>9 DEF WorkerLocksQueue, Goes, data, locks, history
<1>10. CASE WaitForTask
    BY <1>10 DEF WaitForTask, Goes, data, locks, history
<1>11. CASE WakeSpuriously
    BY <1>11 DEF WakeSpuriously, Goes, data, locks, history
<1>12. CASE TakeTask
    <2>1. /\ queue # << >> /\ task' = Head(queue) /\ request' = request
          /\ pc' = [pc EXCEPT !.worker = "lock tree"]
        BY <1>12 DEF TakeTask, Goes
    <2>2. task' \in Write
        BY <2>1, HeadTailProperties
    <2> QED BY <2>1, <2>2
<1>13. CASE WorkerLocksTree
    BY <1>13 DEF WorkerLocksTree, Goes, data, locks, history
<1>14. CASE ApplyTask
    BY <1>14 DEF ApplyTask, Goes, data, locks, history
<1>15. CASE ApplyHangs
    BY <1>15 DEF ApplyHangs, Goes, data, locks, history
<1>16. CASE Spin
    BY <1>16 DEF Spin, vars
<1>17. CASE LoadCount
    BY <1>17 DEF LoadCount, Goes, data, locks, history
<1>18. CASE StoreCount
    BY <1>18 DEF StoreCount, Counted, Goes, data, locks, history
<1>19. CASE ZeroCount
    BY <1>19 DEF ZeroCount, Goes, data, locks, history
<1>20. CASE ZeroAssigned
    BY <1>20 DEF ZeroAssigned, Goes, data, locks, history
<1>21. CASE UNCHANGED vars
    BY <1>21 DEF vars
<1> QED BY <1>1, <1>2, <1>3, <1>4, <1>5, <1>6, <1>7, <1>8, <1>9, <1>10, <1>11,
           <1>12, <1>13, <1>14, <1>15, <1>16, <1>17, <1>18, <1>19, <1>20,
           <1>21
    DEF Next, Main, Worker, Watcher

-----------------------------------------------------------------------------
(* The backlog *)

\* What follows place done of a list that grew at its end.
LEMMA RestOfAppend ==
    ASSUME NEW S, NEW seq \in Seq(S), NEW elt \in S, NEW n \in 0..Len(seq)
    PROVE  SubSeq(Append(seq, elt), n + 1, Len(Append(seq, elt)))
            = Append(SubSeq(seq, n + 1, Len(seq)), elt)
<1> DEFINE long == Append(seq, elt)
           rest == SubSeq(seq, n + 1, Len(seq))
<1>1. /\ long \in Seq(S) /\ Len(seq) \in Nat
      /\ Len(long) = Len(seq) + 1 /\ long[Len(seq) + 1] = elt
      /\ long = seq \o <<elt>> /\ <<elt>> \in Seq(S)
    BY AppendProperties, AppendIsConcat, LenProperties
<1>2. SubSeq(long, n + 1, Len(seq)) = rest
    <2>1. CASE n = Len(seq)
        BY <1>1, <2>1, SubSeqEmpty
    <2>2. CASE n # Len(seq)
        <3>1. n + 1 \in 1..Len(seq) /\ Len(seq) \in 1..Len(seq)
            BY <1>1, <2>2
        <3> QED BY <1>1, <3>1, SubSeqOfConcat1
    <2> QED BY <2>1, <2>2
<1>3. SubSeq(long, n + 1, Len(seq) + 1) = SubSeq(long, n + 1, Len(seq)) \o <<elt>>
    <2> DEFINE first == n + 1
               last == Len(seq) + 1
    <2>1. first \in 1..Len(long) /\ last \in first..Len(long) /\ last - 1 = Len(seq)
        BY <1>1
    <2> HIDE DEF long, first, last
    <2>2. SubSeq(long, first, last) = SubSeq(long, first, last - 1) \o <<long[last]>>
        BY <1>1, <2>1, SubSeqRecursiveSecond
    <2> QED BY <1>1, <2>1, <2>2 DEF first, last
<1>4. rest \in Seq(S)
    <2>1. n + 1 \in Int /\ Len(seq) \in Int /\ \A i \in (n + 1)..Len(seq) : seq[i] \in S
        BY <1>1, ElementOfSeq
    <2> QED BY <2>1, SubSeqProperties
<1>5. Append(rest, elt) = rest \o <<elt>>
    <2> HIDE DEF rest
    <2> QED BY <1>4, AppendIsConcat
<1> QED BY <1>1, <1>2, <1>3, <1>5

\* The write that the worker executes is the next of the accepted ones.
LEMMA NextWrite ==
    ASSUME ListsTyped, CountersTyped, InHand, Backlog, pc.worker = "apply", done <= Len(accepted)
    PROVE  /\ task \in Write
           /\ done < Len(accepted)
           /\ accepted[done + 1] = task
           /\ SubSeq(accepted, (done + 1) + 1, Len(accepted)) = queue
<1> DEFINE pending == SubSeq(accepted, done + 1, Len(accepted))
<1>0. pending = <<task>> \o queue /\ Len(accepted) \in Nat
    BY LenProperties DEF Backlog, ListsTyped, InFlight
<1>1. task \in Write
    BY DEF InHand
<1>2. <<task>> \in Seq(Write) /\ queue \in Seq(Write) /\ <<task>> # << >>
    BY <1>1 DEF ListsTyped
<1>3. pending # << >>
    <2>1. <<task>> \o queue # << >>
        BY <1>2, ConcatSimplifications
    <2> QED BY <1>0, <1>1, <2>1
<1>4. done < Len(accepted)
    BY <1>0, <1>3, SubSeqEmpty DEF CountersTyped
<1>5. /\ done + 1 \in 1..Len(accepted)
      /\ Len(accepted) \in (done + 1)..Len(accepted)
    BY <1>0, <1>4 DEF CountersTyped
<1>6. pending = <<accepted[done + 1]>> \o SubSeq(accepted, (done + 1) + 1, Len(accepted))
    BY <1>5, SubSeqRecursiveFirst DEF ListsTyped
<1>7. /\ accepted[done + 1] = task
      /\ SubSeq(accepted, (done + 1) + 1, Len(accepted)) = queue
    <2> DEFINE later == SubSeq(accepted, (done + 1) + 1, Len(accepted))
    <2>1. accepted[done + 1] \in Write
        BY <1>5, ElementOfSeq DEF ListsTyped
    <2>2. later \in Seq(Write)
        <3>1. \A i \in ((done + 1) + 1)..Len(accepted) : accepted[i] \in Write
            BY <1>0, ElementOfSeq DEF ListsTyped, CountersTyped
        <3>2. (done + 1) + 1 \in Int /\ Len(accepted) \in Int
            BY <1>0 DEF CountersTyped
        <3> QED BY <3>1, <3>2, SubSeqProperties
    <2>3. <<accepted[done + 1]>> \o later = <<task>> \o queue
        BY <1>0, <1>1, <1>6
    <2>4. /\ accepted[done + 1] = (<<accepted[done + 1]>> \o later)[1]
          /\ task = (<<task>> \o queue)[1]
        <3> HIDE DEF later
        <3>1. /\ <<accepted[done + 1]>> \in Seq(Write)
              /\ Len(<<accepted[done + 1]>>) = 1 /\ <<accepted[done + 1]>>[1] = accepted[done + 1]
              /\ Len(<<task>>) = 1 /\ <<task>>[1] = task
              /\ Len(later) \in Nat /\ Len(queue) \in Nat
            BY <1>1, <1>2, <2>1, <2>2, LenProperties
        <3>2. 1 \in 1 .. 1 + Len(later) /\ 1 \in 1 .. 1 + Len(queue)
            BY <3>1
        <3> QED BY <1>2, <2>2, <3>1, <3>2, ConcatProperties
    <2>5. accepted[done + 1] = task
        BY <2>3, <2>4
    <2> HIDE DEF later
    <2>6. <<task>> \o later = <<task>> \o queue
        BY <2>3, <2>5
    <2>7. later = queue
        BY <1>2, <2>2, <2>6, ConcatSimplifications
    <2> QED BY <2>5, <2>7 DEF later
<1> QED BY <1>1, <1>4, <1>7

LEMMA BacklogStep ==
    ASSUME ListsTyped, CountersTyped, HandsTyped, InHand, pc \in Places, Backlog,
           done <= Len(accepted), [Next]_vars
    PROVE  Backlog' /\ done' <= Len(accepted')
<1> DEFINE pending == SubSeq(accepted, done + 1, Len(accepted))
<1>1. pending = InFlight \o queue /\ Len(accepted) \in Nat
    BY LenProperties DEF Backlog, ListsTyped
<1>2. CASE Enqueue
    <2>1. /\ request \in Write
          /\ queue' = Append(queue, request)
          /\ accepted' = Append(accepted, request)
          /\ done' = done /\ InFlight' = InFlight
        BY <1>2 DEF Enqueue, Lengthened, Signalled, InHand, InFlight, Places
    <2>2. Len(accepted') = Len(accepted) + 1
        BY <2>1, AppendProperties DEF ListsTyped
    <2>3. SubSeq(accepted', done' + 1, Len(accepted')) = Append(pending, request)
        <3>1. done \in 0..Len(accepted)
            BY <1>1 DEF CountersTyped
        <3> QED BY <2>1, <3>1, RestOfAppend DEF ListsTyped
    <2>4. InFlight \in Seq(Write)
        <3>1. CASE pc.worker \in {"lock tree", "apply", "spin"}
            <4>1. task \in Write
                BY <3>1 DEF InHand
            <4>2. <<task>> \in Seq(Write)
                BY <4>1
            <4>3. InFlight = <<task>>
                BY <3>1 DEF InFlight
            <4> QED BY <4>2, <4>3
        <3>2. CASE pc.worker \notin {"lock tree", "apply", "spin"}
            <4>1. InFlight = << >> /\ << >> \in Seq(Write)
                BY <3>2, EmptySeq DEF InFlight
            <4> QED BY <4>1
        <3> QED BY <3>1, <3>2
    <2>5. Append(InFlight \o queue, request) = InFlight \o Append(queue, request)
        <3>1. <<request>> \in Seq(Write) /\ queue \in Seq(Write) /\ InFlight \o queue \in Seq(Write)
            BY <2>1, <2>4, ConcatProperties DEF ListsTyped
        <3>2. (InFlight \o queue) \o <<request>> = InFlight \o (queue \o <<request>>)
            BY <2>4, <3>1, ConcatAssociative
        <3> QED BY <2>1, <3>1, <3>2, AppendIsConcat
    <2>6. SubSeq(accepted', done' + 1, Len(accepted')) = InFlight' \o queue'
        BY <1>1, <2>1, <2>3, <2>5
    <2>7. done' <= Len(accepted')
        BY <1>1, <2>1, <2>2 DEF CountersTyped
    <2> QED BY <2>6, <2>7 DEF Backlog
<1>3. CASE TakeTask
    <2>1. /\ queue # << >> /\ task' = Head(queue) /\ queue' = Tail(queue)
          /\ InFlight = << >> /\ InFlight' = <<task'>>
          /\ accepted' = accepted /\ done' = done
        BY <1>3 DEF TakeTask, Goes, InFlight, Places, history
    <2>2. queue = <<Head(queue)>> \o Tail(queue)
        <3>1. Len(queue) \in Nat \ {0}
            BY <2>1, EmptySeq DEF ListsTyped
        <3>2. 1 \in 1..Len(queue) /\ Len(queue) \in 1..Len(queue)
            BY <3>1
        <3>3. SubSeq(queue, 1, Len(queue)) = <<queue[1]>> \o SubSeq(queue, 1 + 1, Len(queue))
            BY <3>2, SubSeqRecursiveFirst DEF ListsTyped
        <3>4. SubSeq(queue, 1, Len(queue)) = queue /\ Tail(queue) = SubSeq(queue, 2, Len(queue))
            BY <2>1, SubSeqFull, TailIsSubSeq DEF ListsTyped
        <3> QED BY <3>3, <3>4
    <2>3. << >> \o queue = queue
        BY ConcatEmptySeq DEF ListsTyped
    <2>4. InFlight' \o queue' = InFlight \o queue
        BY <2>1, <2>2, <2>3
    <2> QED BY <1>1, <2>1, <2>4 DEF Backlog
<1>4. CASE ApplyTask
    <2>1. /\ task \in Write
          /\ InFlight = <<task>> /\ InFlight' = << >>
          /\ queue' = queue /\ accepted' = accepted /\ done' = done + 1
        BY <1>4 DEF ApplyTask, Goes, InFlight, InHand, Places
    <2>2. pc.worker = "apply"
        BY <1>4 DEF ApplyTask, Goes
    <2>3. done < Len(accepted) /\ SubSeq(accepted, (done + 1) + 1, Len(accepted)) = queue
        BY <2>2, NextWrite
    <2>4. << >> \o queue = queue
        BY ConcatEmptySeq DEF ListsTyped
    <2>5. done + 1 \in Nat /\ done + 1 <= Len(accepted)
        BY <1>1, <2>3 DEF CountersTyped
    <2> QED BY <2>1, <2>3, <2>4, <2>5 DEF Backlog
<1>5. CASE UNCHANGED <<InFlight, queue, accepted, done>>
    BY <1>5 DEF Backlog
<1>6. ASSUME Worker, ~TakeTask, ~ApplyTask
      PROVE  UNCHANGED <<InFlight, queue, accepted, done>>
    BY <1>6 DEF Worker, InFlight, Places, Goes, data, history, vars, WorkerLocksQueue,
        WaitForTask, WakeSpuriously, WorkerLocksTree, ApplyHangs, Spin, LoadCount, StoreCount
<1>7. ASSUME Main, ~Enqueue
      PROVE  UNCHANGED <<InFlight, queue, accepted, done>>
    BY <1>7 DEF Main, InFlight, Places, Goes, data, history, Receive, MainLocksQueue,
        LoadAssigned, StoreAssigned, NumberWrite, MainLocksTree, AnswerRead
<1>8. ASSUME Watcher
      PROVE  UNCHANGED <<InFlight, queue, accepted, done>>
    BY <1>8 DEF Watcher, InFlight, Places, Goes, data, history, ZeroCount, ZeroAssigned
<1>9. ASSUME UNCHANGED vars
      PROVE  UNCHANGED <<InFlight, queue, accepted, done>>
    BY <1>9 DEF InFlight, data, history, vars
<1> QED BY <1>2, <1>3, <1>4, <1>5, <1>6, <1>7, <1>8, <1>9 DEF Next

-----------------------------------------------------------------------------
(* The counters *)

LEMMA CountsStep ==
    ASSUME CountersTyped, CountersTyped', pc \in Places, Counts, [Next]_vars,
           done' <= Len(accepted')
    PROVE  Counts'
<1> USE DEF Counts, CountersTyped
<1>1. CASE ApplyTask
    <2>1. /\ pc.worker = "apply" /\ pc'.worker = "load"
          /\ done' = done + 1 /\ op_count' = op_count
        BY <1>1 DEF ApplyTask, Goes, Places
    <2> QED BY <2>1
<1>2. CASE LoadCount
    BY <1>2 DEF LoadCount, Goes, Places, data, history
<1>3. CASE StoreCount
    BY <1>3 DEF StoreCount, Counted, Goes, Places, history
<1>4. CASE ZeroCount
    <2>1. /\ op_count' = 0
          /\ UNCHANGED <<done, register>> /\ pc'.worker = pc.worker
        BY <1>4 DEF ZeroCount, Goes, Places
    <2> QED BY <2>1
<1>5. CASE LoadAssigned
    BY <1>5 DEF LoadAssigned, Goes, Places, data, history
<1>6. ASSUME UNCHANGED <<op_count, done, register>>,
             pc'.worker \in {"load", "store"} => pc'.worker = pc.worker
      PROVE  Counts'
    BY <1>6
<1>7. ASSUME Main, ~LoadAssigned PROVE Counts'
    BY <1>6, <1>7 DEF Main, Goes, Places, data, history, Receive, MainLocksQueue,
        StoreAssigned, Enqueue, Signalled, NumberWrite, MainLocksTree, AnswerRead
<1>8. ASSUME Worker, ~ApplyTask, ~LoadCount, ~StoreCount PROVE Counts'
    BY <1>6, <1>8 DEF Worker, Goes, Places, data, history, vars, WorkerLocksQueue,
        WaitForTask, WakeSpuriously, TakeTask, WorkerLocksTree, ApplyHangs, Spin
<1>9. ASSUME ZeroAssigned \/ UNCHANGED vars PROVE Counts'
    BY <1>6, <1>9 DEF ZeroAssigned, Goes, Places, data, history, vars
<1> QED BY <1>1, <1>2, <1>3, <1>4, <1>5, <1>7, <1>8, <1>9 DEF Next, Watcher

\* Only the watcher's first step ends the time before a second server.
LEMMA UndisturbedStep ==
    ASSUME CountersTyped, CountersTyped', ListsTyped, ListsTyped', pc \in Places, InHand,
           Undisturbed, [Next]_vars
    PROVE  Undisturbed'
<1> USE DEF Undisturbed, CountersTyped
<1>1. CASE LoadAssigned
    <2>1. /\ pc.main = "load" /\ pc'.main = "store"
          /\ pc'.worker = pc.worker /\ pc'.watcher = pc.watcher
          /\ register'.main = last_assigned /\ register'.worker = register.worker
          /\ UNCHANGED <<last_assigned, op_count, accepted, done, given, resets>>
        BY <1>1 DEF LoadAssigned, Goes, Places, data, history
    <2> QED BY <2>1
<1>2. CASE StoreAssigned
    BY <1>2 DEF StoreAssigned, Goes, Places, history
<1>3. CASE Enqueue
    <2>1. /\ pc.main = "enqueue" /\ pc'.main = "number" /\ pc'.watcher = pc.watcher
          /\ pc'.worker \in {"load", "store"} <=> pc.worker \in {"load", "store"}
          /\ pc'.worker = "store" <=> pc.worker = "store"
          /\ UNCHANGED <<last_assigned, op_count, register, done, given, resets>>
        BY <1>3 DEF Enqueue, Signalled, Places
    <2>2. request \in Write /\ accepted' = Append(accepted, request)
        BY <1>3 DEF Enqueue, InHand
    <2>3. Len(accepted') = Len(accepted) + 1
        BY <2>2, AppendProperties DEF ListsTyped
    <2>4. Len(accepted) \in Nat /\ Len(given) \in Nat
        BY LenProperties DEF ListsTyped
    <2> QED BY <2>1, <2>3, <2>4
<1>4. CASE NumberWrite
    <2>1. /\ pc.main = "number" /\ pc'.main = "idle"
          /\ pc'.watcher = pc.watcher /\ pc'.worker = pc.worker
          /\ UNCHANGED <<last_assigned, op_count, register, accepted, done, resets>>
        BY <1>4 DEF NumberWrite, Goes, Places, data
    <2>2. given' = Append(given, last_assigned)
        BY <1>4 DEF NumberWrite, Number
    <2>3. Len(given') = Len(given) + 1
        BY <2>2, AppendProperties DEF ListsTyped
    <2>4. Len(accepted) \in Nat /\ Len(given) \in Nat
        BY LenProperties DEF ListsTyped
    <2> QED BY <2>1, <2>3, <2>4
<1>5. CASE ApplyTask
    <2>1. /\ pc.worker = "apply" /\ pc'.worker = "load"
          /\ pc'.main = pc.main /\ pc'.watcher = pc.watcher
          /\ done' = done + 1
          /\ UNCHANGED <<last_assigned, op_count, register, accepted, given, resets>>
        BY <1>5 DEF ApplyTask, Goes, Places
    <2> QED BY <2>1
<1>6. CASE LoadCount
    BY <1>6 DEF LoadCount, Goes, Places, data, history
<1>7. CASE StoreCount
    <2>1. /\ pc.worker = "store" /\ pc'.worker = "lock queue"
          /\ pc'.main = pc.main /\ pc'.watcher = pc.watcher
          /\ op_count' = register.worker + 1
          /\ UNCHANGED <<last_assigned, register, accepted, done, given, resets>>
        BY <1>7 DEF StoreCount, Counted, Goes, Places, history
    <2> QED BY <2>1
<1>8. CASE ZeroCount
    <2>1. resets' = resets + 1
        BY <1>8 DEF ZeroCount
    <2> QED BY <2>1
<1>9. CASE ZeroAssigned
    BY <1>9 DEF ZeroAssigned, Goes, Places, history
<1>10. ASSUME UNCHANGED <<last_assigned, op_count, register, history>>, pc'.watcher = pc.watcher,
              pc'.main \in {"store", "enqueue", "number"} <=> pc.main \in {"store", "enqueue", "number"},
              pc'.main \in {"store", "enqueue", "number"} => pc'.main = pc.main,
              pc'.worker \in {"load", "store"} <=> pc.worker \in {"load", "store"},
              pc'.worker \in {"load", "store"} => pc'.worker = pc.worker
       PROVE  Undisturbed'
    BY <1>10 DEF history
<1>11. ASSUME Main, ~LoadAssigned, ~StoreAssigned, ~Enqueue, ~NumberWrite
       PROVE  Undisturbed'
    BY <1>10, <1>11 DEF Main, Goes, Places, data, history, Receive, MainLocksQueue,
        MainLocksTree, AnswerRead
<1>12. ASSUME Worker, ~ApplyTask, ~LoadCount, ~StoreCount
       PROVE  Undisturbed'
    BY <1>10, <1>12 DEF Worker, Goes, Places, data, history, vars, WorkerLocksQueue,
        WaitForTask, WakeSpuriously, TakeTask, WorkerLocksTree, ApplyHangs, Spin
<1>13. CASE UNCHANGED vars
    BY <1>10, <1>13 DEF data, vars
<1> QED BY <1>1, <1>2, <1>3, <1>4, <1>5, <1>6, <1>7, <1>8, <1>9, <1>11, <1>12, <1>13
    DEF Next, Watcher

LEMMA NumbersStep ==
    ASSUME CountersTyped, CountersTyped', ListsTyped, pc \in Places, Undisturbed,
           NumberedInOrder, [Next]_vars
    PROVE  NumberedInOrder'
<1>1. CASE NumberWrite
    <2>1. given' = Append(given, last_assigned) /\ resets' = resets
        BY <1>1 DEF NumberWrite, Number
    <2>2. /\ Len(given) \in Nat /\ DOMAIN given = 1..Len(given)
          /\ DOMAIN given' = 1..(Len(given) + 1)
          /\ \A i \in 1..Len(given) : given'[i] = given[i]
          /\ given'[Len(given) + 1] = last_assigned
        BY <2>1, AppendProperties, LenProperties DEF ListsTyped, CountersTyped
    <2>3. pc.main = "number"
        BY <1>1 DEF NumberWrite, Goes
    <2>4. resets = 0 => last_assigned = Len(accepted) /\ Len(accepted) = Len(given) + 1
        BY <2>3, LenProperties DEF Undisturbed, ListsTyped
    <2> QED BY <2>1, <2>2, <2>4 DEF NumberedInOrder
<1>2. CASE ZeroCount
    <2>1. resets' = resets + 1
        BY <1>2 DEF ZeroCount
    <2> QED BY <2>1 DEF NumberedInOrder, CountersTyped
<1>3. CASE UNCHANGED <<given, resets>>
    BY <1>3 DEF NumberedInOrder
<1>4. ASSUME Main, ~NumberWrite PROVE UNCHANGED <<given, resets>>
    BY <1>4 DEF Main, history, Receive, MainLocksQueue, LoadAssigned, StoreAssigned,
        Enqueue, MainLocksTree, AnswerRead
<1>5. ASSUME Worker PROVE UNCHANGED <<given, resets>>
    BY <1>5 DEF Worker, history, vars, WorkerLocksQueue, WaitForTask, WakeSpuriously,
        TakeTask, WorkerLocksTree, ApplyTask, ApplyHangs, Spin, LoadCount, StoreCount
<1>6. CASE ZeroAssigned \/ UNCHANGED vars
    BY <1>3, <1>6 DEF ZeroAssigned, history, vars
<1> QED BY <1>1, <1>2, <1>3, <1>4, <1>5, <1>6 DEF Next, Watcher

LEMMA AssignedStep ==
    ASSUME CountersTyped, ListsTyped, pc \in Places, InHand, Assigned, [Next]_vars
    PROVE  Assigned'
<1> USE DEF Assigned, CountersTyped
<1>0. Len(accepted) \in Nat
    BY LenProperties DEF ListsTyped
<1>1. CASE LoadAssigned
    <2>1. /\ pc.main = "load" /\ pc'.main = "store" /\ register'.main = last_assigned
          /\ UNCHANGED <<last_assigned, accepted>>
        BY <1>1 DEF LoadAssigned, Goes, Places, data, history
    <2> QED BY <2>1
<1>2. CASE StoreAssigned
    <2>1. /\ pc.main = "store" /\ pc'.main = "enqueue" /\ last_assigned' = register.main + 1
          /\ UNCHANGED accepted
        BY <1>2 DEF StoreAssigned, Goes, Places, history
    <2> QED BY <1>0, <2>1
<1>3. CASE Enqueue
    <2>1. /\ pc.main = "enqueue" /\ pc'.main = "number" /\ UNCHANGED last_assigned
        BY <1>3 DEF Enqueue, Signalled, Places
    <2>2. request \in Write /\ accepted' = Append(accepted, request)
        BY <1>3 DEF Enqueue, InHand
    <2>3. Len(accepted') = Len(accepted) + 1
        BY <2>2, AppendProperties DEF ListsTyped
    <2> QED BY <2>1, <2>3
<1>4. CASE LoadCount
    <2>1. /\ pc'.main = pc.main /\ register'.main = register.main
          /\ UNCHANGED <<last_assigned, accepted>>
        BY <1>4 DEF LoadCount, Goes, Places, data, history
    <2> QED BY <2>1
<1>5. CASE ZeroAssigned
    <2>1. last_assigned' = 0 /\ pc'.main = pc.main /\ UNCHANGED <<register, accepted>>
        BY <1>5 DEF ZeroAssigned, Goes, Places, history
    <2> QED BY <1>0, <2>1
<1>6. ASSUME UNCHANGED <<last_assigned, register, accepted>>,
             pc'.main \in {"store", "enqueue"} <=> pc.main \in {"store", "enqueue"},
             pc'.main \in {"store", "enqueue"} => pc'.main = pc.main
      PROVE  Assigned'
    BY <1>6
<1>7. ASSUME Main, ~LoadAssigned, ~StoreAssigned, ~Enqueue PROVE Assigned'
    BY <1>6, <1>7 DEF Main, Goes, Places, data, history, Receive, MainLocksQueue,
        NumberWrite, MainLocksTree, AnswerRead
<1>8. ASSUME Worker, ~LoadCount PROVE Assigned'
    BY <1>6, <1>8 DEF Worker, Goes, Places, data, history, vars, WorkerLocksQueue,
        WaitForTask, WakeSpuriously, TakeTask, WorkerLocksTree, ApplyTask, ApplyHangs,
        Spin, StoreCount
<1>9. CASE ZeroCount \/ UNCHANGED vars
    BY <1>6, <1>9 DEF ZeroCount, Goes, Places, data, history, vars
<1> QED BY <1>1, <1>2, <1>3, <1>4, <1>5, <1>7, <1>8, <1>9 DEF Next, Watcher

-----------------------------------------------------------------------------
(* The invariant *)

LEMMA TypeParts ==
    TypeOK <=> /\ Valued(tree) /\ DOMAIN tree \subseteq Path
               /\ queue_lock \in Lock /\ tree_lock \in Lock /\ pc \in Places
               /\ CountersTyped /\ ListsTyped /\ HandsTyped
BY DEF TypeOK, Valued, CountersTyped, ListsTyped, HandsTyped

LEMMA LockTypes ==
    ASSUME queue_lock \in Lock, tree_lock \in Lock, [Next]_vars
    PROVE  queue_lock' \in Lock /\ tree_lock' \in Lock
BY DEF Lock, Next, Main, Worker, Watcher, vars, locks, TakesQueueLock, TakesTreeLock,
    Receive, MainLocksQueue, LoadAssigned, StoreAssigned, Enqueue, NumberWrite,
    MainLocksTree, AnswerRead, WorkerLocksQueue, WaitForTask, WakeSpuriously, TakeTask,
    WorkerLocksTree, ApplyTask, ApplyHangs, Spin, LoadCount, StoreCount, ZeroCount,
    ZeroAssigned

LEMMA InitInvariant == Init => IInv
<1> SUFFICES ASSUME Init PROVE IInv
    OBVIOUS
<1>1. WellFormed(tree) /\ Valued(tree) /\ Ordered(tree)
    <2>1. tree = EmptyTree
        BY DEF Init
    <2>2. Valued(EmptyTree)
        BY DEF Valued, EmptyTree
    <2> QED BY <2>1, <2>2, EmptyTreeWellFormed, EmptyTreeOrdered
<1>2. pc \in Places /\ queue_lock \in Lock /\ tree_lock \in Lock
    BY DEF Init, Places, Lock
<1>3. CountersTyped /\ ListsTyped /\ HandsTyped
    BY EmptySeq DEF Init, CountersTyped, ListsTyped, HandsTyped
<1>4. TypeOK
    BY <1>1, <1>2, <1>3, TypeParts DEF WellFormed, Typed
<1>5. QueueLocked /\ TreeLocked /\ InHand
    BY DEF Init, QueueLocked, TreeLocked, InHand
<1>6. /\ last_assigned = 0 /\ op_count = 0 /\ done = 0 /\ resets = 0
      /\ accepted = << >> /\ given = << >> /\ queue = << >>
    BY DEF Init
<1>7. pc.main = "idle" /\ pc.worker = "lock queue" /\ pc.watcher = "idle"
    BY DEF Init
<1>8. Len(accepted) = 0 /\ Len(given) = 0
    BY <1>6, EmptySeq
<1>9. Backlog
    <2>1. done + 1 \in Int /\ Len(accepted) \in Int /\ Len(accepted) < done + 1
        BY <1>6, <1>8
    <2>2. SubSeq(accepted, done + 1, Len(accepted)) = << >>
        BY <2>1, SubSeqEmpty
    <2>3. << >> \o << >> = << >>
        BY EmptySeq, ConcatEmptySeq
    <2> QED BY <1>6, <1>7, <2>2, <2>3 DEF Backlog, InFlight
<1>10. Counts
    <2>1. done <= Len(accepted) /\ op_count <= done
        BY <1>6, <1>8
    <2> QED BY <1>7, <2>1 DEF Counts
<1>11. Undisturbed
    BY <1>6, <1>7, <1>8 DEF Undisturbed
<1>12. Assigned
    <2>1. last_assigned <= Len(accepted)
        BY <1>6, <1>8
    <2>2. pc.main # "store" /\ pc.main # "enqueue"
        BY <1>7
    <2> QED BY <2>1, <2>2 DEF Assigned
<1>13. NumberedInOrder
    <2>1. DOMAIN << >> = {}
        OBVIOUS
    <2> QED BY <1>6, <2>1 DEF NumberedInOrder
<1> QED BY <1>1, <1>4, <1>5, <1>9, <1>10, <1>11, <1>12, <1>13 DEF IInv

LEMMA NextInvariant == IInv /\ [Next]_vars => IInv'
<1> SUFFICES ASSUME IInv, [Next]_vars PROVE IInv'
    OBVIOUS
<1>1. /\ pc \in Places /\ CountersTyped /\ ListsTyped /\ HandsTyped
      /\ queue_lock \in Lock /\ tree_lock \in Lock
      /\ WellFormed(tree) /\ Valued(tree) /\ Ordered(tree) /\ InHand /\ Backlog
      /\ Counts /\ Assigned /\ done <= Len(accepted)
      /\ QueueLocked /\ TreeLocked /\ Undisturbed /\ NumberedInOrder
    BY TypeParts DEF IInv, Counts
<1>2. pc' \in Places /\ QueueLocked' /\ TreeLocked'
    BY <1>1, LocksStep
<1>3. queue_lock' \in Lock /\ tree_lock' \in Lock
    BY <1>1, LockTypes
<1>4. WellFormed(tree)' /\ Valued(tree)' /\ Ordered(tree)'
    BY <1>1, TreeStep
<1>5. CountersTyped' /\ ListsTyped' /\ HandsTyped' /\ InHand'
    BY <1>1, CountersStep, ListsStep, HandsStep
<1>6. TypeOK'
    BY <1>2, <1>3, <1>4, <1>5 DEF TypeOK, WellFormed, Typed, Valued, CountersTyped, ListsTyped,
       HandsTyped
<1>7. Backlog' /\ done' <= Len(accepted')
    BY <1>1, BacklogStep
<1>8. Counts'
    BY <1>1, <1>5, <1>7, CountsStep
<1>9. Undisturbed'
    BY <1>1, <1>5, UndisturbedStep
<1>10. NumberedInOrder'
    BY <1>1, <1>5, NumbersStep
<1>11. Assigned'
    BY <1>1, AssignedStep
<1> QED BY <1>2, <1>4, <1>5, <1>6, <1>7, <1>8, <1>9, <1>10, <1>11 DEF IInv

LEMMA Invariant == Spec => []IInv
BY InitInvariant, NextInvariant, PTL DEF Spec

-----------------------------------------------------------------------------
(* Theorems *)

\* The state of the server keeps its types.
THEOREM TypeCorrect == Spec => []TypeOK
<1>1. IInv => TypeOK
    BY DEF IInv
<1> QED BY <1>1, Invariant, PTL

\* No write is lost, executed twice or overtaken between invoke and
\* process_task.
THEOREM NoWriteLost == Spec => []Backlog
<1>1. IInv => Backlog
    BY DEF IInv
<1> QED BY <1>1, Invariant, PTL

\* invoke never reads the tree while process_task changes it.
THEOREM NoTreeRace == Spec => []TreeRaceFree
<1>1. IInv => TreeRaceFree
    BY DEF IInv, TreeLocked, TreeRaceFree
<1> QED BY <1>1, Invariant, PTL

\* Until a second server joins, the number in the reply to a write is its
\* place in the order of execution.
THEOREM NumbersArePlaces == Spec => []NumberedInOrder
<1>1. IInv => NumberedInOrder
    BY DEF IInv
<1> QED BY <1>1, Invariant, PTL

\* Only AnswerRead replies to a verify, with what op_count says.
LEMMA VerifyReply ==
    ASSUME IInv, [Next]_vars, answer'[1] = "verify", answer' # answer
    PROVE  /\ pc.main = "read"
           /\ answer'[2] \in Asked
           /\ answer'[3] = (answer'[2] <= op_count)
           /\ UNCHANGED <<op_count, done, given>>
<1>1. ASSUME NEW message \in Write \cup Read, Receive(message) PROVE FALSE
    BY <1>1 DEF Receive, NoAnswer
<1>2. ASSUME NumberWrite PROVE FALSE
    BY <1>2 DEF NumberWrite
<1>3. CASE AnswerRead
    <2>1. /\ pc.main = "read" /\ answer' \in Replies(request)
          /\ UNCHANGED <<op_count, done, given>>
        BY <1>3 DEF AnswerRead, Goes, data, history
    <2>2. request \in Read
        BY <2>1 DEF IInv, InHand
    <2>3. CASE request \in [op : {"get"}, key : Key]
        <3>1. request.op = "get"
            BY <2>3
        <3>2. PICK found : answer' = <<"get", request.key, found>>
            BY <2>1, <3>1 DEF Replies
        <3> QED BY <3>2
    <2>4. CASE request \in [op : {"size", "height", "getkeys"}]
        <3>1. request.op \in {"size", "height", "getkeys"}
            BY <2>4
        <3>2. answer'[1] = request.op
            BY <2>1, <3>1 DEF Replies
        <3> QED BY <3>1, <3>2
    <2>5. CASE request \in [op : {"verify"}, number : Asked]
        <3>1. request.op = "verify" /\ request.number \in Asked
            BY <2>5
        <3>2. answer' = <<"verify", request.number, Verified(request.number)>>
            BY <2>1, <3>1 DEF Replies
        <3> QED BY <2>1, <3>1, <3>2 DEF Verified
    <2> QED BY <2>2, <2>3, <2>4, <2>5 DEF Read
<1>4. ASSUME ~AnswerRead, ~NumberWrite, Next \/ UNCHANGED vars,
             ~\E message \in Write \cup Read : Receive(message)
      PROVE  UNCHANGED answer
    BY <1>4 DEF Next, Main, Worker, Watcher, vars,
        MainLocksQueue, LoadAssigned, StoreAssigned, Enqueue,
        MainLocksTree, WorkerLocksQueue, WaitForTask, WakeSpuriously, TakeTask,
        WorkerLocksTree, ApplyTask, ApplyHangs, Spin, LoadCount, StoreCount, ZeroCount,
        ZeroAssigned
<1> QED BY <1>1, <1>2, <1>3, <1>4

\* verify(n) never says yes before n writes are executed, however the resets
\* of child_watcher fall (verify, process_task, child_watcher).
THEOREM NoEarlyYes == Spec => VerifyNeverEarly
<1>1. IInv /\ [Next]_vars =>
        ((answer'[1] = "verify" /\ answer' # answer /\ answer'[3]) => answer'[2] <= done)
    <2> SUFFICES ASSUME IInv, [Next]_vars, answer'[1] = "verify", answer' # answer, answer'[3]
                 PROVE  answer'[2] <= done
        OBVIOUS
    <2>1. answer'[2] \in Asked /\ answer'[3] = (answer'[2] <= op_count)
        BY VerifyReply
    <2>2. answer'[2] <= op_count
        BY <2>1
    <2>3. answer'[2] \in Int /\ op_count \in Nat /\ done \in Nat /\ op_count <= done
        BY <2>1, AskedAssumption DEF IInv, TypeOK, Counts
    <2> QED BY <2>2, <2>3
<1> QED BY <1>1, Invariant, PTL DEF Spec, VerifyNeverEarly

\* Until a second server joins, verify(n) says yes exactly when the write
\* that got the number n is executed.
THEOREM ExactYes == Spec => VerifyExact
<1>1. IInv /\ [Next]_vars =>
        ((resets = 0 /\ answer'[1] = "verify" /\ answer' # answer) =>
            \A place \in DOMAIN given :
                given[place] = answer'[2] => (answer'[3] <=> place <= done))
    <2> SUFFICES ASSUME IInv, [Next]_vars, resets = 0, answer'[1] = "verify",
                        answer' # answer, NEW place \in DOMAIN given,
                        given[place] = answer'[2]
                 PROVE  answer'[3] <=> place <= done
        OBVIOUS
    <2>1. pc.main = "read" /\ answer'[3] = (answer'[2] <= op_count)
        BY VerifyReply
    <2>2. pc.worker \notin {"apply", "spin", "load", "store"}
        BY <2>1 DEF IInv, TreeLocked
    <2>3. done = op_count
        BY <2>2 DEF IInv, Undisturbed
    <2>4. answer'[2] = place
        BY DEF IInv, NumberedInOrder
    <2> QED BY <2>1, <2>3, <2>4
<1> QED BY <1>1, Invariant, PTL DEF Spec, VerifyExact

\* A worker caught in minValue keeps both locks for good, and no client gets
\* an answer any more but the one whose write is queued already.
THEOREM SpinStopsTheServer == Spec => SpinBlocksAll
<1>1. IInv /\ [Next]_vars =>
        (pc.worker = "spin" =>
            /\ queue_lock' = "worker" /\ tree_lock' = "worker"
            /\ accepted' = accepted
            /\ answer' \in {answer, NoAnswer, <<"write", last_assigned>>})
    <2> SUFFICES ASSUME IInv, [Next]_vars, pc.worker = "spin"
                 PROVE  /\ queue_lock' = "worker" /\ tree_lock' = "worker"
                        /\ accepted' = accepted
                        /\ answer' \in {answer, NoAnswer, <<"write", last_assigned>>}
        OBVIOUS
    <2>1. /\ queue_lock = "worker" /\ tree_lock = "worker"
          /\ pc.main \notin {"load", "store", "enqueue", "read"}
        BY DEF IInv, QueueLocked, TreeLocked
    <2>2. CASE Main
        BY <2>1, <2>2 DEF Main, Goes, data, locks, history, Receive, MainLocksQueue,
            LoadAssigned, StoreAssigned, Enqueue, NumberWrite, Number, MainLocksTree,
            AnswerRead, TakesQueueLock, TakesTreeLock
    <2>3. CASE Worker
        BY <2>1, <2>3 DEF Worker, Goes, vars, data, locks, history, WorkerLocksQueue,
            WaitForTask, WakeSpuriously, TakeTask, WorkerLocksTree, ApplyTask, ApplyHangs,
            Spin, LoadCount, StoreCount
    <2>4. CASE Watcher
        BY <2>1, <2>4 DEF Watcher, ZeroCount, ZeroAssigned, locks, history
    <2>5. CASE UNCHANGED vars
        BY <2>1, <2>5 DEF vars, locks, history
    <2> QED BY <2>2, <2>3, <2>4, <2>5 DEF Next
<1> QED BY <1>1, Invariant, PTL DEF Spec, SpinBlocksAll

-----------------------------------------------------------------------------
(* The server against its promise *)

LEMMA SameCardinality ==
    ASSUME NEW S
    PROVE  Promise!Cardinality(S) = Cardinality(S)
BY DEF Promise!Cardinality, Cardinality

LEMMA InitKeepsPromise == Init => Promise!Init
BY EmptyContents DEF Init, Promise!Init, NoAnswer, Promise!NoAnswer

LEMMA ReceiveIsRequest ==
    ASSUME NEW message, Receive(message)
    PROVE  Promise!Request
<1>1. answer' = NoAnswer /\ UNCHANGED <<accepted, done, tree>>
    BY DEF Receive, data, history
<1> QED BY <1>1 DEF Promise!Request, NoAnswer, Promise!NoAnswer

LEMMA EnqueueIsAccept ==
    ASSUME IInv, Enqueue
    PROVE  Promise!Accept
<1>1. /\ request \in Write /\ accepted' = Append(accepted, request)
      /\ UNCHANGED <<done, tree, answer>>
    BY DEF Enqueue, IInv, InHand
<1>2. request \in Promise!Write
    BY <1>1 DEF Write, Put, Del, Promise!Write
<1> QED BY <1>1, <1>2 DEF Promise!Accept

LEMMA ApplyIsExecute ==
    ASSUME IInv, ApplyTask
    PROVE  Promise!Execute
<1>1. /\ ~Hangs /\ tree' = Applied /\ done' = done + 1
      /\ UNCHANGED <<accepted, answer>> /\ pc.worker = "apply"
    BY DEF ApplyTask, Goes
<1>2. task \in Write /\ done < Len(accepted) /\ accepted[done + 1] = task
    BY <1>1, NextWrite, TypeParts DEF IInv, Counts
<1>3. Contents(tree)' = Promise!Updated(task)
    <2>1. CASE task \in Put
        <3>1. task.op = "put" /\ task.key \in Key /\ task.value \in Value
            BY <2>1 DEF Put
        <3>2. tree' = TreePut(tree, task.key, task.value)
            BY <1>1, <3>1 DEF Applied
        <3>3. Contents(TreePut(tree, task.key, task.value)) =
                [k \in DOMAIN Contents(tree) \cup {task.key} |->
                    IF k = task.key THEN task.value ELSE Contents(tree)[k]]
            <4>1. PICK key \in Key, value \in Value : key = task.key /\ value = task.value
                BY <3>1
            <4>2. WellFormed(tree) /\ Ordered(tree)
                BY DEF IInv
            <4>3. Contents(TreePut(tree, key, value)) =
                    [k \in DOMAIN Contents(tree) \cup {key} |->
                        IF k = key THEN value ELSE Contents(tree)[k]]
                BY <4>2, PutUpdates
            <4> QED BY <4>1, <4>3
        <3> QED BY <3>1, <3>2, <3>3 DEF Promise!Updated, Promise!Present
    <2>2. CASE task \in Del
        <3>1. task.op = "del" /\ task.key \in Key
            BY <2>2 DEF Del
        <3>2. tree' = TreeDel(tree, task.key) /\ ~DelSpins(tree, task.key)
            BY <1>1, <3>1 DEF Applied, Hangs
        <3>3. Contents(TreeDel(tree, task.key)) = Without(Contents(tree), task.key)
            BY <3>1, <3>2, DelRemoves DEF IInv
        <3> QED BY <3>1, <3>2, <3>3 DEF Promise!Updated, Promise!Present, Without
    <2> QED BY <1>2, <2>1, <2>2 DEF Write
<1> QED BY <1>1, <1>2, <1>3 DEF Promise!Execute

LEMMA NumberIsAcknowledge ==
    ASSUME IInv, NumberWrite
    PROVE  Promise!Acknowledge /\ UNCHANGED <<accepted, done, Contents(tree)>>
<1>1. /\ pc.main = "number" /\ answer' = <<"write", last_assigned>>
      /\ UNCHANGED <<accepted, done, tree>>
    BY DEF NumberWrite, Number, Goes, data
<1>2. last_assigned <= Len(accepted) /\ last_assigned \in Nat /\ Len(accepted) \in Nat
    BY <1>1, LenProperties DEF IInv, Assigned, TypeOK
<1>3. last_assigned \in 0..Len(accepted)
    BY <1>2
<1> QED BY <1>1, <1>3 DEF Promise!Acknowledge

\* Values that fit in a pointer are found as they were put.
FitsInPointer == \A value \in Value : Chars[value] < PointerSize

LEMMA FoundAsPut ==
    ASSUME IInv, FitsInPointer, NEW key \in Key
    PROVE  Found(TreeGet(tree, key)) = {IF key \in DOMAIN Contents(tree)
                                        THEN Contents(tree)[key] ELSE NoValue}
<1> DEFINE contents == Contents(tree)
           found == IF key \in DOMAIN contents THEN contents[key] ELSE NoValue
<1>1. TreeGet(tree, key) = found
    BY GetFromContents, TypeParts DEF IInv
<1>2. contents \in [DOMAIN contents -> Value]
    BY ContentsValued, TypeParts DEF IInv
<1>3. found = NoValue \/ found \in Value
    <2> HIDE DEF contents
    <2> QED BY <1>2
<1> HIDE DEF found
<1>4. Found(found) = {found}
    BY <1>3 DEF Found, FitsInPointer
<1> QED BY <1>1, <1>4 DEF found

LEMMA AnswerIsReply ==
    ASSUME IInv, FitsInPointer, AnswerRead
    PROVE  Promise!Reply
<1>1. /\ pc.main = "read" /\ answer' \in Replies(request)
      /\ UNCHANGED <<accepted, done, tree>>
    BY DEF AnswerRead, Goes, data, history
<1>2. request \in Read /\ WellFormed(tree) /\ Ordered(tree)
    BY <1>1 DEF IInv, InHand
<1>3. UNCHANGED <<accepted, done, Contents(tree)>>
    BY <1>1
<1>4. CASE request \in [op : {"get"}, key : Key]
    <2>1. request.op = "get" /\ request.key \in Key
        BY <1>4
    <2>2. PICK found \in Found(TreeGet(tree, request.key)) : answer' = <<"get", request.key, found>>
        BY <1>1, <2>1 DEF Replies
    <2>3. found = IF request.key \in DOMAIN Contents(tree)
                  THEN Contents(tree)[request.key] ELSE NoValue
        BY <2>1, <2>2, FoundAsPut
    <2>4. Promise!Get
        BY <2>1, <2>2, <2>3 DEF Promise!Get, Promise!Present
    <2> QED BY <1>3, <2>4 DEF Promise!Reply
<1>5. CASE request \in [op : {"verify"}, number : Asked]
    <2>1. request.op = "verify" /\ request.number \in Asked
        BY <1>5
    <2>2. answer' = <<"verify", request.number, request.number <= op_count>>
        BY <1>1, <2>1 DEF Replies, Verified
    <2>3. /\ op_count \in Nat /\ done \in Nat /\ op_count <= done
          /\ request.number \in Int
        BY <2>1, AskedAssumption DEF IInv, TypeOK, Counts
    <2> DEFINE yes == request.number <= op_count
    <2>4. yes \in BOOLEAN
        BY <2>3
    <2>5. yes => request.number <= done
        BY <2>3
    <2>6. answer' = <<"verify", request.number, yes>>
        BY <2>2
    <2> HIDE DEF yes
    <2>7. Promise!Verify
        BY <2>1, <2>4, <2>5, <2>6 DEF Promise!Verify
    <2> QED BY <1>3, <2>7 DEF Promise!Reply
<1>6. Promise!Cardinality(Promise!Present) = TreeSize(tree) /\ TreeSize(tree) \in Nat
    BY <1>2, SameCardinality, SizeCountsKeys DEF Promise!Present
<1>7. CASE request.op = "size"
    <2>1. answer' = <<"size", TreeSize(tree)>>
        BY <1>1, <1>7 DEF Replies
    <2>2. Promise!Size
        BY <1>6, <2>1 DEF Promise!Size
    <2> QED BY <1>3, <2>2 DEF Promise!Reply
<1>8. CASE request.op = "height"
    <2>1. answer' = <<"height", TreeHeight(tree)>>
        BY <1>1, <1>8 DEF Replies
    <2>2. /\ TreeHeight(tree) \in 1..Max({1, TreeSize(tree)})
          /\ TreeSize(tree) < 2^TreeHeight(tree)
          /\ TreeHeight(tree) <= 1 + TreeSize(tree)
        BY <1>2, HeightFitsSize
    <2>3. TreeHeight(tree) \in 1..(1 + TreeSize(tree))
        BY <1>6, <2>2
    <2>4. Promise!Height
        BY <1>6, <2>1, <2>2, <2>3 DEF Promise!Height
    <2> QED BY <1>3, <2>4 DEF Promise!Reply
<1>9. CASE request.op = "getkeys"
    <2>1. answer' = <<"getkeys", TreeKeys(tree)>>
        BY <1>1, <1>9 DEF Replies
    <2>2. TreeKeys(tree) \in SetToSeqs(DOMAIN Contents(tree))
        BY <1>2, KeysOfTree
    <2>3. TreeKeys(tree) \in Promise!SetToSeqs(Promise!Present)
        BY <2>2, SameCardinality DEF Promise!SetToSeqs, SetToSeqs, Promise!Present
    <2>4. Promise!GetKeys
        BY <2>1, <2>3 DEF Promise!GetKeys
    <2> QED BY <1>3, <2>4 DEF Promise!Reply
<1>10. CASE request \in [op : {"size", "height", "getkeys"}]
    BY <1>7, <1>8, <1>9, <1>10
<1> QED BY <1>2, <1>4, <1>5, <1>10 DEF Read

LEMMA NextKeepsPromise ==
    FitsInPointer /\ IInv /\ [Next]_vars => [Promise!Next]_Promise!vars
<1> SUFFICES ASSUME FitsInPointer, IInv, [Next]_vars PROVE [Promise!Next]_Promise!vars
    OBVIOUS
<1>1. ASSUME NEW message \in Write \cup Read, Receive(message) PROVE Promise!Next
    BY <1>1, ReceiveIsRequest DEF Promise!Next
<1>2. CASE Enqueue
    BY <1>2, EnqueueIsAccept DEF Promise!Next
<1>3. CASE NumberWrite
    BY <1>3, NumberIsAcknowledge DEF Promise!Next, Promise!Reply
<1>4. CASE AnswerRead
    BY <1>4, AnswerIsReply DEF Promise!Next
<1>5. CASE ApplyTask
    BY <1>5, ApplyIsExecute DEF Promise!Next
<1>6. ASSUME UNCHANGED <<accepted, done, tree, answer>> PROVE UNCHANGED Promise!vars
    BY <1>6 DEF Promise!vars
<1>7. MainLocksQueue \/ LoadAssigned \/ StoreAssigned \/ MainLocksTree
        => UNCHANGED <<accepted, done, tree, answer>>
    BY DEF MainLocksQueue, LoadAssigned, StoreAssigned, MainLocksTree, data, history
<1>8. Worker /\ ~ApplyTask => UNCHANGED <<accepted, done, tree, answer>>
    BY DEF Worker, WorkerLocksQueue, WaitForTask, WakeSpuriously, TakeTask, WorkerLocksTree,
        ApplyHangs, Spin, LoadCount, StoreCount, data, history, vars
<1>9. Watcher \/ UNCHANGED vars => UNCHANGED <<accepted, done, tree, answer>>
    BY DEF Watcher, ZeroCount, ZeroAssigned, data, history, vars
<1> QED BY <1>1, <1>2, <1>3, <1>4, <1>5, <1>6, <1>7, <1>8, <1>9 DEF Next, Main

\* For values that fit in a pointer (tree_skel.c stores sizeof(task->data)
\* bytes of each) the queue, the locks and the worker are invisible: accepted
\* writes take effect one by one in their order, and every reply is the one of
\* the dictionary they have made.
THEOREM KeepsItsPromise ==
    ASSUME FitsInPointer
    PROVE  Spec => ImplementsAsyncStore
BY InitKeepsPromise, NextKeepsPromise, Invariant, PTL
   DEF Spec, ImplementsAsyncStore, Promise!Spec
=============================================================================
