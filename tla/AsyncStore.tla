----------------------------- MODULE AsyncStore -----------------------------
(***************************************************************************)
(* What one server promises its clients: writes are accepted in an order,   *)
(* executed one by one in that order, and reads see exactly the writes that *)
(* have been executed.  The dictionary contents is the one of KVStore.      *)
(***************************************************************************)
EXTENDS Integers, Sequences, FiniteSets, SequencesExt

CONSTANTS Key, Value, NoValue,
          Asked     \* the operation numbers that clients ask about

VARIABLES accepted,   \* the writes in the order of acceptance
          done,       \* how many of them are executed
          contents,   \* a function from the present keys to their values
          answer      \* the last reply, or NoAnswer while there is none

vars == <<accepted, done, contents, answer>>

Write == [op : {"put"}, key : Key, value : Value]
         \cup [op : {"del"}, key : Key]

NoAnswer == <<"nobody">>

Present == DOMAIN contents

\* contents after one more write
Updated(write) ==
    IF write.op = "put"
    THEN [k \in Present \cup {write.key} |->
             IF k = write.key THEN write.value ELSE contents[k]]
    ELSE [k \in Present \ {write.key} |-> contents[k]]

Init == /\ accepted = << >>
        /\ done = 0
        /\ contents = << >>
        /\ answer = NoAnswer

Request == /\ answer' = NoAnswer
           /\ UNCHANGED <<accepted, done, contents>>

Accept == /\ \E write \in Write : accepted' = Append(accepted, write)
          /\ UNCHANGED <<done, contents, answer>>

Execute == /\ done < Len(accepted)
           /\ done' = done + 1
           /\ contents' = Updated(accepted[done + 1])
           /\ UNCHANGED <<accepted, answer>>

\* No write is numbered beyond the writes accepted so far.
Acknowledge == \E number \in 0..Len(accepted) : answer' = <<"write", number>>

Get == \E key \in Key :
    answer' = <<"get", key, IF key \in Present THEN contents[key] ELSE NoValue>>

Size == answer' = <<"size", Cardinality(Present)>>

Height == \E height \in 1..(1 + Cardinality(Present)) :
    /\ Cardinality(Present) < 2^height
    /\ answer' = <<"height", height>>

GetKeys == \E keys \in SetToSeqs(Present) : answer' = <<"getkeys", keys>>

\* verify(n) may say yes only when at least n writes are executed.
Verify == \E yes \in BOOLEAN, n \in Asked :
    /\ yes => n <= done
    /\ answer' = <<"verify", n, yes>>

Reply == /\ Acknowledge \/ Get \/ Size \/ Height \/ GetKeys \/ Verify
         /\ UNCHANGED <<accepted, done, contents>>

Next == Request \/ Accept \/ Execute \/ Reply

Spec == Init /\ [][Next]_vars
=============================================================================
