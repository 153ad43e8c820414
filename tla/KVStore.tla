------------------------------- MODULE KVStore -------------------------------
(***************************************************************************)
(* What include/tree.h promises of a tree: a dictionary.  result holds the *)
(* last call with its arguments and what it returned.                      *)
(***************************************************************************)
EXTENDS Integers, FiniteSets, SequencesExt

CONSTANTS Key, Value, NoValue

VARIABLES contents,   \* a function from the present keys to their values
          result      \* <<call with arguments, returned value>>

vars == <<contents, result>>

Dictionaries == UNION {[present -> Value] : present \in SUBSET Key}

Present == DOMAIN contents

Init == /\ contents = << >>
        /\ result = << <<"none">>, 0>>

Put(key, value) ==
    /\ contents' = [k \in Present \cup {key} |->
                        IF k = key THEN value ELSE contents[k]]
    /\ result' = << <<"put", key, value>>, 0>>

Get(key) ==
    /\ result' = << <<"get", key>>, IF key \in Present THEN contents[key] ELSE NoValue>>
    /\ UNCHANGED contents

DelPresent(key) ==
    /\ key \in Present
    /\ contents' = [k \in Present \ {key} |-> contents[k]]
    /\ result' = << <<"del", key>>, 0>>

DelMissing(key) ==
    /\ key \notin Present
    /\ result' = << <<"del", key>>, -1>>
    /\ UNCHANGED contents

Size == /\ result' = << <<"size">>, Cardinality(Present)>>
        /\ UNCHANGED contents

\* A binary tree with n nodes has between log(n + 1) and n levels; the
\* empty one may be counted as one level.
Height ==
    /\ \E height \in 1..Max({1, Cardinality(Present)}) :
            /\ Cardinality(Present) < 2^height
            /\ result' = << <<"height">>, height>>
    /\ UNCHANGED contents

\* Every present key, once, in some order.
GetKeys == /\ \E keys \in SetToSeqs(Present) : result' = << <<"getkeys">>, keys>>
           /\ UNCHANGED contents

Next == \/ \E key \in Key, value \in Value : Put(key, value)
        \/ \E key \in Key : Get(key) \/ DelPresent(key) \/ DelMissing(key)
        \/ Size \/ Height \/ GetKeys

Spec == Init /\ [][Next]_vars
=============================================================================
