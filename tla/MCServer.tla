------------------------------ MODULE MCServer ------------------------------
(* The instance of Server that TLC checks.  Every value fits in a pointer.   *)
(* The writes are any over FreeKeys, MaxFree of them, or the shortest way    *)
(* into the endless loop of minValue: five puts that give the deleted node   *)
(* two children and its right child a left-left grandchild, and two deletes. *)
(* Reads come in between as they like, joins as long as the writes are free. *)
EXTENDS Server

CONSTANTS a, b,         \* values
          FreeKeys,     \* the keys of the free writes
          MaxFree       \* bound: how many of them

MCChars == [value \in Value |-> 3]
MCAsked == {1, 2}

Script == [i \in 1..5 |-> [op |-> "put", key |-> <<2, 1, 5, 4, 3>>[i], value |-> a]]
          \o <<[op |-> "del", key |-> 2], [op |-> "del", key |-> 5]>>

NextOfScript == /\ resets = 0
                /\ Append(accepted, request') = SubSeq(Script, 1, Len(accepted) + 1)

FreeWrite == /\ Len(accepted) < MaxFree
             /\ \A i \in DOMAIN accepted : accepted[i].key \in FreeKeys
             /\ request'.key \in FreeKeys

Scripted == /\ request' \in Write => request' = request \/ NextOfScript \/ FreeWrite
            /\ resets' # resets => Len(accepted) <= MaxFree
=============================================================================
