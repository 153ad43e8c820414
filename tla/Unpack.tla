------------------------------- MODULE Unpack -------------------------------
(***************************************************************************)
(* message_t__unpack on what one read delivered: a contiguous piece of the *)
(* bytes of two messages written one after the other.  A read that comes   *)
(* late finds both, one that returns early only the beginning of the       *)
(* first, and the read after a reply longer than its buffer starts in the  *)
(* middle.                                                                 *)
(*                                                                         *)
(* The function scans all members before it stores the first, in slabs     *)
(* that double, and allocates the message, the slabs, the array of unknown *)
(* fields, their bytes and the strings; each allocation may fail.  A block *)
(* is a pair: what it is for and which one.                                *)
(***************************************************************************)
EXTENDS Wire

CONSTANTS
  Messages,     \* the messages that are written
  FirstSlab     \* members that fit in the slab on the stack: 16

ASSUME UnpackAssumption == Messages \subseteq MessageT /\ FirstSlab \in Nat \ {0}

VARIABLES
  sent,         \* the two messages, and first and last byte of the piece
  pc,
  rem,          \* what is left of the piece to scan
  scanned,      \* Seq([tag, field, wire, pref, data])
  which_slab,   \* the slab that is filled, 0 on the stack
  in_slab_index,\* members in it
  parsed,       \* how many of them are stored
  message,      \* rv's fields; those that are strings point to a block
  heap,         \* the live blocks
  misfreed      \* history: a block freed that was not live

unpackVars == << sent, pc, rem, scanned, which_slab, in_slab_index, parsed, message, heap, misfreed >>

Stream == message_pack(sent.first) \o message_pack(sent.second)
data == SubSeq(Stream, sent.from, sent.to)

NULL == <<"null", 0>>
EmptyString == <<"static", 0>>
Rv == <<"message", 0>>
UnknownFields == <<"array", 0>>
Slab(s) == <<"slab", s>>
SlabSize[s \in Nat] == IF s = 0 THEN FirstSlab ELSE 2 * SlabSize[s - 1]
Bytes(k) == <<"bytes", k>>       \* what is copied out of member k
FoundData == <<"found", 0>>          \* the copy of an entry's data that tree_get returns

Field(k) == message_t__field_descriptors[scanned[k].field]
IsUnknown(k) == scanned[k].field = 0

-----------------------------------------------------------------------------

UnpackInit ==
  /\ \E m1, m2 \in Messages :
       LET len == Len(message_pack(m1) \o message_pack(m2))
       IN  \E i \in 1 .. len + 1 : \E j \in i - 1 .. len :
             sent = [first |-> m1, second |-> m2, from |-> i, to |-> j]
  /\ pc = "alloc"
  /\ rem = data
  /\ scanned = << >>
  /\ which_slab = 0
  /\ in_slab_index = 0
  /\ parsed = 0
  /\ message = [opcode |-> 0, c_type |-> 0, data_size |-> 0,
                data |-> EmptyString, key |-> EmptyString]
  /\ heap = {}
  /\ misfreed = FALSE

Allocate(block) == heap' = heap \cup {block}

Free(blocks) ==
  /\ heap' = heap \ blocks
  /\ misfreed' = (misfreed \/ ~ blocks \subseteq heap)

Alloc ==
  /\ pc = "alloc"
  /\ \/ Allocate(Rv) /\ pc' = "scan"
     \/ pc' = "nomem" /\ UNCHANGED heap
  /\ UNCHANGED << sent, rem, scanned, which_slab, in_slab_index, parsed, message, misfreed >>

Slabs == {Slab(s) : s \in 1 .. which_slab}

(* error_cleanup_during_scan: no string has been copied yet.  why is       *)
(* "refused" for wrong bytes and "nomem", both return NULL.                *)
CleanupDuringScan(why) ==
  /\ pc' = why
  /\ Free({Rv} \cup Slabs)
  /\ UNCHANGED << sent, rem, scanned, which_slab, in_slab_index, parsed, message >>

Scan ==
  /\ pc = "scan" /\ rem # << >>
  /\ LET head == parse_tag_and_wiretype(rem)
         body == SubSeq(rem, head.used + 1, Len(rem))
         len  == member_length(body, head.wire)
         full == in_slab_index = SlabSize[which_slab]
     IN  IF head.used = 0 \/ len = 0 THEN CleanupDuringScan("refused")
         ELSE \/ /\ IF full
                    THEN /\ Allocate(Slab(which_slab + 1))
                         /\ which_slab' = which_slab + 1
                         /\ in_slab_index' = 1
                    ELSE /\ in_slab_index' = in_slab_index + 1
                         /\ UNCHANGED << which_slab, heap >>
                 /\ scanned' = Append(scanned,
                      [tag |-> head.tag, field |-> int_range_lookup(head.tag),
                       wire |-> head.wire, data |-> SubSeq(body, 1, len),
                       pref |-> IF head.wire = WIRE_TYPE_LENGTH_PREFIXED
                                THEN VarintLength(body, 5) ELSE 0])
                 /\ rem' = SubSeq(body, len + 1, Len(body))
                 /\ UNCHANGED << sent, pc, parsed, message, misfreed >>
              \/ full /\ CleanupDuringScan("nomem")

-----------------------------------------------------------------------------

\* Mutant of Owned: the bytes of unknown members are forgotten.
OwnedWithoutUnknown(m, n) ==
  {b \in {m.data, m.key} : b \notin {NULL, EmptyString}}
    \cup (IF \E k \in 1 .. Len(scanned) : IsUnknown(k) THEN {UnknownFields} ELSE {})
    \cup {Rv}

(* protobuf_c_message_free_unpacked for the message as it is with its      *)
(* first n members stored.                                                 *)
Owned(m, n) ==
  {b \in {m.data, m.key} : b \notin {NULL, EmptyString}}
    \cup {Bytes(k) : k \in {k \in 1 .. n : IsUnknown(k)}}
    \cup (IF \E k \in 1 .. Len(scanned) : IsUnknown(k) THEN {UnknownFields} ELSE {})
    \cup {Rv}

(* error_cleanup, with the message m that parse_member left and n stored.  *)
Cleanup(m, n, why) == /\ pc' = why /\ Free(Owned(m, n) \cup Slabs)

AllocUnknown ==
  /\ pc = "scan" /\ rem = << >>
  /\ IF \E k \in 1 .. Len(scanned) : IsUnknown(k)
     THEN \/ Allocate(UnknownFields) /\ pc' = "parse" /\ UNCHANGED misfreed
          \/ pc' = "nomem" /\ Free({Rv} \cup Slabs)
     ELSE pc' = "parse" /\ UNCHANGED << heap, misfreed >>
  /\ UNCHANGED << sent, rem, scanned, which_slab, in_slab_index, parsed, message >>

Pointer(k) == message[Field(k).name]
Stored(k, value) == message' = [message EXCEPT ![Field(k).name] = value]

(* A member of no field keeps its bytes; without memory for them they are  *)
(* a NULL that free_unpacked passes to free.                               *)
KeepUnknown(k) ==
  /\ UNCHANGED message
  /\ \/ Allocate(Bytes(k)) /\ UNCHANGED << pc, misfreed >>
     \/ Cleanup(message, k - 1, "nomem")

\* Mutant of StoreString: the freed string stays in the message until the new one is there.
StoreStringLate(k) ==
  LET old == {Pointer(k)} \ {NULL, EmptyString}
  IN  \/ /\ Stored(k, Bytes(k))
         /\ heap' = (heap \ old) \cup {Bytes(k)}
         /\ misfreed' = (misfreed \/ ~ old \subseteq heap)
         /\ UNCHANGED pc
      \/ /\ UNCHANGED message
         /\ pc' = "nomem"
         /\ LET rest == Owned(message, k - 1) \cup Slabs
            IN  /\ heap' = (heap \ old) \ rest
                /\ misfreed' = (misfreed \/ ~ rest \subseteq heap \ old)

(* The string of an earlier member of the field is freed first.            *)
StoreString(k) ==
  LET old  == {Pointer(k)} \ {NULL, EmptyString}
      lost == [message EXCEPT ![Field(k).name] = NULL]
  IN  \/ /\ Stored(k, Bytes(k))
         /\ heap' = (heap \ old) \cup {Bytes(k)}
         /\ misfreed' = (misfreed \/ ~ old \subseteq heap)
         /\ UNCHANGED pc
      \/ /\ message' = lost
         /\ pc' = "nomem"
         /\ LET rest == Owned(lost, k - 1) \cup Slabs
            IN  /\ heap' = (heap \ old) \ rest
                /\ misfreed' = (misfreed \/ ~ old \subseteq heap \/ ~ rest \subseteq heap \ old)

\* Mutant of StoreNumber: the first value of a field stays.
StoreNumberOnce(k) ==
  /\ IF Pointer(k) = 0 THEN Stored(k, member_value(Field(k), scanned[k].data, 0))
     ELSE UNCHANGED message
  /\ UNCHANGED << pc, heap, misfreed >>

StoreNumber(k) ==
  /\ Stored(k, member_value(Field(k), scanned[k].data, 0))
  /\ UNCHANGED << pc, heap, misfreed >>

ParseMember ==
  /\ pc = "parse" /\ parsed < Len(scanned)
  /\ LET k == parsed + 1
     IN  IF IsUnknown(k) THEN KeepUnknown(k)
         ELSE IF ~ wire_type_fits(Field(k), scanned[k].wire)
              THEN Cleanup(message, k - 1, "refused") /\ UNCHANGED message
         ELSE IF Field(k).type = "STRING" THEN StoreString(k)
         ELSE StoreNumber(k)
  /\ parsed' = parsed + 1
  /\ UNCHANGED << sent, rem, scanned, which_slab, in_slab_index >>

Return ==
  /\ pc = "parse" /\ parsed = Len(scanned)
  /\ pc' = "done"
  /\ Free(Slabs)
  /\ UNCHANGED << sent, rem, scanned, which_slab, in_slab_index, parsed, message >>

OP_GET == 30

(* What the server does with a request it has read.  invoke frees the key  *)
(* of a get, be it a copy or the library's empty string, and the answer's  *)
(* data is a copy of what it finds; the strings of a put or a del go into  *)
(* a task.  What else the answer says is not followed.                     *)
Invoke ==
  /\ pc = "done"
  /\ pc' = "invoked"
  /\ IF message.opcode = OP_GET
     THEN \E found \in {{}, {FoundData}} :
            /\ heap' = (heap \ {message.key}) \cup found
            /\ misfreed' = (misfreed \/ message.key \notin heap)
     ELSE UNCHANGED << heap, misfreed >>
  /\ UNCHANGED << sent, rem, scanned, which_slab, in_slab_index, parsed, message >>

(* network_send sizes and packs the message, writes it and frees it, but   *)
(* no string of it; when the write fails it frees nothing.                 *)
Send ==
  /\ pc = "invoked"
  /\ \/ pc' = "released" /\ Free({Rv})
     \/ pc' = "unsent" /\ UNCHANGED << heap, misfreed >>
  /\ UNCHANGED << sent, rem, scanned, which_slab, in_slab_index, parsed, message >>

UnpackNext == Alloc \/ Scan \/ AllocUnknown \/ ParseMember \/ Return \/ Invoke \/ Send

UnpackSpec == UnpackInit /\ [][UnpackNext]_unpackVars

-----------------------------------------------------------------------------

UnpackTypeOK ==
  /\ sent.first \in Messages /\ sent.second \in Messages
  /\ pc \in {"alloc", "scan", "parse", "done", "invoked", "released", "unsent", "refused", "nomem"}
  /\ \A i \in 1 .. Len(rem) : rem[i] \in Byte
  /\ \A k \in 1 .. Len(scanned) :
       /\ scanned[k].field \in 0 .. n_fields
       /\ scanned[k].pref <= Len(scanned[k].data)
  /\ in_slab_index \in 0 .. SlabSize[which_slab]
  /\ Len(scanned) = SlabSize[which_slab] - FirstSlab + in_slab_index
  /\ parsed \in 0 .. Len(scanned)
  /\ message.opcode \in Int32 /\ message.c_type \in Int32 /\ message.data_size \in Int32
  /\ {message.data, message.key} \subseteq
       {NULL, EmptyString} \cup {Bytes(k) : k \in 1 .. Len(scanned)}
  /\ heap \subseteq {Rv, UnknownFields, FoundData} \cup Slabs \cup {Bytes(k) : k \in 1 .. Len(scanned)}

(* The text a pointer of the message leads to.                             *)
TextAt(block) ==
  IF block \in {NULL, EmptyString} THEN << >>
  ELSE LET member == scanned[block[2]]
       IN  member_value(message_t__field_descriptors[member.field], member.data, member.pref)

Values == [message EXCEPT !.data = TextAt(@), !.key = TextAt(@)]

First == Len(message_pack(sent.first))
Refused == pc = "refused"
Returned == pc = "done"
Answered == pc \in {"invoked", "released", "unsent"}

(* The fields whose number is in is, the others as message_t__init sets    *)
(* them.                                                                   *)
Only(m, is) ==
  [name \in DOMAIN init_value |->
     IF \E i \in is : message_t__field_descriptors[i].name = name
     THEN m[name] ELSE init_value[name]]

(* The buffer the callers allocate with get_packed_size is what pack       *)
(* fills, for every message.                                               *)
PackFillsBuffer ==
  \A m \in {sent.first, sent.second} : Len(message_pack(m)) = message_get_packed_size(m)

(* A message that arrives whole is never refused and has the values it was *)
(* sent with, negative sizes, empty strings and operations that are not in *)
(* the enum included.                                                      *)
WholeIsRead ==
  sent.from = 1 /\ sent.to = First =>
    /\ ~ Refused
    /\ Returned => Values = sent.first

(* Two answers that one read finds together become one message: the second *)
(* one's, with the first one's values in the fields the second left zero.  *)
LaterMessageWins ==
  sent.from = 1 /\ sent.to = Len(Stream) =>
    /\ ~ Refused
    /\ Returned =>
         LET zero == {i \in 1 .. n_fields : FieldPack(sent.second, i) = << >>}
         IN  \A i \in 1 .. n_fields :
               LET field == message_t__field_descriptors[i]
               IN  Values[field.name] =
                     IF i \in zero THEN sent.first[field.name] ELSE sent.second[field.name]

(* Part of a message is refused, or lacks its last fields: no field has a  *)
(* value that was not sent, and the message is never taken for the whole.  *)
CutIsNoticed ==
  sent.from = 1 /\ sent.to < First /\ Returned =>
    /\ \E n \in 0 .. n_fields : Values = Only(sent.first, 1 .. n)
    /\ Values # sent.first

(* So what a read delivers is read as it was sent, or seen to be cut, or    *)
(* merged in one known way.                                                *)
ReadAsSent == UnpackTypeOK /\ WholeIsRead /\ LaterMessageWins /\ CutIsNoticed

(* Unpacking frees nothing that is not allocated, whichever member is      *)
(* wrong and whichever allocation fails.                                   *)
FreedOnce == ~ Answered => ~ misfreed

(* NULL leaves nothing behind, and a message that is returned owns all     *)
(* that is left: free_unpacked would free the rest.                        *)
NothingLeaks ==
  /\ pc \in {"refused", "nomem"} => heap = {}
  /\ pc = "done" => heap = Owned(message, Len(scanned))

(* What network_send sizes and packs is allocated: the key of a get is not *)
(* any more.                                                               *)
SentIsLive == pc = "invoked" => message.key \in heap \cup {NULL, EmptyString}

(* network_server.h: network_send frees the memory of the message.  Of a   *)
(* get, whose strings nothing else keeps, the data it has found is left.   *)
SentIsFreed == pc = "released" /\ message.opcode = OP_GET => heap = {}
=============================================================================
