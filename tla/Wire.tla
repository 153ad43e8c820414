-------------------------------- MODULE Wire --------------------------------
(***************************************************************************)
(* How a MessageT becomes bytes: the part of protobuf-c.c that runs for    *)
(* the five fields of sdmessage.pb-c.c, two enums, a zigzag integer and    *)
(* two strings, all without label.  A byte is 0 .. 255.  A 32-bit word,    *)
(* signed or not, is the signed integer with its bits: an unsigned word    *)
(* above 2^31 - 1 is negative here.  A string is its bytes before the NUL, *)
(* and the NULL string packs like the empty one.                           *)
(***************************************************************************)
EXTENDS Integers, Sequences

Half == 1073741824                               \* 2^30
Int32 == {i \in Int : -Half - Half <= i /\ i <= Half - 1 + Half}
Byte == 0 .. 255
Text == {s \in Seq(1 .. 255) : Len(s) \in Int32}  \* an int counts what is sent

MessageT == [opcode : Int32, c_type : Int32, data_size : Int32, data : Text, key : Text]

init_value == [opcode |-> 0, c_type |-> 0, data_size |-> 0, data |-> << >>, key |-> << >>]

message_t__field_descriptors ==
  << [id |-> 1, name |-> "opcode",    type |-> "ENUM"],
     [id |-> 2, name |-> "c_type",    type |-> "ENUM"],
     [id |-> 3, name |-> "data_size", type |-> "SINT32"],
     [id |-> 4, name |-> "data",      type |-> "STRING"],
     [id |-> 5, name |-> "key",       type |-> "STRING"] >>

n_fields == 5

WIRE_TYPE_VARINT == 0
WIRE_TYPE_64BIT == 1
WIRE_TYPE_LENGTH_PREFIXED == 2
WIRE_TYPE_32BIT == 5

-----------------------------------------------------------------------------
(* Sizes, which the callers allocate.                                      *)

Below(w, limit) == 0 <= w /\ w < limit

uint32_size(w) ==
  IF Below(w, 128) THEN 1
  ELSE IF Below(w, 16384) THEN 2
  ELSE IF Below(w, 2097152) THEN 3
  ELSE IF Below(w, 268435456) THEN 4 ELSE 5

\* Mutant of int32_size: a negative number is counted as the 32-bit word it is.
int32_sizeAsWord(v) == uint32_size(v)

int32_size(v) == IF v < 0 THEN 10 ELSE uint32_size(v)

(* (v << 1) ^ (v >> 31), the product cut to 32 bits                        *)
zigzag32(v) ==
  IF v >= 0 THEN IF v < Half THEN 2 * v ELSE 2 * (v - Half - Half)
  ELSE IF v >= -Half THEN -2 * (v + 1) + 1 ELSE -2 * (v + Half + Half) - 1

sint32_size(v) == uint32_size(zigzag32(v))

get_tag_size(id) ==
  IF id < 16 THEN 1
  ELSE IF id < 2048 THEN 2
  ELSE IF id < 262144 THEN 3
  ELSE IF id < 33554432 THEN 4 ELSE 5

required_field_get_packed_size(field, member) ==
  get_tag_size(field.id) +
    CASE field.type = "SINT32" -> sint32_size(member)
      [] field.type = "ENUM"   -> int32_size(member)
      [] field.type = "STRING" -> uint32_size(Len(member)) + Len(member)

field_is_zeroish(field, member) ==
  IF field.type = "STRING" THEN member = << >> ELSE member = 0

unlabeled_field_get_packed_size(field, member) ==
  IF field_is_zeroish(field, member) THEN 0
  ELSE required_field_get_packed_size(field, member)

FieldSize(m, i) ==
  LET field == message_t__field_descriptors[i]
  IN  unlabeled_field_get_packed_size(field, m[field.name])

message_get_packed_size(m) ==
  FieldSize(m, 1) + FieldSize(m, 2) + FieldSize(m, 3) + FieldSize(m, 4) + FieldSize(m, 5)

-----------------------------------------------------------------------------
(* Packing.                                                                *)

More(w) == w < 0 \/ w >= 128                     \* value >= 0x80, unsigned
Low7(w) == w % 128
High7(w) == (w \div 128) % 33554432              \* value >>= 7, unsigned

(* One level of the nested ifs: a byte with its top bit set and what       *)
(* follows it, or the last byte.                                           *)
PackMore(w, rest) == IF More(w) THEN << Low7(w) + 128 >> \o rest ELSE << w >>

uint32_pack(w) ==
  LET w1 == High7(w)
      w2 == High7(w1)
      w3 == High7(w2)
      w4 == High7(w3)
  IN  PackMore(w, PackMore(w1, PackMore(w2, PackMore(w3, << w4 >>))))

int32_pack(v) ==
  IF v < 0
  THEN << Low7(v) + 128, Low7(v \div 128) + 128, Low7(v \div 16384) + 128,
          Low7(v \div 2097152) + 128, Low7(v \div 268435456) + 128,
          255, 255, 255, 255, 1 >>
  ELSE uint32_pack(v)

sint32_pack(v) == uint32_pack(zigzag32(v))

string_pack(str) == uint32_pack(Len(str)) \o str

(* tag_pack and the wire type that required_field_pack ors into its first  *)
(* byte; the ids are below 2^29.                                           *)
tag_pack(id, wireType) ==
  LET tag == uint32_pack(8 * id) IN << Head(tag) + wireType >> \o Tail(tag)

required_field_pack(field, member) ==
  CASE field.type = "SINT32" ->
         tag_pack(field.id, WIRE_TYPE_VARINT) \o sint32_pack(member)
    [] field.type = "ENUM" ->
         tag_pack(field.id, WIRE_TYPE_VARINT) \o int32_pack(member)
    [] field.type = "STRING" ->
         tag_pack(field.id, WIRE_TYPE_LENGTH_PREFIXED) \o string_pack(member)

unlabeled_field_pack(field, member) ==
  IF field_is_zeroish(field, member) THEN << >> ELSE required_field_pack(field, member)

FieldPack(m, i) ==
  LET field == message_t__field_descriptors[i]
  IN  unlabeled_field_pack(field, m[field.name])

message_pack(m) ==
  FieldPack(m, 1) \o FieldPack(m, 2) \o FieldPack(m, 3) \o FieldPack(m, 4) \o FieldPack(m, 5)

-----------------------------------------------------------------------------
(* Reading.  d is what is left of the buffer.                              *)

(* The bytes of the varint d starts with, 0 when none of its first most    *)
(* bytes ends it.                                                          *)
VarintLength(d, most) ==
  LET ends == {i \in 1 .. Len(d) : i <= most /\ d[i] < 128}
  IN  IF ends = {} THEN 0 ELSE CHOOSE i \in ends : \A j \in ends : i <= j

Digit(d, len, i) == IF i <= len THEN d[i] % 128 ELSE 0

(* The fifth byte is shifted by 28: of its bits four stay, the top one in  *)
(* the sign.                                                               *)
parse_uint32(d, len) ==
  LET top == IF len > 4 THEN d[5] % 16 ELSE 0
  IN  Digit(d, len, 1) + 128 * Digit(d, len, 2) + 16384 * Digit(d, len, 3)
        + 2097152 * Digit(d, len, 4)
        + 268435456 * (IF top < 8 THEN top ELSE top - 16)

parse_int32(d, len) == parse_uint32(d, len)

\* Mutant of unzigzag32: the sign is dropped.
unzigzag32Unsigned(w) == IF w >= 0 THEN w \div 2 ELSE (w \div 2) + Half + Half

(* (v >> 1) ^ -(v & 1)                                                     *)
unzigzag32(w) ==
  LET shifted == IF w >= 0 THEN w \div 2 ELSE (w \div 2) + Half + Half
  IN  IF w % 2 = 0 THEN shifted ELSE -shifted - 1

-----------------------------------------------------------------------------
(* The head of a member, and how many bytes follow it.                     *)

(* used is 0 for a head that is not one.  Only the tags of the five fields *)
(* have a meaning, 0 stands for those above them.                          *)
parse_tag_and_wiretype(d) ==
  LET n   == VarintLength(d, 5)
      tag == (d[1] % 128) \div 8 + 16 * Digit(d, n, 2) + 2048 * Digit(d, n, 3)
               + 262144 * Digit(d, n, 4) + 33554432 * (Digit(d, n, 5) % 32)
  IN  [used |-> IF d[1] < 8 THEN 0 ELSE n, wire |-> d[1] % 8,
       tag |-> IF n = 5 /\ d[5] >= 32 THEN 0 ELSE tag]

\* Mutant of int_range_lookup: the end of the range is taken for its last tag.
int_range_lookupPast(tag) == IF 1 <= tag /\ tag <= 1 + n_fields THEN tag ELSE 0

(* message_t__number_ranges is the single range 1 .. 5.                    *)
int_range_lookup(tag) == IF 1 <= tag /\ tag < 1 + n_fields THEN tag ELSE 0

\* Mutant of scan_length_prefixed_data: a string is taken as far as there are bytes.
scan_length_prefixed_dataCut(d) == IF VarintLength(d, 5) = 0 THEN 0 ELSE Len(d)

(* The length prefix and what it counts, 0 when they do not fit.  The      *)
(* value is not cut to 32 bits: a fifth byte above 7 is more than INT_MAX. *)
scan_length_prefixed_data(d) ==
  LET hdr_len == VarintLength(d, 5)
      val     == parse_uint32(d, hdr_len)
  IN  IF \/ hdr_len = 0
         \/ hdr_len = 5 /\ d[5] >= 8
         \/ val > Len(d) - hdr_len
      THEN 0 ELSE hdr_len + val

member_length(d, wire) ==
  CASE wire = WIRE_TYPE_VARINT -> VarintLength(d, 10)
    [] wire = WIRE_TYPE_64BIT -> IF Len(d) < 8 THEN 0 ELSE 8
    [] wire = WIRE_TYPE_LENGTH_PREFIXED -> scan_length_prefixed_data(d)
    [] wire = WIRE_TYPE_32BIT -> IF Len(d) < 4 THEN 0 ELSE 4
    [] OTHER -> 0

(* A char array read as a string: what comes before its first NUL.         *)
CString(bytes) ==
  LET nuls == {i \in 1 .. Len(bytes) : bytes[i] = 0}
  IN  IF nuls = {} THEN bytes
      ELSE SubSeq(bytes, 1, (CHOOSE i \in nuls : \A j \in nuls : i <= j) - 1)

(* Whether a member of this wire type is accepted, and its value.          *)
wire_type_fits(field, wire) ==
  wire = (IF field.type = "STRING" THEN WIRE_TYPE_LENGTH_PREFIXED ELSE WIRE_TYPE_VARINT)

member_value(field, d, pref) ==
  CASE field.type = "SINT32" -> unzigzag32(parse_uint32(d, Len(d)))
    [] field.type = "ENUM"   -> parse_int32(d, Len(d))
    [] field.type = "STRING" -> CString(SubSeq(d, pref + 1, Len(d)))
=============================================================================
