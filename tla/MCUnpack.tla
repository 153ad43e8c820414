------------------------------ MODULE MCUnpack ------------------------------
(* Texts are characters that are also heads of members: "(" is a varint of *)
(* field 5, "1" the 8 bytes and "2" a length of field 6, "*" the length of *)
(* a string for the key.                                                   *)
EXTENDS Unpack

M(opcode, c_type, data_size, text, key) ==
  [opcode |-> opcode, c_type |-> c_type, data_size |-> data_size, data |-> text, key |-> key]

Requests == { M(30, 10, 0, << >>, <<42>>), M(40, 30, 3, <<50, 40>>, <<42, 49>>),
              M(70, 50, 200, << >>, << >>) }
Replies  == { M(31, 20, 2, <<50, 49>>, <<40>>), M(71, 50, -1, << >>, << >>),
              M(0, 0, 0, << >>, << >>), M(-1, 60, Half, <<34>>, << >>) }

MCMessages == Requests \cup Replies
=============================================================================
