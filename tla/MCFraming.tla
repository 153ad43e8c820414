------------------------------ MODULE MCFraming ------------------------------
(* A request of two bytes and one of four, which could also be a length; a    *)
(* reply of two bytes and one of four, longer than the client's buffer.       *)
EXTENDS Framing

M(opcode, c_type) ==
  [opcode |-> opcode, c_type |-> c_type, data_size |-> 0, data |-> << >>, key |-> << >>]

MCRequest == { M(60, 60) }
MCRequests == { M(10, 0), M(60, 60) }
MCReplies  == { M(11, 0), M(61, 50) }
=============================================================================
