---------------------------- MODULE MCServerLong ----------------------------
(* Server with values around the size of a pointer: a has 3 characters,     *)
(* b has 12.                                                                *)
EXTENDS Server

CONSTANTS a, b

MCChars == [value \in Value |-> IF value = b THEN 12 ELSE 3]
MCAsked == {1}
=============================================================================
