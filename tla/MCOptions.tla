----------------------------- MODULE MCOptions -----------------------------
(* An int of 3 bits, an int64_t of 5, a Float that has the integers up to  *)
(* 7, Strings of up to 44 bytes; numbers that wrap around each of them.    *)
EXTENDS Options

Numbers == -21 .. 21
Lengths == 0 .. 44
=============================================================================
