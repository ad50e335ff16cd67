----------------------------- MODULE MCMultipart -----------------------------
(* A send of three frames, one of two, and one of an empty Array.          *)
EXTENDS Multipart, TLC

CONSTANTS c1, c2, c3

Lengths == (c1 :> 3) @@ (c2 :> 2) @@ (c3 :> 0)
=============================================================================
