------------------------------ MODULE MCPoller ------------------------------
(* A socket, a Monitor that wraps it, and an IO object.                    *)
EXTENDS Poller, TLC

CONSTANTS s1, m1, f1

PolledTwo == [o \in Obj |-> IF o = m1 THEN s1 ELSE o]
=============================================================================
