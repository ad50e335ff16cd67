------------------------------ MODULE MsgValue ------------------------------
(***************************************************************************)
(* What ZMQ::Msg promises: a Msg is a value.  Whatever a program does with *)
(* one, by initialize, dup, send or recv, no other Msg changes, and a Msg  *)
(* keeps its value as long as the program can reach it, unless it asks for *)
(* the change.                                                             *)
(***************************************************************************)
CONSTANTS
  Msg,    \* objects, by the heap slots they lie in
  Value   \* what a message may say, other than nothing

VARIABLES
  held,   \* objects the program refers to
  value   \* of each slot: a Value, or "empty", "raw" (broken) or "none"

vars == <<held, value>>

Init == held = {} /\ value = [m \in Msg |-> "none"]

(* initialize and recv; what did not exist before may be kept or not.      *)
Become(m, v) ==
  /\ value[m] = "none" \/ m \in held
  /\ value' = [value EXCEPT ![m] = v]
  /\ held' \in {held, held \cup {m}}

(* dup and initialize_copy                                                 *)
Copy(m, s) == s \in held /\ Become(m, value[s])

Send(m) ==
  /\ m \in held
  /\ value' = [value EXCEPT ![m] = "empty"] /\ UNCHANGED held

Drop(m) == held' = held \ {m} /\ UNCHANGED value

Collect(m) ==
  /\ m \notin held
  /\ value' = [value EXCEPT ![m] = "none"] /\ UNCHANGED held

Next ==
  \E m \in Msg :
    \/ \E v \in Value \cup {"empty", "raw"} : Become(m, v)
    \/ \E s \in Msg : Copy(m, s)
    \/ Send(m) \/ Drop(m) \/ Collect(m)

Spec == Init /\ [][Next]_vars
=============================================================================
