----------------------------- MODULE ZmqSession -----------------------------
(***************************************************************************)
(* What the binding promises to a program that embeds mruby, without       *)
(* objects, collector or contexts: an mrb_state holds native sockets that  *)
(* it shares with nobody, works on its own context until it moves, once    *)
(* and for good, to contexts of the host, takes no socket while it moves   *)
(* or leaves, and is gone only when it has given every socket back.        *)
(***************************************************************************)
CONSTANTS VM, Handle

VARIABLES
  mode,  \* where each mrb_state is in its life
  held   \* the native sockets each mrb_state is responsible for

vars == <<mode, held>>

Mode == {"new", "own", "moving", "host", "leaving", "gone"}

TypeOK == mode \in [VM -> Mode] /\ held \in [VM -> SUBSET Handle]

Init ==
  /\ mode = [v \in VM |-> "new"]
  /\ held = [v \in VM |-> {}]

Fresh == Handle \ UNION {held[v] : v \in VM}

Become(v, m) == mode' = [mode EXCEPT ![v] = m]

(* v takes one socket nobody holds, or gives some of its own back.         *)
Take(v) == \E x \in Fresh : held' = [held EXCEPT ![v] = @ \cup {x}]
Give(v) == \E S \in SUBSET held[v] : held' = [held EXCEPT ![v] = S]

(* The logger of a new context takes a socket, if there is to be one.      *)
TakeForLogger(v) == Take(v) \/ UNCHANGED held

Open(v)       == mode[v] = "new" /\ Become(v, "own") /\ TakeForLogger(v)

(* While it works it makes sockets one by one, and gives them back: to     *)
(* close, to the collector, or all of them to a direct shutdown.           *)
NewSocket(v)    == mode[v] \in {"own", "host"} /\ UNCHANGED mode /\ Take(v)
CloseSockets(v) == mode[v] \in {"own", "host"} /\ UNCHANGED mode /\ Give(v)

BeginMove(v)  == mode[v] = "own" /\ Become(v, "moving") /\ Give(v)
EndMove(v)    == mode[v] = "moving" /\ Become(v, "host") /\ TakeForLogger(v)
BeginLeave(v) == mode[v] \in {"own", "host"} /\ Become(v, "leaving") /\ Give(v)
EndLeave(v)   == /\ mode[v] = "leaving" /\ Become(v, "gone")
                 /\ held' = [held EXCEPT ![v] = {}]

Step(v) == \/ Open(v) \/ NewSocket(v) \/ CloseSockets(v)
           \/ BeginMove(v) \/ EndMove(v) \/ BeginLeave(v) \/ EndLeave(v)

Next == \E v \in VM : Step(v)

Spec == Init /\ [][Next]_vars

(* No socket is held by two mrb_states.                                    *)
Exclusive == \A v, w \in VM : v # w => held[v] \cap held[w] = {}

(* Before mrb_open and after mrb_close nothing is held.                    *)
NothingHeldOutside == \A v \in VM : mode[v] \in {"new", "gone"} => held[v] = {}
=============================================================================
