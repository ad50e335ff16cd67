------------------------------ MODULE Multipart ------------------------------
(***************************************************************************)
(* Messages of several frames: the calls of Socket#send on one socket, and *)
(* Socket#recv of its peer.  Socket#send with an Array hands the frames to *)
(* zmq_send one by one.  Before each of them mrb_zmq_send asks the element *)
(* for a string, and to_s may be any Ruby code: it may raise, send on the  *)
(* same socket or close it, after mrb_zmq_send has read its DATA_PTR.      *)
(*                                                                         *)
(* Every call is made once.  Messages that libzmq itself loses, when a     *)
(* peer goes away, are not modelled.                                       *)
(***************************************************************************)
EXTENDS Naturals, Sequences

CONSTANTS
  Call,    \* calls of Socket#send
  Length,  \* the size of the Array each is given; 1 for other data
  NONE

ASSUME MultipartAssumption ==
  Length \in [Call -> Nat] /\ NONE \notin Call

VARIABLES
  fate,      \* of each call: "new", "active", "done" or "raised"
  sent,      \* how many frames zmq_send has taken from it
  caller,    \* the call in whose to_s it was made
  top,       \* the innermost active call; its to_s is running
  disturbed, \* calls in whose to_s another call was made
  open,      \* the socket of the sender: not closed
  pending,   \* frames of the message that has no last frame yet
  wire,      \* complete messages on their way
  spoiled,   \* how many messages other than its own hold frames of a call
  rest,      \* frames that recv has still to take from a message
  got,       \* what it has taken
  cut,       \* an earlier recv took frames of that message and raised
  result     \* of the last recv: its frames, and cut

callVars == <<fate, sent, caller, top, disturbed>>
sendVars == <<callVars, open, pending, spoiled>>
recvVars == <<rest, got, cut, result>>
vars     == <<sendVars, wire, recvVars>>

(* Socket#send of an empty Array sends data[0], nil: one empty frame.      *)
Frames(c) == IF Length[c] = 0 THEN 1 ELSE Length[c]

Frame    == {f \in Call \X (Nat \ {0}) : f[2] <= Frames(f[1])}
Whole(c) == [i \in 1 .. Frames(c) |-> <<c, i>>]
Calls(m) == {m[i][1] : i \in DOMAIN m}

TypeOK ==
  /\ fate \in [Call -> {"new", "active", "done", "raised"}]
  /\ sent \in [Call -> Nat]
  /\ caller \in [Call -> Call \cup {NONE}] /\ top \in Call \cup {NONE}
  /\ open \in BOOLEAN /\ cut \in BOOLEAN
  /\ disturbed \subseteq Call
  /\ pending \in Seq(Frame) /\ rest \in Seq(Frame) /\ got \in Seq(Frame)
  /\ wire \in Seq(Seq(Frame))
  /\ spoiled \in [Call -> Nat]
  /\ result \in [frames : Seq(Frame), cut : BOOLEAN]

Init ==
  /\ fate = [c \in Call |-> "new"] /\ sent = [c \in Call |-> 0]
  /\ caller = [c \in Call |-> NONE] /\ top = NONE /\ disturbed = {}
  /\ open = TRUE /\ pending = <<>> /\ wire = <<>> /\ spoiled = [c \in Call |-> 0]
  /\ rest = <<>> /\ got = <<>> /\ cut = FALSE
  /\ result = [frames |-> <<>>, cut |-> FALSE]

-----------------------------------------------------------------------------
(* Socket#send.  A closed socket raises at once.                           *)
Begin(c) ==
  /\ fate[c] = "new" /\ open
  /\ fate' = [fate EXCEPT ![c] = "active"]
  /\ caller' = [caller EXCEPT ![c] = top] /\ top' = c
  /\ disturbed' = disturbed \cup ({top} \ {NONE})
  /\ UNCHANGED <<sent, open, pending, wire, spoiled, recvVars>>

Leave(c, f) ==
  /\ fate' = [fate EXCEPT ![c] = f]
  /\ top' = caller[c]
  /\ UNCHANGED <<caller, disturbed>>

(* Slips to catch: the loop runs up to the size of the Array; the first    *)
(* frame goes without SNDMORE.                                             *)
IsLastLate(c)    == sent[c] = Frames(c)
HasMoreLater(c)  == sent[c] + 1 < Frames(c) /\ sent[c] > 0

(* The loop ends with the last frame; all others go with SNDMORE.          *)
IsLast(c) == sent[c] + 1 = Frames(c)

HasMore(c) == sent[c] + 1 < Frames(c)

(* The message that ends with the next frame of c.                         *)
Message(c) == Append(pending, <<c, sent[c] + 1>>)

Spoils(m) ==
  IF \E c \in Call : m = Whole(c) THEN {} ELSE Calls(m)

(* zmq_send of a frame; after the last one Socket#send returns, and so     *)
(* does the to_s it was called from, or that goes on to the next call.     *)
SendFrame(c) ==
  /\ top = c /\ open
  /\ sent' = [sent EXCEPT ![c] = @ + 1]
  /\ IF HasMore(c)
       THEN pending' = Message(c) /\ UNCHANGED <<wire, spoiled>>
       ELSE /\ wire' = Append(wire, Message(c)) /\ pending' = <<>>
            /\ spoiled' = [d \in Call |-> IF d \in Spoils(Message(c))
                                          THEN spoiled[d] + 1 ELSE spoiled[d]]
  /\ IF IsLast(c) THEN Leave(c, "done")
                  ELSE UNCHANGED <<fate, caller, top, disturbed>>
  /\ UNCHANGED <<open, recvVars>>

(* to_s raises, or zmq_send fails (EAGAIN, EINTR, ETERM).  What was sent   *)
(* stays in the socket.                                                    *)
Raise(c) ==
  /\ top = c
  /\ Leave(c, "raised")
  /\ UNCHANGED <<sent, open, pending, wire, spoiled, recvVars>>

(* zmq_send gets the pointer of a socket that to_s closed: an error at     *)
(* best, and the model does not follow what else may come of it.           *)
SendStale(c) ==
  /\ top = c /\ ~open
  /\ Leave(c, "raised")
  /\ UNCHANGED <<sent, open, pending, wire, spoiled, recvVars>>

(* Socket#close, by the program or by a to_s.  zmq_close drops the message *)
(* without a last frame.                                                   *)
Close ==
  /\ open
  /\ open' = FALSE /\ pending' = <<>>
  /\ UNCHANGED <<callVars, wire, spoiled, recvVars>>

-----------------------------------------------------------------------------
(* One turn of the loop of mrb_zmq_socket_recv.  zmq_msg_recv gives the    *)
(* first frame of a message only when all of them are there.               *)
TakeFrame(m) ==
  /\ got' = Append(got, Head(m)) /\ rest' = Tail(m)
  /\ UNCHANGED <<sendVars, cut, result>>

RecvFirst ==
  /\ got = <<>> /\ rest = <<>> /\ wire # <<>>
  /\ TakeFrame(Head(wire)) /\ wire' = Tail(wire)

RecvMore == rest # <<>> /\ TakeFrame(rest) /\ UNCHANGED wire

(* A slip to catch: only the first frame is returned.                      *)
RecvOne ==
  /\ got # <<>>
  /\ result' = [frames |-> got, cut |-> cut]
  /\ got' = <<>> /\ cut' = FALSE
  /\ UNCHANGED <<sendVars, wire, rest>>

(* Without ZMQ_RCVMORE the loop ends.                                      *)
RecvReturns ==
  /\ got # <<>> /\ rest = <<>>
  /\ result' = [frames |-> got, cut |-> cut]
  /\ got' = <<>> /\ cut' = FALSE
  /\ UNCHANGED <<sendVars, wire, rest>>

(* No memory for the next Msg or the Array, or zmq_msg_recv fails: the     *)
(* frames taken so far are lost.                                           *)
RecvRaises ==
  /\ got # <<>>
  /\ got' = <<>> /\ cut' = (rest # <<>>)
  /\ UNCHANGED <<sendVars, wire, rest, result>>

Next ==
  \/ \E c \in Call : Begin(c) \/ SendFrame(c) \/ Raise(c) \/ SendStale(c)
  \/ Close \/ RecvFirst \/ RecvMore \/ RecvReturns \/ RecvRaises

Spec == Init /\ [][Next]_vars

-----------------------------------------------------------------------------
(* What recv returns is the message of one call of send, frame by frame,   *)
(* unless a call that raised or was disturbed by a to_s has a frame in it, *)
(* or an earlier recv raised in the middle of it.                          *)
Troubled == disturbed \cup {c \in Call : fate[c] = "raised"}

WholeUnlessTroubled ==
  \/ result.frames = <<>> \/ result.cut
  \/ \E c \in Call : result.frames = Whole(c)
  \/ Calls(result.frames) \cap Troubled # {}

(* A call that raises half-way spoils one message at most, and so does one *)
(* that returns: frames of a call end up in two messages only if its own   *)
(* to_s sent on the socket.                                                *)
DamageBounded ==
  \A c \in Call \ disturbed : spoiled[c] <= 1

(* A call of send that returns without having been disturbed has put its   *)
(* frames, in order and no others, on the wire as one message, unless      *)
(* frames were in the socket before it: of a call that raised, or of one   *)
(* in whose to_s it was made.                                              *)
UndisturbedSendsWhole ==
  [][\A c \in Call \ disturbed :
       fate[c] = "active" /\ fate'[c] = "done" /\ Calls(pending) \subseteq {c}
         => wire' = Append(wire, Whole(c))]_vars
=============================================================================
