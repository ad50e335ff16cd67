--------------------------------- MODULE Msg ---------------------------------
(***************************************************************************)
(* The zmq_msg_t of each ZMQ::Msg.  The binding allocates it, initialises  *)
(* it, lets zmq_msg_copy share its content and closes it in the finaliser; *)
(* libzmq counts who uses a content and frees it with the last of them.    *)
(*                                                                         *)
(* A content stands for what libzmq allocates; short messages, which it    *)
(* copies instead of sharing them, are not told apart.  A slot without an  *)
(* object has the box "none".  libzmq is taken to recognise a zmq_msg_t    *)
(* that was never initialised ("raw") for what it is: a copy of it fails,  *)
(* the finaliser only frees it, and the program does nothing else with it. *)
(***************************************************************************)
EXTENDS Naturals, FiniteSets

CONSTANTS
  Object,   \* ZMQ::Msg objects, by the heap slots they lie in
  Content,  \* buffers of libzmq
  Value,    \* what may be in a buffer
  MaxUsers  \* bound on the users of one content

ASSUME MsgAssumption ==
  /\ IsFiniteSet(Object)
  /\ Content \cap {"none", "raw", "empty"} = {}

VARIABLES
  held,  \* objects the program refers to
  box,   \* the zmq_msg_t of each: its content, "empty", "raw" or "none"
  refs,  \* libzmq's count of the users of a content; 0: it is free
  data,  \* what is in each content
  wire,  \* how many frames in sockets have it
  lost   \* how many zmq_msg_t that had it were initialised once more

vars == <<held, box, refs, data, wire, lost>>

Boxes == Content \cup {"none", "raw", "empty"}

TypeOK ==
  /\ held \subseteq Object
  /\ box \in [Object -> Boxes]
  /\ refs \in [Content -> Nat] /\ data \in [Content -> Value]
  /\ wire \in [Content -> Nat] /\ lost \in [Content -> Nat]

Init ==
  /\ held = {} /\ box = [m \in Object |-> "none"]
  /\ refs = [c \in Content |-> 0] /\ data \in [Content -> Value]
  /\ wire = [c \in Content |-> 0] /\ lost = [c \in Content |-> 0]

-----------------------------------------------------------------------------
Plus(f, c)  == [d \in Content |-> IF d = c THEN f[d] + 1 ELSE f[d]]
Minus(f, c) == [d \in Content |-> IF d = c THEN f[d] - 1 ELSE f[d]]

(* initialize and initialize_copy write over the zmq_msg_t they find,      *)
(* which is there when the program calls them once more.                   *)
Box(m, b) ==
  /\ box[m] = "none" \/ m \in held
  /\ box' = [box EXCEPT ![m] = b]
  /\ lost' = Plus(lost, box[m])
  /\ held' = held \cup {m}

(* zmq_msg_init_size, or libzmq's for a message from a peer.               *)
Allocate(c, v) ==
  /\ refs[c] = 0
  /\ refs' = [refs EXCEPT ![c] = 1]
  /\ data' = [data EXCEPT ![c] = v]

(* Msg#initialize with a String.                                           *)
New(m, c, v) == Allocate(c, v) /\ Box(m, c) /\ UNCHANGED wire

(* With nil or no argument.                                                *)
NewEmpty(m) == Box(m, "empty") /\ UNCHANGED <<refs, data, wire>>

(* zmq_msg_init_size without memory leaves a zmq_msg_t without content.    *)
NewNoMemory(m) == Box(m, "raw") /\ UNCHANGED <<refs, data, wire>>

(* With anything else it raises before it initialises: a new zmq_msg_t     *)
(* stays raw, one that was there keeps what it had.                        *)
NewRaises(m) ==
  /\ box[m] = "none"
  /\ box' = [box EXCEPT ![m] = "raw"]
  /\ held' \in {held, held \cup {m}}
  /\ UNCHANGED <<refs, data, wire, lost>>

(* Slips to catch: the struct is copied, without zmq_msg_copy; the         *)
(* finaliser frees it, without zmq_msg_close.                              *)
CopyStruct(m, s) ==
  /\ s \in held /\ m # s
  /\ Box(m, box[s]) /\ UNCHANGED <<refs, data, wire>>

JustFree(m) ==
  /\ m \notin held /\ box[m] # "none"
  /\ box' = [box EXCEPT ![m] = "none"]
  /\ UNCHANGED <<held, refs, data, wire, lost>>

(* Msg#initialize_copy.  Nothing happens when m is s.                      *)
Copy(m, s) ==
  /\ s \in held /\ m # s /\ box[s] # "raw"
  /\ box[s] \in Content => refs[box[s]] < MaxUsers
  /\ Box(m, box[s])
  /\ refs' = Plus(refs, box[s])
  /\ UNCHANGED <<data, wire>>

(* zmq_msg_init comes first: a copy of a raw one is empty.                 *)
CopyRaises(m, s) ==
  /\ s \in held /\ m # s /\ box[s] = "raw"
  /\ Box(m, "empty") /\ UNCHANGED <<refs, data, wire>>

(* Msg#send: the frame takes the content and leaves an empty zmq_msg_t.    *)
(* When zmq_msg_send fails the Msg keeps it.                               *)
Send(m) ==
  /\ m \in held /\ box[m] \in Content
  /\ box' = [box EXCEPT ![m] = "empty"]
  /\ wire' = Plus(wire, box[m])
  /\ UNCHANGED <<held, refs, data, lost>>

(* One turn of Socket#recv makes a new Msg, empty until zmq_msg_recv gives *)
(* it the frame of a socket of this process, or a message from outside.    *)
Recv(m, c) ==
  /\ box[m] = "none"
  /\ box' = [box EXCEPT ![m] = c] /\ held' = held \cup {m}
  /\ \/ wire[c] > 0 /\ wire' = Minus(wire, c) /\ UNCHANGED <<refs, data>>
     \/ (\E v \in Value : Allocate(c, v)) /\ UNCHANGED wire
  /\ UNCHANGED lost

(* libzmq has sent a frame to another process, or has dropped it.          *)
FrameGone(c) ==
  /\ wire[c] > 0
  /\ wire' = Minus(wire, c) /\ refs' = Minus(refs, c)
  /\ UNCHANGED <<held, box, data, lost>>

Drop(m) ==
  /\ m \in held /\ held' = held \ {m}
  /\ UNCHANGED <<box, refs, data, wire, lost>>

(* The finaliser closes the zmq_msg_t and frees it.                        *)
Collect(m) ==
  /\ m \notin held /\ box[m] # "none"
  /\ box' = [box EXCEPT ![m] = "none"]
  /\ refs' = Minus(refs, box[m])
  /\ UNCHANGED <<held, data, wire, lost>>

Next ==
  \/ \E m \in Object :
       \/ \E c \in Content, v \in Value : New(m, c, v)
       \/ \E s \in Object : Copy(m, s) \/ CopyRaises(m, s)
       \/ \E c \in Content : Recv(m, c)
       \/ NewEmpty(m) \/ NewNoMemory(m) \/ NewRaises(m)
       \/ Send(m) \/ Drop(m) \/ Collect(m)
  \/ \E c \in Content : FrameGone(c)

Spec == Init /\ [][Next]_vars

-----------------------------------------------------------------------------
(* libzmq's count is right: a content is used by exactly the Msgs and the  *)
(* frames that have it, so it is freed with the last of them, no sooner    *)
(* and no later, unless the program called initialize on a Msg once more.  *)
Users(c) == {m \in Object : box[m] = c}

RefsExact ==
  \A c \in Content : refs[c] = Cardinality(Users(c)) + wire[c] + lost[c]

(* That contents are shared cannot be seen: a Msg is a value.  Msg#to_str, *)
(* == and size look at ValueOf(m).                                         *)
ValueOf(m) == IF box[m] \in Content THEN data[box[m]] ELSE box[m]

Values == INSTANCE MsgValue WITH Msg <- Object, Value <- Value, held <- held,
                                 value <- [m \in Object |-> ValueOf(m)]

KeepsValues == Values!Spec
=============================================================================
