------------------------------- MODULE Poller -------------------------------
(***************************************************************************)
(* One LibZMQ::Poller and the objects a program registers with it.  The    *)
(* native poller knows an object only by the raw pointer it got as user    *)
(* data; the array in the instance variable "sockets" keeps the object     *)
(* from the collector.  wait with a block takes all events first and then  *)
(* yields them one by one; the block may do anything to the poller.        *)
(*                                                                         *)
(* The poller itself stays reachable.  A wait inside the block of a wait   *)
(* is not modelled.  Of an event mask it only matters whether it is zero.  *)
(***************************************************************************)
EXTENDS Naturals, FiniteSets, Functions

CONSTANTS
  Obj,      \* Ruby objects that may be registered
  Sock,     \* those that are a ZMQ::Socket
  Fd,       \* those with a fileno (IO); the others answer zmq_socket
  Polled,   \* what an object stands for: a Sock, or for an Fd itself
  MaxPins,  \* bound on how often the array may hold one object
  NONE

ASSUME PollerAssumption ==
  /\ Sock \subseteq Obj /\ Fd \subseteq Obj /\ Sock \cap Fd = {}
  /\ Polled \in [Obj -> Sock \cup Fd]
  /\ \A o \in Sock \cup Fd : Polled[o] = o
  /\ \A o \in Obj \ Fd : Polled[o] \in Sock
  /\ NONE \notin Obj

VARIABLES
  items,   \* the native poller: user data of each registered socket or fd
  muted,   \* of those, the ones whose event mask is zero
  unpinned, \* those whose add ran out of memory for the array
  pins,    \* how often the array "sockets" holds each object
  roots,   \* objects the program refers to
  freed,   \* objects the collector has freed
  closed,  \* sockets and IOs that were closed, by program or collector
  turn,    \* of a wait with a block: "none", "polled", "block" (runs)
  events,  \* user data of the events that are still to be yielded
  removed, \* user data removed from the poller since that wait began
  aliased  \* objects whose item was removed by way of another object

itemVars == <<items, muted, unpinned>>
pollVars == <<itemVars, pins>>
heapVars == <<roots, freed, closed>>
waitVars == <<turn, events, removed>>
vars     == <<pollVars, heapVars, waitVars, aliased>>

Target == Sock \cup Fd

TypeOK ==
  /\ items \in [Target -> Obj \cup {NONE}]
  /\ pins \in [Obj -> Nat]
  /\ roots \subseteq Obj /\ freed \subseteq Obj /\ closed \subseteq Target
  /\ muted \subseteq Target /\ unpinned \subseteq Target
  /\ turn \in {"none", "polled", "block"}
  /\ events \subseteq Obj /\ removed \subseteq Obj /\ aliased \subseteq Obj

(* mrb_zmq_poller_new                                                      *)
Init ==
  /\ items = [t \in Target |-> NONE]
  /\ pins = [o \in Obj |-> 0] /\ muted = {} /\ unpinned = {}
  /\ roots = Obj /\ freed = {} /\ closed = {}
  /\ turn = "none"
  /\ events = {} /\ removed = {} /\ aliased = {}

-----------------------------------------------------------------------------
(* Between zmq_poller_wait_all and the first turn of the block the program *)
(* does not run.                                                           *)
ProgramRuns == turn # "polled"

Registered == {t \in Target : items[t] # NONE}
UserData   == {items[t] : t \in Registered}
Pinned     == {o \in Obj : pins[o] > 0}
ArrayLen   == FoldFunction(+, 0, pins)

(* mrb_zmq_get_socket raises TypeError for a socket that was closed, and   *)
(* fileno IOError for an IO.                                               *)
Resolves(o) == Polled[o] \notin closed

(* A Zap or Monitor gives its socket to whoever asks for its zmq_socket.   *)
Known == roots \cup {Polled[o] : o \in roots}

(* The program names an object, and something is, or is not, registered    *)
(* for what it stands for; else libzmq fails with EINVAL.                  *)
Names(o) == ProgramRuns /\ o \in Known /\ Resolves(o)

(* zmq_poller_add with an event mask that is zero or not.                  *)
Register(o, quiet) ==
  /\ Names(o) /\ items[Polled[o]] = NONE
  /\ items' = [items EXCEPT ![Polled[o]] = o]
  /\ muted' = IF quiet THEN muted \cup {Polled[o]} ELSE muted
  /\ UNCHANGED <<heapVars, waitVars, aliased>>

(* A slip to catch: the array gets the socket, not the object.             *)
AddPinsSocket(o, quiet) ==
  /\ Register(o, quiet)
  /\ pins[Polled[o]] < MaxPins
  /\ pins' = [pins EXCEPT ![Polled[o]] = @ + 1]
  /\ UNCHANGED unpinned

Add(o, quiet) ==
  /\ Register(o, quiet)
  /\ pins[o] < MaxPins
  /\ pins' = [pins EXCEPT ![o] = @ + 1]
  /\ UNCHANGED unpinned

(* mrb_ary_push has no memory: it is registered, add raises.               *)
AddNoMemory(o, quiet) ==
  /\ Register(o, quiet)
  /\ unpinned' = unpinned \cup {Polled[o]}
  /\ UNCHANGED pins

Modify(o, quiet) ==
  /\ Names(o) /\ items[Polled[o]] # NONE
  /\ muted' = IF quiet THEN muted \cup {Polled[o]} ELSE muted \ {Polled[o]}
  /\ UNCHANGED <<items, unpinned, pins, heapVars, waitVars, aliased>>

(* zmq_poller_remove                                                       *)
Unregister(o) ==
  LET data == items[Polled[o]] IN
  /\ Names(o) /\ data # NONE
  /\ items' = [items EXCEPT ![Polled[o]] = NONE]
  /\ muted' = muted \ {Polled[o]} /\ unpinned' = unpinned \ {Polled[o]}
  /\ removed' = IF turn = "block" THEN removed \cup {data} ELSE removed
  /\ aliased' = IF data # o THEN aliased \cup {data} ELSE aliased \ {o}
  /\ UNCHANGED <<heapVars, turn, events>>

(* Slips to catch: the array keeps the object, loses one element of it     *)
(* whether there is one or not, or is changed before the native poller.    *)
RemoveKeepsPin(o) == Unregister(o) /\ UNCHANGED pins

RemoveOne(o) == Unregister(o) /\ pins' = [pins EXCEPT ![o] = @ - 1]

RemovePinFirst(o) ==
  /\ pins' = [pins EXCEPT ![o] = 0]
  /\ IF Resolves(o)
       THEN Unregister(o)
       ELSE /\ ProgramRuns /\ o \in Known
            /\ UNCHANGED <<itemVars, heapVars, waitVars, aliased>>

(* After it Array#delete removes every element that is the object given.   *)
Remove(o) == Unregister(o) /\ pins' = [pins EXCEPT ![o] = 0]

-----------------------------------------------------------------------------
(* The program and the collector.                                          *)
Close(o) ==
  /\ ProgramRuns
  /\ o \in Known \cap Target
  /\ closed' = closed \cup {o}
  /\ UNCHANGED <<pollVars, roots, freed, waitVars, aliased>>

Keep(o) ==
  /\ ProgramRuns
  /\ o \in Known
  /\ roots' = roots \cup {o}
  /\ UNCHANGED <<pollVars, freed, closed, waitVars, aliased>>

Drop(o) ==
  /\ ProgramRuns
  /\ o \in roots
  /\ roots' = roots \ {o}
  /\ UNCHANGED <<pollVars, freed, closed, waitVars, aliased>>

(* A Zap or Monitor refers to its socket.                                  *)
Reachable ==
  LET direct == roots \cup Pinned
  IN  direct \cup {Polled[o] : o \in direct}

Collect ==
  /\ ProgramRuns
  /\ Obj \ Reachable # freed
  /\ freed' = Obj \ Reachable
  /\ closed' = closed \cup (Target \ Reachable)
  /\ UNCHANGED <<pollVars, roots, waitVars, aliased>>

-----------------------------------------------------------------------------
(* wait without a block: the object of one event is the result.  (What a   *)
(* program does with the remains of a freed one is not followed.)          *)
WaitOne(t) ==
  /\ ProgramRuns
  /\ t \in Registered \ muted /\ items[t] \notin freed
  /\ roots' = roots \cup {items[t]}
  /\ UNCHANGED <<pollVars, freed, closed, waitVars, aliased>>

(* wait with a block.  The length of the array bounds the events taken.    *)
(* An error, a timeout or a signal ends it here and changes nothing.       *)
WaitAll(T) ==
  /\ turn = "none"
  /\ T \subseteq Registered \ muted /\ T # {}
  /\ Cardinality(T) <= ArrayLen
  /\ turn' = "polled"
  /\ events' = {items[t] : t \in T}
  /\ removed' = {}
  /\ UNCHANGED <<pollVars, heapVars, aliased>>

(* The block gets the object and may keep it.                              *)
Yield(o) ==
  /\ o \in events
  /\ turn' = "block"
  /\ events' = events \ {o}
  /\ roots' = roots \cup ({o} \ freed)
  /\ UNCHANGED <<pollVars, freed, closed, removed, aliased>>

(* All events are yielded, or the block raised or broke out of the loop.   *)
WaitEnds ==
  /\ turn = "block"
  /\ turn' = "none" /\ events' = {} /\ removed' = {}
  /\ UNCHANGED <<pollVars, heapVars, aliased>>

Next ==
  \/ \E o \in Obj, quiet \in BOOLEAN :
       Add(o, quiet) \/ AddNoMemory(o, quiet) \/ Modify(o, quiet)
  \/ \E o \in Obj : Remove(o) \/ Close(o) \/ Keep(o) \/ Drop(o) \/ Yield(o)
  \/ \E t \in Target : WaitOne(t)
  \/ \E T \in SUBSET Target : WaitAll(T)
  \/ Collect \/ WaitEnds

Spec == Init /\ [][Next]_vars

-----------------------------------------------------------------------------
(* The native poller's raw pointers are backed by the array: what is       *)
(* registered is never collected, nor is the socket behind a Zap or a      *)
(* Monitor closed under the poller, whatever the program has dropped.  An  *)
(* object whose add ran out of memory is not protected.                    *)
Backed ==
  \A t \in Registered \ unpinned : items[t] \in Pinned \ freed /\ t \notin freed

(* An event is yielded for a freed object only if the object was removed   *)
(* from the poller by an earlier turn of the block of the same wait, or    *)
(* its add ran out of memory.                                              *)
YieldsLiveObjects ==
  events \cap freed \subseteq removed \cup {items[t] : t \in unpinned}

(* The array holds what was added and not removed, once: the length of it, *)
(* which bounds the events that a wait takes, counts the items, however    *)
(* often an add or a remove raised.  Memory that ran out, and an object    *)
(* whose item was removed by way of another one that stands for the same   *)
(* socket, are the only exceptions.                                        *)
ArrayExact ==
  \A o \in Obj \ aliased :
    pins[o] = IF \E t \in Registered \ unpinned : items[t] = o THEN 1 ELSE 0
=============================================================================
