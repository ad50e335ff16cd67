----------------------------- MODULE ZmqContext -----------------------------
(***************************************************************************)
(* The context registered with an mrb_state, the ZMQ::Socket objects that  *)
(* live in its heap, the native libzmq sockets behind them, and the three  *)
(* ways an embedding program ends or replaces a context:                   *)
(*   mrb_close                           -> mrb_mruby_zmq_gem_final,       *)
(*   mrb_zmq_set_context                 (swap in a context of the host),  *)
(*   mrb_zmq_ctx_shutdown_close_and_term (the same routine, called by hand)*)
(*                                                                         *)
(* Several mrb_states run, each on its own thread, and may share contexts  *)
(* that the host made.  zmq_ctx_term blocks, so a call that reaches it is  *)
(* two steps; everything else runs to its end on the thread of its VM.     *)
(* libzmq and the mruby garbage collector are external: they are modelled  *)
(* by what the binding relies on.                                          *)
(***************************************************************************)
EXTENDS FiniteSets

CONSTANTS
  VM,             \* the mrb_states
  HostCtx,        \* contexts the embedding program makes itself
  Obj,            \* slots for ZMQ::Socket objects
  HeapOf,         \* the mrb_state in whose heap a slot lies
  Handle,         \* native sockets, what zmq_socket returns
  LoggerEndpoint, \* is ZMQ_LOGGER_ENDPOINT set in the environment?
  NULL

ASSUME ConstantsAssumption ==
  /\ VM \cap HostCtx = {}
  /\ HeapOf \in [Obj -> VM]
  /\ LoggerEndpoint \in BOOLEAN
  /\ NULL \notin VM \cup HostCtx \cup Obj \cup Handle

VARIABLES
  pc,          \* where the thread of a VM is
  reg,         \* LibZMQ::__CTX__, the registered context
  foreign,     \* LibZMQ::__foreigen_context__
  target,      \* argument of the mrb_zmq_set_context under way
  logger,      \* the socket object inside ZMQ.logger
  gcOn,        \* GC.enable / GC.disable
  ctx,         \* state of every context
  obj,         \* state of every heap slot
  ptr,         \* DATA_PTR of every slot
  h,           \* the native sockets
  ended,       \* contexts whose end the embedding program asked for
  interrupted, \* VMs in which a signal cut zmq_ctx_term short
  raised,      \* VMs whose last mrb_zmq_set_context raised
  dangling     \* VMs that handed a terminated context to libzmq

vmVars   == <<pc, reg, foreign, target, logger, gcOn>>
heapVars == <<obj, ptr, h>>
histVars == <<ended, interrupted, raised, dangling>>
vars     == <<vmVars, ctx, heapVars, histVars>>

(* The context that mrb_mruby_zmq_gem_init makes for VM v is called v.     *)
Ctx == VM \cup HostCtx

Linger == {"forever", "bounded", "none"}

Socket(st, c, linger, unsent, told) ==
  [st |-> st, ctx |-> c, linger |-> linger, unsent |-> unsent, told |-> told]

NoHandle == Socket("free", NULL, "forever", FALSE, FALSE)

(* A new libzmq socket waits forever for its unsent messages on close.     *)
OpenHandle(c) == Socket("open", c, "forever", FALSE, FALSE)

HandleState == [st : {"free", "open", "closing", "ending"}, ctx : Ctx \cup {NULL},
                linger : Linger, unsent : BOOLEAN, told : BOOLEAN]

TypeOK ==
  /\ pc \in [VM -> {"unborn", "run", "swap", "direct", "final",
                    "destroy", "closed"}]
  /\ reg \in [VM -> Ctx]
  /\ foreign \in [VM -> BOOLEAN]
  /\ target \in [VM -> HostCtx \cup {NULL}]
  /\ logger \in [VM -> Obj \cup {NULL}]
  /\ gcOn \in [VM -> BOOLEAN]
  /\ ctx \in [Ctx -> {"none", "open", "stopping", "terminated"}]
  /\ obj \in [Obj -> {"free", "live", "garbage", "dead"}]
  /\ ptr \in [Obj -> Handle \cup {NULL}]
  /\ h \in [Handle -> HandleState]
  /\ ended \subseteq Ctx
  /\ interrupted \subseteq VM /\ raised \subseteq VM /\ dangling \subseteq VM

Init ==
  /\ pc = [v \in VM |-> "unborn"]
  /\ reg = [v \in VM |-> v]
  /\ foreign = [v \in VM |-> FALSE]
  /\ target = [v \in VM |-> NULL]
  /\ logger = [v \in VM |-> NULL]
  /\ gcOn = [v \in VM |-> TRUE]
  /\ ctx = [c \in Ctx |-> "none"]
  /\ obj = [o \in Obj |-> "free"]
  /\ ptr = [o \in Obj |-> NULL]
  /\ h = [x \in Handle |-> NoHandle]
  /\ ended = {} /\ interrupted = {} /\ raised = {} /\ dangling = {}

-----------------------------------------------------------------------------
(* libzmq.                                                                 *)

(* zmq_setsockopt(ZMQ_LINGER): fails with ETERM, and changes nothing, once *)
(* an operation of this socket has seen its context shut down.             *)
SetLinger(x, l) == IF h[x].told THEN h[x].linger ELSE l

(* zmq_close: the socket is gone at once unless it has to linger.  It is   *)
(* "closing" when the program or the collector closed it and "ending" when *)
(* the shutdown routine did.                                               *)
CloseAs(st, x, l) ==
  IF h[x].unsent /\ l # "none"
    THEN Socket(st, h[x].ctx, l, TRUE, h[x].told)
    ELSE NoHandle

CloseWith(x, l) == CloseAs("closing", x, l)

InUse(x) == h[x].st # "free"

(* zmq_ctx_term returns when no socket of the context is left.             *)
Drained(c) == \A x \in Handle : InUse(x) => h[x].ctx # c

(* The peer takes the messages still queued in x.                          *)
Deliver(x) ==
  /\ InUse(x) /\ h[x].unsent
  /\ h' = [h EXCEPT ![x] =
             IF h[x].st # "open" THEN NoHandle
             ELSE Socket("open", h[x].ctx, h[x].linger, FALSE, h[x].told)]
  /\ UNCHANGED <<vmVars, ctx, obj, ptr, histVars>>

LingerExpires(x) ==
  /\ h[x].st \in {"closing", "ending"} /\ h[x].linger = "bounded"
  /\ h' = [h EXCEPT ![x] = NoHandle]
  /\ UNCHANGED <<vmVars, ctx, obj, ptr, histVars>>

-----------------------------------------------------------------------------
(* mrb_open: the gem makes its own context; the last line of zap.rb makes  *)
(* ZMQ.logger, which owns a Pub socket when an endpoint is configured.     *)

HasLoggerSlot(o, x, v) ==
  /\ HeapOf[o] = v /\ obj[o] = "free" /\ h[x].st = "free"

FirstLogger(v) ==
  \/ /\ ~LoggerEndpoint
     /\ UNCHANGED <<logger, heapVars>>
  \/ /\ LoggerEndpoint
     /\ \E o \in Obj, x \in Handle :
          /\ HasLoggerSlot(o, x, v)
          /\ logger' = [logger EXCEPT ![v] = o]
          /\ obj' = [obj EXCEPT ![o] = "live"]
          /\ ptr' = [ptr EXCEPT ![o] = x]
          /\ h' = [h EXCEPT ![x] = OpenHandle(v)]

GemInit(v) ==
  /\ pc[v] = "unborn"
  /\ pc' = [pc EXCEPT ![v] = "run"]
  /\ ctx' = [ctx EXCEPT ![v] = "open"]
  /\ FirstLogger(v)
  /\ UNCHANGED <<reg, foreign, target, gcOn, histVars>>

-----------------------------------------------------------------------------
(* ZMQ::Socket, as the Ruby program of a VM uses it.                       *)

Running(o) == pc[HeapOf[o]] = "run"
Usable(o)  == Running(o) /\ obj[o] = "live" /\ ptr[o] # NULL

(* Socket#initialize, on a fresh object or again on one that was closed.   *)
(* It raises while DATA_PTR is set and when the context is shut down.      *)
SocketNew(o, x) ==
  /\ Running(o)
  /\ obj[o] \in {"free", "live"} /\ ptr[o] = NULL
  /\ logger[HeapOf[o]] # o
  /\ ctx[reg[HeapOf[o]]] = "open" /\ h[x].st = "free"
  /\ obj' = [obj EXCEPT ![o] = "live"]
  /\ ptr' = [ptr EXCEPT ![o] = x]
  /\ h' = [h EXCEPT ![x] = OpenHandle(reg[HeapOf[o]])]
  /\ UNCHANGED <<vmVars, ctx, histVars>>

(* Socket#initialize when the registered context is already terminated.    *)
SocketNewDangling(v) ==
  /\ pc[v] = "run" /\ ctx[reg[v]] = "terminated"
  /\ dangling' = dangling \cup {v}
  /\ UNCHANGED <<vmVars, ctx, heapVars, ended, interrupted, raised>>

(* Socket#send.  It queues a message, or raises ETERMError when the        *)
(* context is being shut down; ZMQ.logger.log sends on the logger's socket.*)
Send(o) ==
  /\ Usable(o)
  /\ LET s == h[ptr[o]] IN
     h' = [h EXCEPT ![ptr[o]] =
             IF ctx[s.ctx] = "open"
               THEN Socket("open", s.ctx, s.linger, TRUE, s.told)
               ELSE Socket("open", s.ctx, s.linger, s.unsent, TRUE)]
  /\ UNCHANGED <<vmVars, ctx, obj, ptr, histVars>>

(* Socket#linger=                                                          *)
LingerSet(o, l) ==
  /\ Usable(o) /\ o # logger[HeapOf[o]]
  /\ LET s == h[ptr[o]] IN
     h' = [h EXCEPT ![ptr[o]] =
             Socket("open", s.ctx, SetLinger(ptr[o], l), s.unsent, s.told)]
  /\ UNCHANGED <<vmVars, ctx, obj, ptr, histVars>>

(* A slip to catch: DATA_PTR is not cleared after zmq_close.               *)
CloseKeepsPointer(o) ==
  /\ Usable(o) /\ o # logger[HeapOf[o]]
  /\ h' = [h EXCEPT ![ptr[o]] = CloseWith(ptr[o], h[ptr[o]].linger)]
  /\ UNCHANGED <<vmVars, ctx, obj, ptr, histVars>>

(* Socket#close; a second close finds no DATA_TYPE and does nothing.       *)
Close(o) ==
  /\ Usable(o) /\ o # logger[HeapOf[o]]
  /\ h' = [h EXCEPT ![ptr[o]] = CloseWith(ptr[o], h[ptr[o]].linger)]
  /\ ptr' = [ptr EXCEPT ![o] = NULL]
  /\ UNCHANGED <<vmVars, ctx, obj, histVars>>

(* Socket#close!                                                           *)
CloseMark(o) ==
  /\ Usable(o) /\ o # logger[HeapOf[o]]
  /\ h' = [h EXCEPT ![ptr[o]] = CloseWith(ptr[o], SetLinger(ptr[o], "none"))]
  /\ ptr' = [ptr EXCEPT ![o] = NULL]
  /\ UNCHANGED <<vmVars, ctx, obj, histVars>>

-----------------------------------------------------------------------------
(* The garbage collector of mruby is incremental: what a mark phase found  *)
(* unreachable is dead until the sweep phase reaches it.                   *)

(* The program drops its last reference to the object.                     *)
Drop(o) ==
  /\ Running(o) /\ obj[o] = "live" /\ logger[HeapOf[o]] # o
  /\ obj' = [obj EXCEPT ![o] = "garbage"]
  /\ UNCHANGED <<vmVars, ctx, ptr, h, histVars>>

GcMark(v) ==
  /\ pc[v] = "run" /\ gcOn[v]
  /\ \A o \in Obj : HeapOf[o] = v => obj[o] # "dead"
  /\ obj' = [o \in Obj |-> IF HeapOf[o] = v /\ obj[o] = "garbage"
                             THEN "dead" ELSE obj[o]]
  /\ UNCHANGED <<vmVars, ctx, ptr, h, histVars>>

(* The finaliser mrb_zmq_gc_close: no linger, result of setsockopt ignored.*)
GcClosed(x) == CloseWith(x, SetLinger(x, "none"))

GcSweep(o) ==
  /\ Running(o) /\ gcOn[HeapOf[o]] /\ obj[o] = "dead"
  /\ obj' = [obj EXCEPT ![o] = "free"]
  /\ ptr' = [ptr EXCEPT ![o] = NULL]
  /\ h' = [x \in Handle |-> IF x = ptr[o] THEN GcClosed(x) ELSE h[x]]
  /\ UNCHANGED <<vmVars, ctx, histVars>>

(* GC.disable and GC.enable                                                *)
GcToggle(v) ==
  /\ pc[v] = "run"
  /\ gcOn' = [gcOn EXCEPT ![v] = ~@]
  /\ UNCHANGED <<pc, reg, foreign, target, logger, ctx, heapVars, histVars>>

-----------------------------------------------------------------------------
(* mrb_zmq_ctx_shutdown_close_and_term, up to the blocking zmq_ctx_term.   *)

(* mrb_objspace_each_objects runs a full collection first, unless the      *)
(* collector is off; then it shows every slot, the dead ones included.     *)
Collected(o) == gcOn[HeapOf[o]] /\ obj[o] \in {"garbage", "dead"}

(* mrb_zmq_zmq_close_gem_final passes over dead objects.                   *)
Skipped(o) == ~gcOn[HeapOf[o]] /\ obj[o] = "dead"

(* A slip to catch: the shutdown closes without setting a linger.          *)
ClosedWithoutLinger(o, x) ==
  IF Collected(o) THEN GcClosed(x)
  ELSE IF Skipped(o) THEN h[x]
  ELSE CloseAs("ending", x, h[x].linger)

ClosedAtShutdown(o, x) ==
  IF Collected(o) THEN GcClosed(x)
  ELSE IF Skipped(o) THEN h[x]
  ELSE CloseAs("ending", x, SetLinger(x, "bounded"))

(* Slips to catch: no socket is closed; those of every mrb_state are.      *)
ShutdownOnly(v) ==
  /\ ctx' = [ctx EXCEPT ![reg[v]] = IF @ = "open" THEN "stopping" ELSE @]
  /\ dangling' = IF ctx[reg[v]] = "terminated" THEN dangling \cup {v}
                                               ELSE dangling
  /\ UNCHANGED heapVars

ShutdownEverywhere(v) ==
  /\ ctx' = [ctx EXCEPT ![reg[v]] = IF @ = "open" THEN "stopping" ELSE @]
  /\ h' = [x \in Handle |-> IF h[x].st = "open"
                              THEN CloseAs("ending", x, "bounded") ELSE h[x]]
  /\ ptr' = [o \in Obj |-> NULL]
  /\ UNCHANGED <<obj, dangling>>

ShutdownAndClose(v) ==
  LET mine == {o \in Obj : HeapOf[o] = v} IN
  /\ ctx' = [ctx EXCEPT ![reg[v]] = IF @ = "open" THEN "stopping" ELSE @]
  /\ dangling' = IF ctx[reg[v]] = "terminated" THEN dangling \cup {v}
                                               ELSE dangling
  /\ h' = [x \in Handle |->
             IF \E o \in mine : ptr[o] = x
               THEN ClosedAtShutdown(CHOOSE o \in mine : ptr[o] = x, x)
               ELSE h[x]]
  /\ ptr' = [o \in Obj |-> IF o \in mine /\ ~Skipped(o) THEN NULL ELSE ptr[o]]
  /\ obj' = [o \in Obj |-> IF o \in mine /\ Collected(o) THEN "free" ELSE obj[o]]

(* README: the embedding program may call the routine itself, again after  *)
(* a signal cut it short and on a context the host already shut down too.  *)
(* Only while another thread is inside it for the same context it may not: *)
(* libzmq does not allow two threads to terminate one context at a time.   *)
DirectTerm(v) ==
  /\ pc[v] = "run"
  /\ \A w \in VM : ~(pc[w] = "direct" /\ reg[w] = reg[v])
  /\ ShutdownAndClose(v)
  /\ pc' = [pc EXCEPT ![v] = "direct"]
  /\ ended' = ended \cup {reg[v]}
  /\ UNCHANGED <<reg, foreign, target, logger, gcOn, interrupted, raised>>

(* A slip to catch: gem_final does not look at __foreigen_context__.       *)
GemFinalAlways(v) ==
  /\ pc[v] = "run"
  /\ ShutdownAndClose(v)
  /\ pc' = [pc EXCEPT ![v] = "final"]
  /\ UNCHANGED <<reg, foreign, target, logger, gcOn, ended, interrupted, raised>>

(* mrb_close runs gem_final; a foreign context is left to its owner.       *)
GemFinal(v) ==
  /\ pc[v] = "run"
  /\ \/ /\ ~foreign[v]
        /\ ShutdownAndClose(v)
        /\ pc' = [pc EXCEPT ![v] = "final"]
     \/ /\ foreign[v]
        /\ pc' = [pc EXCEPT ![v] = "destroy"]
        /\ UNCHANGED <<ctx, heapVars, dangling>>
  /\ UNCHANGED <<reg, foreign, target, logger, gcOn, ended, interrupted, raised>>

(* A slip to catch: sockets have no finaliser.                             *)
DestroyLeaks(v) ==
  /\ pc[v] = "destroy"
  /\ pc' = [pc EXCEPT ![v] = "closed"]
  /\ obj' = [o \in Obj |-> IF HeapOf[o] = v THEN "free" ELSE obj[o]]
  /\ UNCHANGED <<reg, foreign, target, logger, gcOn, ctx, ptr, h, histVars>>

(* mrb_close then frees the whole heap and so runs every finaliser.        *)
DestroyHeap(v) ==
  LET mine == {o \in Obj : HeapOf[o] = v} IN
  /\ pc[v] = "destroy"
  /\ pc' = [pc EXCEPT ![v] = "closed"]
  /\ logger' = [logger EXCEPT ![v] = NULL]
  /\ obj' = [o \in Obj |-> IF o \in mine THEN "free" ELSE obj[o]]
  /\ ptr' = [o \in Obj |-> IF o \in mine THEN NULL ELSE ptr[o]]
  /\ h' = [x \in Handle |-> IF \E o \in mine : ptr[o] = x THEN GcClosed(x) ELSE h[x]]
  /\ UNCHANGED <<reg, foreign, target, gcOn, ctx, histVars>>

-----------------------------------------------------------------------------
(* mrb_zmq_set_context                                                     *)

(* ZMQ.logger = ZMQ::Logger.new(...) on the new context c.  When it raises *)
(* ZMQ.logger keeps the old logger.                                        *)
LoggerReplaced(v, c) ==
  /\ \E o \in Obj, x \in Handle :
       /\ HasLoggerSlot(o, x, v) /\ ctx[c] = "open"
       /\ logger' = [logger EXCEPT ![v] = o]
       /\ obj' = [p \in Obj |-> IF p = o THEN "live"
                                ELSE IF p = logger[v] THEN "garbage" ELSE obj[p]]
       /\ ptr' = [ptr EXCEPT ![o] = x]
       /\ h' = [h EXCEPT ![x] = OpenHandle(c)]
  /\ raised' = raised \ {v}
  /\ UNCHANGED dangling

(* A slip to catch: the Pub socket of a failed logger has no object.       *)
LoggerSocketLeaks(v, c) ==
  /\ \E o \in Obj, x \in Handle :
       /\ HasLoggerSlot(o, x, v) /\ ctx[c] = "open"
       /\ h' = [h EXCEPT ![x] = OpenHandle(c)]
  /\ raised' = raised \cup {v}
  /\ UNCHANGED <<logger, obj, ptr, dangling>>

(* The Pub socket is made but its connect raises: an unreachable object.   *)
LoggerConnectFails(v, c) ==
  /\ \E o \in Obj, x \in Handle :
       /\ HasLoggerSlot(o, x, v) /\ ctx[c] = "open"
       /\ obj' = [obj EXCEPT ![o] = "garbage"]
       /\ ptr' = [ptr EXCEPT ![o] = x]
       /\ h' = [h EXCEPT ![x] = OpenHandle(c)]
  /\ raised' = raised \cup {v}
  /\ UNCHANGED <<logger, dangling>>

(* zmq_socket itself fails: ETERM, EMFILE, or c does not exist any more.   *)
LoggerSocketFails(v, c) ==
  /\ raised' = raised \cup {v}
  /\ dangling' = IF ctx[c] = "terminated" THEN dangling \cup {v} ELSE dangling
  /\ UNCHANGED <<logger, heapVars>>

(* A slip to catch: the logger is not made anew.                           *)
OldLogger(v, c) == UNCHANGED <<logger, heapVars, raised, dangling>>

NewLogger(v, c) ==
  IF LoggerEndpoint
    THEN LoggerReplaced(v, c) \/ LoggerConnectFails(v, c) \/ LoggerSocketFails(v, c)
    ELSE UNCHANGED <<logger, heapVars, raised, dangling>>

(* Slips to catch: the target is read after its reset; the flag is set but *)
(* the old context stays registered.                                       *)
RegisterTarget(v, c) ==
  /\ pc' = [pc EXCEPT ![v] = "run"]
  /\ reg' = [reg EXCEPT ![v] = target[v]]
  /\ foreign' = [foreign EXCEPT ![v] = TRUE]
  /\ target' = [target EXCEPT ![v] = NULL]
  /\ NewLogger(v, c)

RegisterFlagOnly(v, c) ==
  /\ pc' = [pc EXCEPT ![v] = "run"]
  /\ foreign' = [foreign EXCEPT ![v] = TRUE]
  /\ target' = [target EXCEPT ![v] = NULL]
  /\ NewLogger(v, c)
  /\ UNCHANGED reg

Register(v, c) ==
  /\ pc' = [pc EXCEPT ![v] = "run"]
  /\ reg' = [reg EXCEPT ![v] = c]
  /\ foreign' = [foreign EXCEPT ![v] = TRUE]
  /\ target' = [target EXCEPT ![v] = NULL]
  /\ NewLogger(v, c)

(* Slips to catch: the gem's own context is not shut down; a context of    *)
(* the host is.                                                            *)
SetContextOnly(v, c) ==
  /\ pc[v] = "run" /\ ctx[c] \in {"open", "stopping"}
  /\ Register(v, c)
  /\ UNCHANGED <<ctx, gcOn, ended, interrupted>>

SetContextAlways(v, c) ==
  /\ pc[v] = "run" /\ ctx[c] \in {"open", "stopping"}
  /\ ShutdownAndClose(v)
  /\ pc' = [pc EXCEPT ![v] = "swap"]
  /\ target' = [target EXCEPT ![v] = c]
  /\ UNCHANGED <<reg, foreign, logger, raised, gcOn, ended, interrupted>>

(* The first call shuts the gem's own context down before it registers c;  *)
(* zmq_ctx_get refuses what is not a context.                              *)
SetContext(v, c) ==
  /\ pc[v] = "run" /\ ctx[c] \in {"open", "stopping"}
  /\ \/ /\ ~foreign[v]
        /\ ShutdownAndClose(v)
        /\ pc' = [pc EXCEPT ![v] = "swap"]
        /\ target' = [target EXCEPT ![v] = c]
        /\ UNCHANGED <<reg, foreign, logger, raised>>
     \/ /\ foreign[v]
        /\ Register(v, c)
        /\ UNCHANGED ctx
  /\ UNCHANGED <<gcOn, ended, interrupted>>

-----------------------------------------------------------------------------
(* What follows when zmq_ctx_term comes back in one of its three callers.  *)
Resume(v) ==
  \/ /\ pc[v] = "swap"
     /\ Register(v, target[v])
  \/ /\ pc[v] \in {"direct", "final"}
     /\ pc' = [pc EXCEPT ![v] = IF @ = "direct" THEN "run" ELSE "destroy"]
     /\ UNCHANGED <<reg, foreign, target, logger, heapVars, raised, dangling>>

(* zmq_ctx_term on a context terminated before returns with EFAULT.        *)
CtxTermReturns(v) ==
  /\ pc[v] \in {"swap", "direct", "final"}
  /\ ctx[reg[v]] = "terminated" \/ Drained(reg[v])
  /\ ctx' = [ctx EXCEPT ![reg[v]] = "terminated"]
  /\ Resume(v)
  /\ UNCHANGED <<gcOn, ended, interrupted>>

(* zmq_ctx_term returns EINTR; its result is not looked at.                *)
CtxTermInterrupted(v) ==
  /\ pc[v] \in {"swap", "direct", "final"}
  /\ ctx[reg[v]] = "stopping"
  /\ interrupted' = interrupted \cup {v}
  /\ Resume(v)
  /\ UNCHANGED <<gcOn, ctx, ended>>

-----------------------------------------------------------------------------
(* The embedding program: it makes contexts and ends them.  HostCtxTerm is *)
(* its zmq_ctx_shutdown, or the start of its zmq_ctx_term, which it calls  *)
(* until that succeeds, but not while a VM is terminating the context.     *)
HostCtxNew(c) ==
  /\ ctx[c] = "none"
  /\ ctx' = [ctx EXCEPT ![c] = "open"]
  /\ UNCHANGED <<vmVars, heapVars, histVars>>

HostCtxTerm(c) ==
  /\ ctx[c] = "open"
  /\ ctx' = [ctx EXCEPT ![c] = "stopping"]
  /\ ended' = ended \cup {c}
  /\ UNCHANGED <<vmVars, heapVars, interrupted, raised, dangling>>

HostCtxTermReturns(c) ==
  /\ ctx[c] = "stopping" /\ Drained(c)
  /\ \A v \in VM : ~(pc[v] = "direct" /\ reg[v] = c)
  /\ ctx' = [ctx EXCEPT ![c] = "terminated"]
  /\ UNCHANGED <<vmVars, heapVars, histVars>>

-----------------------------------------------------------------------------
VmStep(v) ==
  \/ GemInit(v) \/ GemFinal(v) \/ DestroyHeap(v)
  \/ DirectTerm(v) \/ SocketNewDangling(v)
  \/ CtxTermReturns(v) \/ CtxTermInterrupted(v)
  \/ GcMark(v) \/ GcToggle(v)
  \/ \E c \in HostCtx : SetContext(v, c)

ObjStep(o) ==
  \/ \E x \in Handle : SocketNew(o, x)
  \/ \E l \in Linger : LingerSet(o, l)
  \/ Send(o) \/ Close(o) \/ CloseMark(o) \/ Drop(o) \/ GcSweep(o)

HostStep(c) == HostCtxNew(c) \/ HostCtxTerm(c) \/ HostCtxTermReturns(c)

Next ==
  \/ \E v \in VM : VmStep(v)
  \/ \E o \in Obj : ObjStep(o)
  \/ \E c \in HostCtx : HostStep(c)
  \/ \E x \in Handle : Deliver(x) \/ LingerExpires(x)

Spec == Init /\ [][Next]_vars

(* The I/O threads of libzmq close a lingering socket when its time is up, *)
(* zmq_ctx_term returns when it can, and mrb_close runs to its end.  No    *)
(* peer has to take a message, no program has to close a socket.           *)
Fairness ==
  /\ \A v \in VM : WF_vars(CtxTermReturns(v)) /\ WF_vars(DestroyHeap(v))
  /\ \A x \in Handle : WF_vars(LingerExpires(x))
  /\ \A c \in HostCtx : WF_vars(HostCtxTermReturns(c))

FairSpec == Spec /\ Fairness

-----------------------------------------------------------------------------
(* Safety.                                                                 *)

(* No native socket is leaked or closed twice: every open one is held by   *)
(* exactly one object, whose finaliser or close will close it, and no      *)
(* object of any state points at a socket that is not open (mrb_data_init  *)
(* to NULL after every zmq_close).                                         *)
OneHolder ==
  /\ \A o \in Obj : ptr[o] # NULL => obj[o] # "free" /\ h[ptr[o]].st = "open"
  /\ \A o, p \in Obj : ptr[o] = ptr[p] /\ ptr[o] # NULL => o = p
  /\ \A x \in Handle : h[x].st = "open" => \E o \in Obj : ptr[o] = x

(* A VM never ends a context it does not own: gem_final and the swap look  *)
(* at __foreigen_context__, so a context of the host stops only when the   *)
(* program that embeds mruby asked for it.                                 *)
HostCtxSpared ==
  \A c \in HostCtx : ctx[c] \in {"stopping", "terminated"} => c \in ended

(* The context the gem made does not outlive its use: it is terminated     *)
(* once a host's context is registered and once mrb_close is through,      *)
(* unless a signal cut zmq_ctx_term short.                                 *)
OwnCtxReclaimed ==
  \A v \in VM : (foreign[v] /\ pc[v] = "run") \/ pc[v] \in {"destroy", "closed"}
                  => ctx[v] = "terminated" \/ v \in interrupted

(* After mrb_zmq_set_context no object the program can still reach holds a *)
(* socket of the gem's own context.                                        *)
NoSocketLeftBehind ==
  \A o \in Obj : foreign[HeapOf[o]] /\ ptr[o] # NULL /\ obj[o] # "dead"
                   => h[ptr[o]].ctx # HeapOf[o]

(* As long as set_context returned normally and nobody ended the context,  *)
(* ZMQ.logger has an open socket on the registered context.                *)
LoggerFollowsContext ==
  \A v \in VM :
    LoggerEndpoint /\ pc[v] = "run" /\ v \notin raised /\ reg[v] \notin ended
      => /\ logger[v] # NULL /\ ptr[logger[v]] # NULL
         /\ h[ptr[logger[v]]].ctx = reg[v]

(* A terminated context is handed to libzmq only if the embedding program  *)
(* ended the registered context itself: init, swap and close alone never   *)
(* lead there.                                                             *)
DanglingOnlyIfEnded ==
  [][\A v \in VM : v \in dangling' \ dangling
       => {reg[v], reg'[v]} \cap ended # {}]_vars

(* Once a host's context is registered the gem's own never comes back.  A  *)
(* registered context is replaced only by mrb_zmq_set_context: one of the  *)
(* host by another in a single call that stops no context, the gem's own   *)
(* by the very context the call was given, at the end of a swap and after  *)
(* it was terminated, unless a signal cut zmq_ctx_term short.              *)
SwapIsOneWay ==
  [][\A v \in VM :
       /\ foreign[v] => foreign'[v]
       /\ pc[v] = "swap" /\ pc'[v] # "swap" => reg'[v] = target[v] /\ foreign'[v]
       /\ reg'[v] # reg[v] =>
            /\ reg'[v] \in HostCtx
            /\ IF foreign[v]
                 THEN SetContext(v, reg'[v]) /\ UNCHANGED ctx
                 ELSE /\ pc[v] = "swap" /\ reg'[v] = target[v]
                      /\ ctx'[v] = "terminated" \/ v \in interrupted']_vars

-----------------------------------------------------------------------------
(* The promise of the binding, and how this module keeps it.               *)
Mode(v) ==
  CASE pc[v] = "unborn"             -> "new"
    [] pc[v] \in {"run", "direct"}  -> IF foreign[v] THEN "host" ELSE "own"
    [] pc[v] = "swap"               -> "moving"
    [] pc[v] \in {"final", "destroy"} -> "leaving"
    [] pc[v] = "closed"             -> "gone"

HeldBy(v) == {x \in Handle : \E o \in Obj : HeapOf[o] = v /\ ptr[o] = x}

Session == INSTANCE ZmqSession
             WITH mode <- [v \in VM |-> Mode(v)], held <- [v \in VM |-> HeldBy(v)]

(* mrb_states never share a native socket, none is made while a context is *)
(* swapped or an mrb_state closes, and mrb_close leaves none behind, the   *)
(* sockets on contexts of the host included.                               *)
KeepsSession == Session!Spec

-----------------------------------------------------------------------------
(* Liveness.                                                               *)

(* What may keep zmq_ctx_term from ever returning: a socket the program    *)
(* closed with an infinite linger (or the collector or the shutdown did,   *)
(* when libzmq no longer let them set it), or one whose dead object the    *)
(* shutdown passed over.                                                   *)
Stuck(c) ==
  \E x \in Handle :
    /\ h[x].ctx = c
    /\ \/ h[x].st = "closing" /\ h[x].linger = "forever"
       \/ h[x].st = "ending" /\ h[x].linger = "forever" /\ h[x].told
       \/ \E o \in Obj : ptr[o] = x /\ obj[o] = "dead"

(* mrb_close returns, unless a socket that the program closed without a    *)
(* bounded linger (or one in a dead object while the collector is off)     *)
(* keeps zmq_ctx_term waiting: sockets still open at mrb_close never do.   *)
CloseReturns ==
  \A v \in VM : pc[v] = "final" ~> pc[v] = "closed" \/ Stuck(v)

(* The swap returns under the same condition.                              *)
SwapReturns ==
  \A v \in VM : pc[v] = "swap" ~> pc[v] = "run" \/ Stuck(v)

(* The host's own zmq_ctx_term returns once every VM that used the context *)
(* is closed: gem_final leaves the foreign sockets to the finalisers.      *)
HostTermReturns ==
  \A c \in HostCtx :
    ctx[c] = "stopping" /\ (\A v \in VM : pc[v] = "closed")
      ~> ctx[c] = "terminated" \/ Stuck(c)

-----------------------------------------------------------------------------
(* What comments and documentation say and the code does not keep.         *)

(* socket.rb:13: close! "immediately closes the socket, discarding any     *)
(* messages which couldn't be sent yet"; mrb_libzmq.h:155 says the same   *)
(* of a collected socket.  Both ignore the result of zmq_setsockopt.       *)
ClosesAtOnce ==
  [][\A o \in Obj : ptr[o] # NULL /\ (CloseMark(o) \/ GcSweep(o))
       => h'[ptr[o]].st = "free"]_vars

(* README.md:76: the routine "then terminates" the context, which is thus  *)
(* terminated when it returns.                                             *)
TermTerminates ==
  [][\A v \in VM : pc[v] = "direct" /\ pc'[v] = "run"
       => ctx'[reg[v]] = "terminated"]_vars
=============================================================================
