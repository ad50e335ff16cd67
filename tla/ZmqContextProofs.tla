-------------------------- MODULE ZmqContextProofs --------------------------
(* Theorems about ZmqContext, for every set of VMs, contexts, objects and  *)
(* native sockets.                                                         *)
EXTENDS ZmqContext, TLAPS

-----------------------------------------------------------------------------
(* Typing of the helpers.                                                  *)

(* The two records a native socket starts from.                            *)
LEMMA HandleRecords ==
  /\ NoHandle \in HandleState
  /\ \A c \in Ctx : OpenHandle(c) \in HandleState
BY DEF Socket, NoHandle, OpenHandle, HandleState, Linger

(* The fields of a socket, and what the steps of its VM make of them.      *)
LEMMA FieldsTyped ==
  ASSUME TypeOK, NEW x \in Handle
  PROVE  /\ h[x].ctx \in Ctx \cup {NULL} /\ h[x].linger \in Linger
         /\ h[x].unsent \in BOOLEAN /\ h[x].told \in BOOLEAN
         /\ \A l \in Linger, u, t \in BOOLEAN :
              Socket("open", h[x].ctx, l, u, t) \in HandleState
<1>1. h[x] \in HandleState
  BY DEF TypeOK
<1>2. QED
  BY <1>1 DEF Socket, HandleState

(* zmq_setsockopt leaves a linger value, zmq_close a socket record.        *)
LEMMA CloseTyped ==
  ASSUME TypeOK, NEW x \in Handle, NEW l \in Linger
  PROVE  /\ SetLinger(x, l) \in Linger
         /\ \A st \in {"closing", "ending"} :
              /\ CloseAs(st, x, l) \in HandleState
              /\ CloseAs(st, x, SetLinger(x, l)) \in HandleState
         /\ CloseWith(x, l) \in HandleState
         /\ CloseWith(x, SetLinger(x, l)) \in HandleState
<1>1. h[x] \in HandleState
  BY DEF TypeOK
<1>2. SetLinger(x, l) \in Linger
  BY <1>1 DEF SetLinger, HandleState
<1>3. ASSUME NEW k \in Linger, NEW st \in {"closing", "ending"}
      PROVE  CloseAs(st, x, k) \in HandleState
  BY <1>1, HandleRecords DEF Socket, CloseAs, HandleState
<1>4. QED
  BY <1>2, <1>3 DEF CloseWith

(* So do the finaliser and the shutdown routine.                           *)
LEMMA FinaliserTyped ==
  ASSUME TypeOK, NEW x \in Handle
  PROVE  /\ GcClosed(x) \in HandleState
         /\ \A o : ClosedAtShutdown(o, x) \in HandleState
<1>1. {"none", "bounded"} \subseteq Linger
  BY DEF Linger
<1>2. GcClosed(x) \in HandleState
  BY <1>1, CloseTyped DEF GcClosed
<1>3. h[x] \in HandleState
  BY DEF TypeOK
<1>4. CloseAs("ending", x, SetLinger(x, "bounded")) \in HandleState
  BY <1>1, CloseTyped
<1>5. QED
  BY <1>2, <1>3, <1>4 DEF ClosedAtShutdown


-----------------------------------------------------------------------------
(* What the registered context may be in each phase: the gem's own before  *)
(* the first swap, one of the host after it; gem_final and the swap reach  *)
(* zmq_ctx_term only with the gem's own; and a VM in a direct call of the  *)
(* shutdown routine ends a context whose end was asked for.                *)
Registered ==
  \A v \in VM :
    /\ foreign[v] => reg[v] \in HostCtx
    /\ ~foreign[v] => reg[v] = v
    /\ pc[v] \in {"unborn", "swap", "final"} => ~foreign[v]
    /\ pc[v] = "swap" => target[v] \in HostCtx
    /\ pc[v] = "direct" => reg[v] \in ended

TypeInv == TypeOK /\ Registered

LEMMA TypeInit == Init => TypeInv
BY ConstantsAssumption, HandleRecords
   DEF Init, TypeInv, TypeOK, Registered, Ctx

(* The shutdown routine keeps the type of everything it touches.           *)
LEMMA ShutdownTyped ==
  ASSUME TypeInv, NEW v \in VM, ShutdownAndClose(v)
  PROVE  /\ ctx' \in [Ctx -> {"none", "open", "stopping", "terminated"}]
         /\ obj' \in [Obj -> {"free", "live", "garbage", "dead"}]
         /\ ptr' \in [Obj -> Handle \cup {NULL}]
         /\ h' \in [Handle -> HandleState]
         /\ dangling' \subseteq VM
<1> USE DEF TypeInv, TypeOK
<1>1. h' \in [Handle -> HandleState]
  BY FinaliserTyped DEF ShutdownAndClose
<1>2. ctx' \in [Ctx -> {"none", "open", "stopping", "terminated"}]
  BY DEF ShutdownAndClose
<1>3. obj' \in [Obj -> {"free", "live", "garbage", "dead"}]
  BY DEF ShutdownAndClose
<1>4. ptr' \in [Obj -> Handle \cup {NULL}]
  BY DEF ShutdownAndClose
<1>5. QED
  BY <1>1, <1>2, <1>3, <1>4 DEF ShutdownAndClose

(* So does registering a context of the host.                              *)
LEMMA RegisterKeeps ==
  ASSUME TypeInv, NEW v \in VM, NEW c \in HostCtx, Register(v, c),
         UNCHANGED <<gcOn, ended>>, interrupted' \subseteq VM,
         ctx' \in [Ctx -> {"none", "open", "stopping", "terminated"}]
  PROVE  TypeInv'
<1> USE DEF TypeInv, TypeOK
<1>1. c \in Ctx
  BY DEF Ctx
<1>2. /\ logger' \in [VM -> Obj \cup {NULL}]
      /\ obj' \in [Obj -> {"free", "live", "garbage", "dead"}]
      /\ ptr' \in [Obj -> Handle \cup {NULL}]
      /\ h' \in [Handle -> HandleState]
      /\ dangling' \subseteq VM /\ raised' \subseteq VM
  <2>1. CASE ~LoggerEndpoint
    BY <2>1 DEF Register, NewLogger, heapVars
  <2>2. CASE LoggerEndpoint /\ LoggerReplaced(v, c)
    BY <1>1, <2>2, HandleRecords DEF LoggerReplaced, HasLoggerSlot
  <2>3. CASE LoggerEndpoint /\ LoggerConnectFails(v, c)
    BY <1>1, <2>3, HandleRecords DEF LoggerConnectFails, HasLoggerSlot
  <2>4. CASE LoggerEndpoint /\ LoggerSocketFails(v, c)
    BY <2>4 DEF LoggerSocketFails, heapVars
  <2>5. QED
    BY <2>1, <2>2, <2>3, <2>4 DEF Register, NewLogger
<1>3. TypeOK'
  BY <1>1, <1>2 DEF Register
<1>4. Registered'
  BY DEF Register, Registered
<1>5. QED
  BY <1>3, <1>4

(* TypeInv is inductive.                                                   *)
LEMMA TypeStep == TypeInv /\ [Next]_vars => TypeInv'
<1> SUFFICES ASSUME TypeInv, [Next]_vars PROVE TypeInv'
  OBVIOUS
<1> USE DEF TypeInv, TypeOK, Registered, vmVars, heapVars, histVars
<1>1. ASSUME NEW v \in VM, GemInit(v) PROVE TypeInv'
  <2>1. v \in Ctx /\ OpenHandle(v) \in HandleState
    BY HandleRecords DEF Ctx
  <2>2. CASE ~LoggerEndpoint
    BY <1>1, <2>1, <2>2 DEF GemInit, FirstLogger
  <2>3. CASE LoggerEndpoint
    BY <1>1, <2>1, <2>3 DEF GemInit, FirstLogger
  <2>4. QED
    BY <2>2, <2>3
<1>2. ASSUME NEW v \in VM, GemFinal(v) PROVE TypeInv'
  <2>1. CASE foreign[v]
    BY <1>2, <2>1 DEF GemFinal
  <2>2. CASE ~foreign[v]
    BY <1>2, <2>2, ShutdownTyped DEF GemFinal
  <2>3. QED
    BY <2>1, <2>2
<1>3. ASSUME NEW v \in VM, DestroyHeap(v) PROVE TypeInv'
  BY <1>3, FinaliserTyped DEF DestroyHeap
<1>4. ASSUME NEW v \in VM, DirectTerm(v) PROVE TypeInv'
  <2>1. reg[v] \in Ctx /\ reg[v] \in ended'
    BY <1>4 DEF DirectTerm
  <2>2. QED
    BY <1>4, <2>1, ShutdownTyped DEF DirectTerm
<1>5. ASSUME NEW v \in VM, SocketNewDangling(v) PROVE TypeInv'
  BY <1>5 DEF SocketNewDangling
<1>6. ASSUME NEW v \in VM, CtxTermReturns(v) PROVE TypeInv'
  <2>1. ctx' \in [Ctx -> {"none", "open", "stopping", "terminated"}]
    BY <1>6 DEF CtxTermReturns
  <2>2. CASE pc[v] = "swap"
    BY <1>6, <2>1, <2>2, RegisterKeeps DEF CtxTermReturns, Resume
  <2>3. CASE pc[v] \in {"direct", "final"}
    BY <1>6, <2>1, <2>3 DEF CtxTermReturns, Resume
  <2>4. QED
    BY <1>6, <2>2, <2>3 DEF CtxTermReturns
<1>7. ASSUME NEW v \in VM, CtxTermInterrupted(v) PROVE TypeInv'
  <2>1. CASE pc[v] = "swap"
    <3>1. Register(v, target[v]) /\ target[v] \in HostCtx
      BY <1>7, <2>1 DEF CtxTermInterrupted, Resume
    <3>2. QED
      BY <1>7, <3>1, RegisterKeeps DEF CtxTermInterrupted
  <2>2. CASE pc[v] \in {"direct", "final"}
    BY <1>7, <2>2 DEF CtxTermInterrupted, Resume
  <2>3. QED
    BY <1>7, <2>1, <2>2 DEF CtxTermInterrupted
<1>8. ASSUME NEW v \in VM, GcMark(v) PROVE TypeInv'
  BY <1>8 DEF GcMark
<1>9. ASSUME NEW v \in VM, GcToggle(v) PROVE TypeInv'
  BY <1>9 DEF GcToggle
<1>10. ASSUME NEW v \in VM, NEW c \in HostCtx, SetContext(v, c) PROVE TypeInv'
  <2>1. CASE foreign[v]
    BY <1>10, <2>1, RegisterKeeps DEF SetContext
  <2>2. CASE ~foreign[v]
    BY <1>10, <2>2, ShutdownTyped DEF SetContext
  <2>3. QED
    BY <2>1, <2>2
<1>11. ASSUME NEW o \in Obj, NEW x \in Handle, SocketNew(o, x) PROVE TypeInv'
  <2>1. OpenHandle(reg[HeapOf[o]]) \in HandleState
    BY ConstantsAssumption, HandleRecords
  <2>2. QED
    BY <1>11, <2>1 DEF SocketNew
<1>12. ASSUME NEW o \in Obj, NEW l \in Linger, LingerSet(o, l) PROVE TypeInv'
  <2>1. ptr[o] \in Handle
    BY <1>12 DEF LingerSet, Usable
  <2>2. QED
    BY <1>12, <2>1, FieldsTyped, CloseTyped DEF LingerSet
<1>13. ASSUME NEW o \in Obj, Send(o) PROVE TypeInv'
  <2>1. ptr[o] \in Handle
    BY <1>13 DEF Send, Usable
  <2>2. QED
    BY <1>13, <2>1, FieldsTyped DEF Send
<1>14. ASSUME NEW o \in Obj, Close(o) PROVE TypeInv'
  <2>1. ptr[o] \in Handle
    BY <1>14 DEF Close, Usable
  <2>2. QED
    BY <1>14, <2>1, FieldsTyped, CloseTyped DEF Close
<1>15. ASSUME NEW o \in Obj, CloseMark(o) PROVE TypeInv'
  <2>1. ptr[o] \in Handle /\ "none" \in Linger
    BY <1>15 DEF CloseMark, Usable, Linger
  <2>2. QED
    BY <1>15, <2>1, CloseTyped DEF CloseMark
<1>16. ASSUME NEW o \in Obj, Drop(o) PROVE TypeInv'
  BY <1>16 DEF Drop
<1>17. ASSUME NEW o \in Obj, GcSweep(o) PROVE TypeInv'
  BY <1>17, FinaliserTyped DEF GcSweep
<1>18. ASSUME NEW c \in HostCtx, HostCtxNew(c) PROVE TypeInv'
  BY <1>18 DEF HostCtxNew
<1>19. ASSUME NEW c \in HostCtx, HostCtxTerm(c) PROVE TypeInv'
  BY <1>19 DEF HostCtxTerm, Ctx
<1>20. ASSUME NEW c \in HostCtx, HostCtxTermReturns(c) PROVE TypeInv'
  BY <1>20 DEF HostCtxTermReturns
<1>21. ASSUME NEW x \in Handle, Deliver(x) PROVE TypeInv'
  BY <1>21, HandleRecords, FieldsTyped DEF Deliver
<1>22. ASSUME NEW x \in Handle, LingerExpires(x) PROVE TypeInv'
  BY <1>22, HandleRecords DEF LingerExpires
<1>23. CASE UNCHANGED vars
  BY <1>23 DEF vars
<1>24. QED
  BY <1>1, <1>2, <1>3, <1>4, <1>5, <1>6, <1>7, <1>8, <1>9, <1>10, <1>11, <1>12,
     <1>13, <1>14, <1>15, <1>16, <1>17, <1>18, <1>19, <1>20, <1>21, <1>22, <1>23
     DEF Next, VmStep, ObjStep, HostStep

(* Every variable keeps its type.                                          *)
THEOREM TypeCorrect == Spec => []TypeOK
<1>1. TypeInv => TypeOK
  BY DEF TypeInv
<1>2. QED
  BY TypeInit, TypeStep, <1>1, PTL DEF Spec

-----------------------------------------------------------------------------
(* Contexts.                                                               *)

ctlVars == <<pc, reg, foreign, ctx, ended, interrupted>>

(* Steps on sockets and of the collector leave the contexts alone.         *)
LEMMA ControlSteps ==
  ASSUME [Next]_vars
  PROVE  \/ UNCHANGED ctlVars
         \/ \E v \in VM : \/ GemInit(v) \/ GemFinal(v) \/ DestroyHeap(v)
                          \/ DirectTerm(v)
                          \/ CtxTermReturns(v) \/ CtxTermInterrupted(v)
                          \/ \E c \in HostCtx : SetContext(v, c)
         \/ \E c \in HostCtx : HostStep(c)
<1> USE DEF ctlVars, vars, vmVars, heapVars, histVars
<1>1. ASSUME NEW v \in VM, GcMark(v) \/ GcToggle(v) \/ SocketNewDangling(v)
      PROVE  UNCHANGED ctlVars
  BY <1>1 DEF GcMark, GcToggle, SocketNewDangling
<1>2. ASSUME NEW o \in Obj, ObjStep(o) PROVE UNCHANGED ctlVars
  BY <1>2 DEF ObjStep, SocketNew, LingerSet, Send, Close, CloseMark, Drop, GcSweep
<1>3. ASSUME NEW x \in Handle, Deliver(x) \/ LingerExpires(x)
      PROVE  UNCHANGED ctlVars
  BY <1>3 DEF Deliver, LingerExpires
<1>4. CASE UNCHANGED vars
  BY <1>4
<1>5. QED
  BY <1>1, <1>2, <1>3, <1>4 DEF Next, VmStep

(* HostCtxSpared and OwnCtxReclaimed as they are preserved: the context of *)
(* the gem is gone from the moment the flag is set, and while it is the    *)
(* registered one and in use, only its owner's request has stopped it.     *)
Reclaimed ==
  \A v \in VM : foreign[v] \/ pc[v] \in {"destroy", "closed"}
                  => ctx[v] = "terminated" \/ v \in interrupted

OwnEnded ==
  \A v \in VM : /\ pc[v] \in {"run", "direct"} /\ ~foreign[v]
                /\ ctx[v] \in {"stopping", "terminated"}
                => v \in ended

CtxInv == HostCtxSpared /\ Reclaimed /\ OwnEnded

LEMMA CtxInit == Init => CtxInv
BY DEF Init, Ctx, CtxInv, HostCtxSpared, Reclaimed, OwnEnded

(* CtxInv is inductive relative to TypeInv.                                *)
LEMMA CtxStep == TypeInv /\ CtxInv /\ [Next]_vars => CtxInv'
<1> SUFFICES ASSUME TypeInv, CtxInv, [Next]_vars PROVE CtxInv'
  OBVIOUS
<1> USE ConstantsAssumption
    DEF TypeInv, TypeOK, Registered, Ctx, CtxInv, HostCtxSpared, Reclaimed, OwnEnded
<1>1. ASSUME NEW v \in VM, GemInit(v) PROVE CtxInv'
  BY <1>1 DEF GemInit, FirstLogger, histVars
<1>2. ASSUME NEW v \in VM, GemFinal(v) PROVE CtxInv'
  BY <1>2 DEF GemFinal, ShutdownAndClose
<1>3. ASSUME NEW v \in VM, DestroyHeap(v) PROVE CtxInv'
  BY <1>3 DEF DestroyHeap, histVars
<1>4. ASSUME NEW v \in VM, DirectTerm(v) PROVE CtxInv'
  BY <1>4 DEF DirectTerm, ShutdownAndClose
<1>5. ASSUME NEW v \in VM, CtxTermReturns(v) PROVE CtxInv'
  BY <1>5 DEF CtxTermReturns, Resume, Register
<1>6. ASSUME NEW v \in VM, CtxTermInterrupted(v) PROVE CtxInv'
  BY <1>6 DEF CtxTermInterrupted, Resume, Register
<1>7. ASSUME NEW v \in VM, NEW c \in HostCtx, SetContext(v, c) PROVE CtxInv'
  BY <1>7 DEF SetContext, ShutdownAndClose, Register
<1>8. ASSUME NEW c \in HostCtx, HostStep(c) PROVE CtxInv'
  BY <1>8 DEF HostStep, HostCtxNew, HostCtxTerm, HostCtxTermReturns, vmVars, histVars
<1>9. CASE UNCHANGED ctlVars
  BY <1>9 DEF ctlVars
<1>10. QED
  BY <1>1, <1>2, <1>3, <1>4, <1>5, <1>6, <1>7, <1>8, <1>9, ControlSteps

LEMMA CtxInvariant == Spec => [](TypeInv /\ CtxInv)
BY TypeInit, TypeStep, CtxInit, CtxStep, PTL DEF Spec

(* A context of the host is stopped only when the embedding program asked. *)
THEOREM HostContextsSpared == Spec => []HostCtxSpared
<1>1. CtxInv => HostCtxSpared
  BY DEF CtxInv
<1>2. QED
  BY <1>1, CtxInvariant, PTL

(* The gem's own context does not outlive its use.                         *)
THEOREM OwnContextReclaimed == Spec => []OwnCtxReclaimed
<1>1. CtxInv => OwnCtxReclaimed
  BY DEF CtxInv, Reclaimed, OwnCtxReclaimed
<1>2. QED
  BY <1>1, CtxInvariant, PTL

(* A swap is never undone, and mrb_zmq_set_context alone replaces a        *)
(* registered context: by the one it was given, one of the host at once,   *)
(* the gem's own only when it is terminated or zmq_ctx_term was cut short. *)
THEOREM SwapNeverUndone == Spec => SwapIsOneWay
<1> DEFINE OneWay(v) ==
      /\ foreign[v] => foreign'[v]
      /\ pc[v] = "swap" /\ pc'[v] # "swap" => reg'[v] = target[v] /\ foreign'[v]
      /\ reg'[v] # reg[v] =>
           /\ reg'[v] \in HostCtx
           /\ IF foreign[v]
                THEN SetContext(v, reg'[v]) /\ UNCHANGED ctx
                ELSE /\ pc[v] = "swap" /\ reg'[v] = target[v]
                     /\ ctx'[v] = "terminated" \/ v \in interrupted'
<1>1. ASSUME TypeInv, [Next]_vars PROVE \A v \in VM : OneWay(v)
  <2> SUFFICES ASSUME NEW v \in VM PROVE OneWay(v)
    OBVIOUS
  <2> USE <1>1 DEF TypeInv, TypeOK, Registered
  <2>1. ASSUME pc'[v] = pc[v], reg'[v] = reg[v], foreign'[v] = foreign[v]
        PROVE  OneWay(v)
    BY <2>1
  <2>2. CASE UNCHANGED ctlVars
    BY <2>1, <2>2 DEF ctlVars
  <2>3. ASSUME NEW w \in VM,
               \/ GemInit(w) \/ GemFinal(w) \/ DestroyHeap(w) \/ DirectTerm(w)
        PROVE  OneWay(v)
    BY <2>3 DEF GemInit, GemFinal, DestroyHeap, DirectTerm
  <2>4. ASSUME NEW w \in VM, CtxTermReturns(w) \/ CtxTermInterrupted(w)
        PROVE  OneWay(v)
    <3>1. CASE w # v
      BY <2>1, <2>4, <3>1 DEF CtxTermReturns, CtxTermInterrupted, Resume, Register
    <3>2. CASE w = v /\ pc[v] # "swap"
      BY <2>4, <3>2 DEF CtxTermReturns, CtxTermInterrupted, Resume
    <3>3. CASE w = v /\ pc[v] = "swap"
      <4>1. Register(v, target[v]) /\ ~foreign[v] /\ target[v] \in HostCtx
        BY <2>4, <3>3 DEF CtxTermReturns, CtxTermInterrupted, Resume
      <4>2. ctx'[v] = "terminated" \/ v \in interrupted'
        BY <2>4, <3>3 DEF CtxTermReturns, CtxTermInterrupted, Ctx
      <4>3. QED
        BY <3>3, <4>1, <4>2 DEF Register
    <3>4. QED
      BY <3>1, <3>2, <3>3
  <2>5. ASSUME NEW w \in VM, NEW c \in HostCtx, SetContext(w, c)
        PROVE  OneWay(v)
    <3>1. CASE w # v
      BY <2>1, <2>5, <3>1 DEF SetContext, Register
    <3>2. CASE w = v /\ ~foreign[v]
      BY <2>5, <3>2 DEF SetContext
    <3>3. CASE w = v /\ foreign[v]
      <4>1. reg'[v] = c /\ foreign'[v] /\ UNCHANGED ctx /\ pc[v] = "run"
        BY <2>5, <3>3 DEF SetContext, Register
      <4>2. SetContext(v, reg'[v])
        BY <2>5, <3>3, <4>1
      <4>3. QED
        BY <3>3, <4>1, <4>2
    <3>4. QED
      BY <3>1, <3>2, <3>3
  <2>6. ASSUME NEW c \in HostCtx, HostStep(c) PROVE OneWay(v)
    BY <2>1, <2>6 DEF HostStep, HostCtxNew, HostCtxTerm, HostCtxTermReturns, vmVars
  <2>7. QED
    BY <2>2, <2>3, <2>4, <2>5, <2>6, ControlSteps
<1>2. QED
  BY <1>1, TypeInit, TypeStep, PTL DEF Spec, SwapIsOneWay

(* A VM hands a terminated context to libzmq only when the embedding       *)
(* program ended the context it has, or the one it is about to register.   *)
THEOREM DanglingNeedsRequest == Spec => DanglingOnlyIfEnded
<1> DEFINE Asked == \A v \in VM : v \in dangling' \ dangling
                                  => {reg[v], reg'[v]} \cap ended # {}
<1>1. ASSUME TypeInv, CtxInv, [Next]_vars PROVE Asked
  <2>0. ASSUME NEW o \in Obj, ObjStep(o) PROVE UNCHANGED dangling
    BY <2>0 DEF ObjStep, SocketNew, LingerSet, Send, Close, CloseMark, Drop,
               GcSweep, histVars
  <2> USE <1>1, ConstantsAssumption
      DEF TypeInv, TypeOK, Registered, Ctx, CtxInv, HostCtxSpared, OwnEnded
  <2>1. ASSUME NEW v \in VM, ctx[reg[v]] = "terminated", pc[v] = "run"
        PROVE  reg[v] \in ended
    BY <2>1
  <2>2. ASSUME NEW v \in VM, NEW c \in HostCtx, Register(v, c) PROVE Asked
    <3>1. ASSUME LoggerSocketFails(v, c) PROVE Asked
      BY <2>2, <3>1 DEF Register, LoggerSocketFails
    <3>2. ASSUME UNCHANGED dangling PROVE Asked
      BY <3>2
    <3>3. QED
      BY <2>2, <3>1, <3>2
         DEF Register, NewLogger, LoggerReplaced, LoggerConnectFails
  <2>3. ASSUME NEW v \in VM, pc[v] = "run", ShutdownAndClose(v) PROVE Asked
    BY <2>1, <2>3 DEF ShutdownAndClose
  <2>4. ASSUME NEW v \in VM, GemFinal(v) \/ DirectTerm(v) PROVE Asked
    BY <2>3, <2>4 DEF GemFinal, DirectTerm
  <2>5. ASSUME NEW v \in VM, NEW c \in HostCtx, SetContext(v, c) PROVE Asked
    BY <2>2, <2>3, <2>5 DEF SetContext
  <2>6. ASSUME NEW v \in VM, CtxTermReturns(v) \/ CtxTermInterrupted(v) PROVE Asked
    BY <2>2, <2>6 DEF CtxTermReturns, CtxTermInterrupted, Resume
  <2>7. ASSUME NEW v \in VM, SocketNewDangling(v) PROVE Asked
    BY <2>1, <2>7 DEF SocketNewDangling, vmVars
  <2>8. ASSUME NEW v \in VM, GemInit(v) \/ DestroyHeap(v) \/ GcMark(v) \/ GcToggle(v)
        PROVE  Asked
    BY <2>8 DEF GemInit, FirstLogger, DestroyHeap, GcMark, GcToggle, histVars
  <2>9. ASSUME NEW o \in Obj, ObjStep(o) PROVE Asked
    BY <2>0, <2>9
  <2>10. ASSUME NEW c \in HostCtx, HostStep(c) PROVE Asked
    BY <2>10 DEF HostStep, HostCtxNew, HostCtxTerm, HostCtxTermReturns, histVars
  <2>11. ASSUME NEW x \in Handle, Deliver(x) \/ LingerExpires(x) PROVE Asked
    BY <2>11 DEF Deliver, LingerExpires, histVars
  <2>12. CASE UNCHANGED vars
    BY <2>12 DEF vars, histVars
  <2>13. QED
    BY <2>4, <2>5, <2>6, <2>7, <2>8, <2>9, <2>10, <2>11, <2>12
       DEF Next, VmStep
<1>2. QED
  BY <1>1, CtxInvariant, PTL DEF Spec, DanglingOnlyIfEnded

-----------------------------------------------------------------------------
(* Sockets.                                                                *)

(* A closed socket is free or lingers, it is never open again.             *)
LEMMA ClosedIsNotOpen ==
  /\ \A x, l : /\ CloseWith(x, l).st # "open"
              /\ CloseAs("ending", x, l).st # "open"
  /\ \A x : GcClosed(x).st # "open"
BY DEF CloseAs, CloseWith, GcClosed, Socket, NoHandle

LEMMA HolderInit == Init => OneHolder
BY DEF Init, OneHolder, NoHandle, Socket

(* The shutdown routine reaches every socket of the VM through the one     *)
(* object that holds it, and forgets exactly the sockets it closes.        *)
LEMMA ShutdownHolder ==
  ASSUME TypeInv, OneHolder, NEW v \in VM, ShutdownAndClose(v)
  PROVE  OneHolder'
<1> USE DEF TypeInv, TypeOK
<1> DEFINE mine == {o \in Obj : HeapOf[o] = v}
<1>1. ASSUME NEW o \in mine, ptr[o] # NULL
      PROVE  h'[ptr[o]] = ClosedAtShutdown(o, ptr[o])
  <2>1. (CHOOSE p \in mine : ptr[p] = ptr[o]) = o
    BY <1>1 DEF OneHolder
  <2>2. ptr[o] \in Handle
    BY <1>1
  <2>3. QED
    BY <1>1, <2>1, <2>2 DEF ShutdownAndClose
<1>2. ASSUME NEW o \in Obj, o \notin mine
      PROVE  ptr'[o] = ptr[o] /\ obj'[o] = obj[o]
  BY <1>2 DEF ShutdownAndClose
<1>3. ASSUME NEW x \in Handle, \A o \in mine : ptr[o] # x PROVE h'[x] = h[x]
  BY <1>3 DEF ShutdownAndClose
<1>4. ASSUME NEW o \in mine
      PROVE  \/ ptr'[o] = NULL /\ ~Skipped(o)
             \/ Skipped(o) /\ ptr'[o] = ptr[o] /\ obj'[o] = obj[o]
  BY <1>4 DEF ShutdownAndClose, Skipped, Collected
<1>5. ASSUME NEW o \in mine, ptr[o] # NULL, Skipped(o)
      PROVE  h'[ptr[o]] = h[ptr[o]]
  BY <1>1, <1>5 DEF ClosedAtShutdown, Skipped, Collected
<1>6. ASSUME NEW o \in mine, ptr[o] # NULL, ~Skipped(o)
      PROVE  h'[ptr[o]].st # "open"
  BY <1>1, <1>6, ClosedIsNotOpen DEF ClosedAtShutdown
<1>7. ASSUME NEW o \in Obj, ptr'[o] # NULL
      PROVE  ptr'[o] = ptr[o] /\ obj'[o] # "free" /\ h'[ptr[o]].st = "open"
  <2>1. CASE o \in mine
    BY <1>4, <1>5, <1>7, <2>1 DEF OneHolder
  <2>2. CASE o \notin mine
    BY <1>2, <1>3, <1>7, <2>2 DEF OneHolder
  <2>3. QED
    BY <2>1, <2>2
<1>8. ASSUME NEW x \in Handle, h'[x].st = "open" PROVE \E o \in Obj : ptr'[o] = x
  <2>1. CASE \A o \in mine : ptr[o] # x
    <3>1. PICK o \in Obj : ptr[o] = x
      BY <1>3, <1>8, <2>1 DEF OneHolder
    <3>2. QED
      BY <1>2, <2>1, <3>1
  <2>2. ASSUME NEW o \in mine, ptr[o] = x PROVE ptr'[o] = x
    <3>1. ptr[o] # NULL
      BY <2>2, ConstantsAssumption
    <3>2. QED
      BY <1>4, <1>6, <1>8, <2>2, <3>1
  <2>3. QED
    BY <2>1, <2>2
<1>9. QED
  BY <1>7, <1>8 DEF OneHolder

(* Three ways a step may treat sockets and objects: it opens a socket in a *)
(* slot that holds none, it closes the one a slot holds, or neither.       *)
LEMMA TakenHolder ==
  ASSUME TypeInv, OneHolder, NEW o \in Obj, NEW x \in Handle, NEW c,
         ptr[o] = NULL, h[x].st = "free",
         ptr' = [ptr EXCEPT ![o] = x], h' = [h EXCEPT ![x] = OpenHandle(c)],
         obj'[o] # "free", \A p \in Obj : obj[p] # "free" => obj'[p] # "free"
  PROVE  OneHolder'
<1> USE DEF TypeInv, TypeOK, OneHolder
<1>1. OpenHandle(c).st = "open"
  BY DEF OpenHandle, Socket
<1>2. ASSUME NEW p \in Obj, p # o PROVE ptr'[p] = ptr[p] /\ ptr[p] # x
  <2>1. x # NULL
    BY ConstantsAssumption
  <2>2. QED
    BY <1>2, <2>1
<1>3. ptr'[o] = x
  OBVIOUS
<1>4. ASSUME NEW p \in Obj, ptr'[p] # NULL
      PROVE  obj'[p] # "free" /\ h'[ptr'[p]].st = "open"
  BY <1>1, <1>2, <1>3, <1>4
<1>5. ASSUME NEW y \in Handle, h'[y].st = "open" PROVE \E p \in Obj : ptr'[p] = y
  <2>1. CASE y = x
    BY <1>3, <2>1
  <2>2. CASE y # x
    <3>1. PICK p \in Obj : ptr[p] = y
      BY <1>5, <2>2
    <3>2. QED
      BY <1>2, <3>1, ConstantsAssumption
  <2>3. QED
    BY <2>1, <2>2
<1>6. QED
  BY <1>2, <1>3, <1>4, <1>5

LEMMA GivenHolder ==
  ASSUME TypeInv, OneHolder, NEW o \in Obj, ptr[o] # NULL, NEW r, r.st # "open",
         ptr' = [ptr EXCEPT ![o] = NULL], h' = [h EXCEPT ![ptr[o]] = r],
         \A p \in Obj : p # o => obj'[p] = obj[p]
  PROVE  OneHolder'
<1> USE DEF TypeInv, TypeOK, OneHolder
<1>1. ASSUME NEW p \in Obj, ptr'[p] # NULL
      PROVE  p # o /\ ptr'[p] = ptr[p] /\ ptr[p] # ptr[o]
  BY <1>1
<1>2. ASSUME NEW y \in Handle, h'[y].st = "open" PROVE \E p \in Obj : ptr'[p] = y
  <2>1. y # ptr[o] /\ h[y].st = "open"
    BY <1>2
  <2>2. PICK p \in Obj : ptr[p] = y
    BY <2>1
  <2>3. QED
    BY <2>1, <2>2
<1>3. QED
  BY <1>1, <1>2

LEMMA KeptHolder ==
  ASSUME TypeInv, OneHolder, UNCHANGED ptr,
         \A p \in Obj : obj[p] # "free" => obj'[p] # "free",
         \A x \in Handle : h'[x].st = "open" <=> h[x].st = "open"
  PROVE  OneHolder'
BY DEF TypeInv, TypeOK, OneHolder

(* A slot that is free holds nothing.                                      *)
LEMMA FreeHoldsNothing ==
  ASSUME TypeInv, OneHolder, NEW o \in Obj, obj[o] = "free"
  PROVE  ptr[o] = NULL
BY DEF TypeInv, TypeOK, OneHolder

LEMMA RegisterHolder ==
  ASSUME TypeInv, OneHolder, NEW v \in VM, NEW c \in HostCtx, Register(v, c)
  PROVE  OneHolder'
<1>1. CASE UNCHANGED heapVars
  BY <1>1, KeptHolder DEF heapVars
<1>2. CASE LoggerReplaced(v, c)
  <2>1. PICK o \in Obj, x \in Handle :
          /\ obj[o] = "free" /\ h[x].st = "free"
          /\ obj' = [p \in Obj |-> IF p = o THEN "live"
                                   ELSE IF p = logger[v] THEN "garbage" ELSE obj[p]]
          /\ ptr' = [ptr EXCEPT ![o] = x]
          /\ h' = [h EXCEPT ![x] = OpenHandle(c)]
    BY <1>2 DEF LoggerReplaced, HasLoggerSlot
  <2>2. obj'[o] # "free" /\ \A p \in Obj : obj[p] # "free" => obj'[p] # "free"
    BY <2>1 DEF TypeInv, TypeOK
  <2>3. ptr[o] = NULL
    BY <2>1, FreeHoldsNothing
  <2>4. QED
    BY <2>1, <2>2, <2>3, TakenHolder
<1>3. CASE LoggerConnectFails(v, c)
  <2>1. PICK o \in Obj, x \in Handle :
          /\ obj[o] = "free" /\ h[x].st = "free"
          /\ obj' = [obj EXCEPT ![o] = "garbage"]
          /\ ptr' = [ptr EXCEPT ![o] = x]
          /\ h' = [h EXCEPT ![x] = OpenHandle(c)]
    BY <1>3 DEF LoggerConnectFails, HasLoggerSlot
  <2>2. obj'[o] # "free" /\ \A p \in Obj : obj[p] # "free" => obj'[p] # "free"
    BY <2>1 DEF TypeInv, TypeOK
  <2>3. ptr[o] = NULL
    BY <2>1, FreeHoldsNothing
  <2>4. QED
    BY <2>1, <2>2, <2>3, TakenHolder
<1>4. QED
  BY <1>1, <1>2, <1>3 DEF Register, NewLogger, LoggerSocketFails

(* OneHolder is inductive relative to TypeInv.                             *)
LEMMA HolderStep == TypeInv /\ OneHolder /\ [Next]_vars => OneHolder'
<1> SUFFICES ASSUME TypeInv, OneHolder, [Next]_vars PROVE OneHolder'
  OBVIOUS
<1> USE DEF TypeInv, TypeOK, vmVars, heapVars, histVars
<1>1. ASSUME NEW v \in VM, GemInit(v) PROVE OneHolder'
  <2>1. CASE UNCHANGED heapVars
    BY <2>1, KeptHolder DEF heapVars
  <2>2. ASSUME NEW o \in Obj, NEW x \in Handle, HasLoggerSlot(o, x, v),
               obj' = [obj EXCEPT ![o] = "live"],
               ptr' = [ptr EXCEPT ![o] = x], h' = [h EXCEPT ![x] = OpenHandle(v)]
        PROVE  OneHolder'
    BY <2>2, TakenHolder, FreeHoldsNothing DEF HasLoggerSlot
  <2>3. QED
    BY <1>1, <2>1, <2>2 DEF GemInit, FirstLogger
<1>2. ASSUME NEW v \in VM, GemFinal(v) PROVE OneHolder'
  BY <1>2, ShutdownHolder, KeptHolder DEF GemFinal, heapVars
<1>3. ASSUME NEW v \in VM, DestroyHeap(v) PROVE OneHolder'
  <2> DEFINE mine == {o \in Obj : HeapOf[o] = v}
  <2>1. ASSUME NEW o \in Obj, ptr'[o] # NULL
        PROVE  o \notin mine /\ ptr'[o] = ptr[o] /\ obj'[o] = obj[o]
    BY <1>3, <2>1 DEF DestroyHeap
  <2>2. ASSUME NEW x \in Handle, h'[x].st = "open"
        PROVE  h[x].st = "open" /\ \A o \in mine : ptr[o] # x
    BY <1>3, <2>2, ClosedIsNotOpen DEF DestroyHeap
  <2>3. ASSUME NEW o \in Obj, ptr'[o] # NULL PROVE h'[ptr[o]] = h[ptr[o]]
    <3>1. ptr[o] \in Handle /\ \A p \in mine : ptr[p] # ptr[o]
      BY <2>1, <2>3 DEF OneHolder
    <3>2. QED
      BY <1>3, <3>1 DEF DestroyHeap
  <2>4. ASSUME NEW x \in Handle, h'[x].st = "open" PROVE \E o \in Obj : ptr'[o] = x
    <3>1. PICK o \in Obj : ptr[o] = x
      BY <2>2, <2>4 DEF OneHolder
    <3>2. QED
      BY <1>3, <2>2, <2>4, <3>1 DEF DestroyHeap
  <2>5. QED
    BY <2>1, <2>3, <2>4 DEF OneHolder
<1>4. ASSUME NEW v \in VM, DirectTerm(v) PROVE OneHolder'
  BY <1>4, ShutdownHolder DEF DirectTerm
<1>5. ASSUME NEW v \in VM, SocketNewDangling(v) PROVE OneHolder'
  BY <1>5, KeptHolder DEF SocketNewDangling
<1>6. ASSUME NEW v \in VM, CtxTermReturns(v) PROVE OneHolder'
  BY <1>6, RegisterHolder, KeptHolder DEF CtxTermReturns, Resume, Registered, heapVars
<1>7. ASSUME NEW v \in VM, CtxTermInterrupted(v) PROVE OneHolder'
  BY <1>7, RegisterHolder, KeptHolder DEF CtxTermInterrupted, Resume, Registered, heapVars
<1>8. ASSUME NEW v \in VM, GcMark(v) PROVE OneHolder'
  BY <1>8, KeptHolder DEF GcMark
<1>9. ASSUME NEW v \in VM, GcToggle(v) PROVE OneHolder'
  BY <1>9, KeptHolder DEF GcToggle
<1>10. ASSUME NEW v \in VM, NEW c \in HostCtx, SetContext(v, c) PROVE OneHolder'
  BY <1>10, ShutdownHolder, RegisterHolder DEF SetContext
<1>11. ASSUME NEW o \in Obj, NEW x \in Handle, SocketNew(o, x) PROVE OneHolder'
  BY <1>11, TakenHolder DEF SocketNew
<1>12. ASSUME NEW o \in Obj, NEW l \in Linger, LingerSet(o, l) PROVE OneHolder'
  BY <1>12, KeptHolder DEF LingerSet, Usable, Socket, OneHolder
<1>13. ASSUME NEW o \in Obj, Send(o) PROVE OneHolder'
  BY <1>13, KeptHolder DEF Send, Usable, Socket, OneHolder
<1>14. ASSUME NEW o \in Obj, Close(o) PROVE OneHolder'
  BY <1>14, GivenHolder, ClosedIsNotOpen DEF Close, Usable
<1>15. ASSUME NEW o \in Obj, CloseMark(o) PROVE OneHolder'
  BY <1>15, GivenHolder, ClosedIsNotOpen DEF CloseMark, Usable
<1>16. ASSUME NEW o \in Obj, Drop(o) PROVE OneHolder'
  BY <1>16, KeptHolder DEF Drop
<1>17. ASSUME NEW o \in Obj, GcSweep(o) PROVE OneHolder'
  <2>1. CASE ptr[o] = NULL
    BY <1>17, <2>1, ConstantsAssumption DEF GcSweep, OneHolder
  <2>2. CASE ptr[o] # NULL
    <3>1. /\ h' = [h EXCEPT ![ptr[o]] = GcClosed(ptr[o])]
          /\ ptr' = [ptr EXCEPT ![o] = NULL]
          /\ \A p \in Obj : p # o => obj'[p] = obj[p]
      BY <1>17, <2>2 DEF GcSweep
    <3>2. GcClosed(ptr[o]).st # "open"
      BY ClosedIsNotOpen
    <3> HIDE DEF TypeInv, TypeOK, vmVars, heapVars, histVars
    <3>3. QED
      BY <2>2, <3>1, <3>2, GivenHolder
  <2>3. QED
    BY <2>1, <2>2
<1>18. ASSUME NEW c \in HostCtx, HostCtxNew(c) PROVE OneHolder'
  BY <1>18, KeptHolder DEF HostCtxNew
<1>19. ASSUME NEW c \in HostCtx, HostCtxTerm(c) PROVE OneHolder'
  BY <1>19, KeptHolder DEF HostCtxTerm
<1>20. ASSUME NEW c \in HostCtx, HostCtxTermReturns(c) PROVE OneHolder'
  BY <1>20, KeptHolder DEF HostCtxTermReturns
<1>21. ASSUME NEW x \in Handle, Deliver(x) PROVE OneHolder'
  BY <1>21, KeptHolder DEF Deliver, InUse, Socket, NoHandle
<1>22. ASSUME NEW x \in Handle, LingerExpires(x) PROVE OneHolder'
  BY <1>22, KeptHolder DEF LingerExpires, NoHandle, Socket
<1>23. CASE UNCHANGED vars
  BY <1>23, KeptHolder DEF vars
<1>24. QED
  BY <1>1, <1>2, <1>3, <1>4, <1>5, <1>6, <1>7, <1>8, <1>9, <1>10, <1>11, <1>12,
     <1>13, <1>14, <1>15, <1>16, <1>17, <1>18, <1>19, <1>20, <1>21, <1>22, <1>23
     DEF Next, VmStep, ObjStep, HostStep

LEMMA HolderInvariant == Spec => [](TypeInv /\ OneHolder)
BY TypeInit, TypeStep, HolderInit, HolderStep, PTL DEF Spec

(* No native socket is leaked, closed twice or used after it was closed.   *)
THEOREM SocketsHaveOneHolder == Spec => []OneHolder
BY HolderInvariant, PTL

-----------------------------------------------------------------------------
(* The promise: ZmqContext implements ZmqSession.                          *)

Modes == [v \in VM |-> Mode(v)]
Holds == [v \in VM |-> HeldBy(v)]

(* A step of v changes no pointer but its own: it points an object without *)
(* a socket at one that was free, if it points any, ...                    *)
TakesOf(v) ==
  \/ UNCHANGED ptr
  \/ \E o \in Obj, x \in Handle :
       /\ HeapOf[o] = v /\ (ptr[o] = NULL \/ obj[o] = "free")
       /\ h[x].st = "free"
       /\ ptr' = [ptr EXCEPT ![o] = x]

(* ... or it clears some.                                                  *)
ClearsOf(v) ==
  \A o \in Obj : ptr'[o] # ptr[o] => HeapOf[o] = v /\ ptr'[o] = NULL

PhaseOf(v) ==
  \A w \in VM : w # v => pc'[w] = pc[w] /\ foreign'[w] = foreign[w]

(* What such steps are in the terms of ZmqSession.                         *)
LEMMA StepOf ==
  ASSUME TypeInv, OneHolder, NEW v \in VM, TakesOf(v) \/ ClearsOf(v), PhaseOf(v)
  PROVE  /\ Modes' = [Modes EXCEPT ![v] = Mode(v)']
         /\ Holds' = [Holds EXCEPT ![v] = HeldBy(v)']
         /\ TakesOf(v) => \/ Holds' = Holds
                          \/ \E x \in Session!Fresh :
                               HeldBy(v)' = HeldBy(v) \cup {x}
         /\ ClearsOf(v) => HeldBy(v)' \in SUBSET HeldBy(v)
<1> USE ConstantsAssumption
<1>0. ASSUME NEW o \in Obj, ptr'[o] # ptr[o] PROVE HeapOf[o] = v
  BY <1>0 DEF TakesOf, ClearsOf, TypeInv, TypeOK
<1>1. ASSUME NEW w \in VM, w # v PROVE Mode(w)' = Mode(w) /\ HeldBy(w)' = HeldBy(w)
  <2>1. Mode(w)' = Mode(w)
    BY <1>1 DEF PhaseOf, Mode
  <2>2. \A o \in Obj : HeapOf[o] = w => ptr'[o] = ptr[o]
    BY <1>0, <1>1
  <2>3. QED
    BY <2>1, <2>2 DEF HeldBy
<1>2. ASSUME NEW x \in Handle, h[x].st = "free" PROVE x \in Session!Fresh
  <2>1. \A w \in VM : x \notin HeldBy(w)
    BY <1>2 DEF HeldBy, OneHolder
  <2>2. QED
    BY <2>1 DEF Session!Fresh
<1>3. ASSUME TakesOf(v)
      PROVE  \/ Holds' = Holds
             \/ \E x \in Session!Fresh : HeldBy(v)' = HeldBy(v) \cup {x}
  <2>1. CASE UNCHANGED ptr
    BY <2>1 DEF Holds, HeldBy
  <2>2. ASSUME NEW o \in Obj, NEW x \in Handle, HeapOf[o] = v,
               ptr[o] = NULL \/ obj[o] = "free", h[x].st = "free",
               ptr' = [ptr EXCEPT ![o] = x]
        PROVE  \E y \in Session!Fresh : HeldBy(v)' = HeldBy(v) \cup {y}
    <3>1. ptr[o] = NULL
      BY <2>2 DEF OneHolder
    <3>2. HeldBy(v)' = HeldBy(v) \cup {x}
      BY <2>2, <3>1 DEF HeldBy, TypeInv, TypeOK
    <3>3. QED
      BY <1>2, <2>2, <3>2
  <2>3. QED
    BY <1>3, <2>1, <2>2 DEF TakesOf
<1>4. ASSUME ClearsOf(v), NEW x \in HeldBy(v)' PROVE x \in HeldBy(v)
  BY <1>4 DEF HeldBy, ClearsOf
<1>5. QED
  BY <1>1, <1>3, <1>4 DEF Modes, Holds

LEMMA ShutdownClears ==
  ASSUME TypeInv, NEW v \in VM, ShutdownAndClose(v)
  PROVE  ClearsOf(v)
BY DEF TypeInv, TypeOK, ShutdownAndClose, ClearsOf

LEMMA RegisterTakes ==
  ASSUME TypeInv, NEW v \in VM, NEW c \in HostCtx, Register(v, c)
  PROVE  TakesOf(v) /\ PhaseOf(v) /\ pc'[v] = "run" /\ foreign'[v]
<1> USE DEF TypeInv, TypeOK
<1>1. TakesOf(v)
  BY DEF Register, NewLogger, LoggerReplaced, LoggerConnectFails,
         LoggerSocketFails, HasLoggerSlot, TakesOf, heapVars
<1>2. QED
  BY <1>1 DEF Register, PhaseOf

(* Every step of a VM is a step of its session or leaves it as it is.      *)
SessionStep == Session!Next \/ (Modes' = Modes /\ Holds' = Holds)

LEMMA Working ==
  ASSUME TypeInv, OneHolder, NEW v \in VM, TakesOf(v) \/ ClearsOf(v), PhaseOf(v),
         Mode(v) \in {"own", "host"}, Mode(v)' = Mode(v)
  PROVE  SessionStep
<1>1. Modes' = Modes
  BY StepOf DEF Modes
<1>2. CASE TakesOf(v)
  <2>1. CASE Holds' = Holds
    BY <1>1, <2>1 DEF SessionStep
  <2>2. CASE Holds' # Holds
    <3>1. Session!NewSocket(v)
      BY <1>1, <1>2, <2>2, StepOf DEF Session!NewSocket, Session!Take, Modes, Holds
    <3>2. QED
      BY <3>1 DEF SessionStep, Session!Next, Session!Step
  <2>3. QED
    BY <2>1, <2>2
<1>3. CASE ClearsOf(v)
  <2>1. Session!CloseSockets(v)
    BY <1>1, <1>3, StepOf DEF Session!CloseSockets, Session!Give, Modes, Holds
  <2>2. QED
    BY <2>1 DEF SessionStep, Session!Next, Session!Step
<1>4. QED
  BY <1>2, <1>3

LEMMA Standing ==
  ASSUME UNCHANGED <<pc, foreign, ptr>>
  PROVE  SessionStep
BY DEF SessionStep, Modes, Holds, Mode, HeldBy

(* zmq_ctx_term came back: the swap ends, or nothing changes for ZmqSession. *)
LEMMA Resuming ==
  ASSUME TypeInv, OneHolder, NEW v \in VM, pc[v] \in {"swap", "direct", "final"},
         Resume(v)
  PROVE  SessionStep
<1> USE DEF TypeInv, TypeOK
<1>1. CASE pc[v] = "swap"
  <2>1. Register(v, target[v]) /\ target[v] \in HostCtx
    BY <1>1 DEF Resume, Registered
  <2>2. TakesOf(v) /\ PhaseOf(v) /\ Mode(v)' = "host"
    BY <2>1, RegisterTakes DEF Mode
  <2>3. Mode(v) = "moving"
    BY <1>1 DEF Mode
  <2>4. Session!EndMove(v)
    <3>1. /\ Holds' = [Holds EXCEPT ![v] = HeldBy(v)']
          /\ \/ Holds' = Holds
             \/ \E x \in Session!Fresh : HeldBy(v)' = HeldBy(v) \cup {x}
      BY <2>2, StepOf
    <3>2. Session!TakeForLogger(v)
      BY <3>1 DEF Session!TakeForLogger, Session!Take, Holds
    <3>3. QED
      BY <2>2, <2>3, <3>2, StepOf DEF Session!EndMove, Session!Become, Modes
  <2>5. QED
    BY <2>4 DEF SessionStep, Session!Next, Session!Step
<1>2. CASE pc[v] \in {"direct", "final"}
  <2>1. UNCHANGED <<foreign, ptr>>
    BY <1>2 DEF Resume, heapVars
  <2>2. \A w \in VM : Mode(w)' = Mode(w)
    BY <1>2, <2>1 DEF Resume, Mode
  <2>3. QED
    BY <2>1, <2>2 DEF SessionStep, Modes, Holds, HeldBy
<1>3. QED
  BY <1>1, <1>2

LEMMA SessionSteps == TypeInv /\ OneHolder /\ [Next]_vars => SessionStep
<1> SUFFICES ASSUME TypeInv, OneHolder, [Next]_vars PROVE SessionStep
  OBVIOUS
<1> USE DEF TypeInv, TypeOK, vmVars, heapVars, histVars
<1>1. ASSUME NEW v \in VM, GemInit(v) PROVE SessionStep
  <2>1. TakesOf(v) /\ PhaseOf(v)
    BY <1>1 DEF GemInit, FirstLogger, HasLoggerSlot, TakesOf, PhaseOf
  <2>2. Mode(v) = "new" /\ Mode(v)' = "own"
    BY <1>1 DEF GemInit, FirstLogger, Mode, Registered
  <2>3. Session!Open(v)
    BY <2>1, <2>2, StepOf
       DEF Session!Open, Session!Become, Session!TakeForLogger, Session!Take,
           Modes, Holds
  <2>4. QED
    BY <2>3 DEF SessionStep, Session!Next, Session!Step
<1>2. ASSUME NEW v \in VM, GemFinal(v) PROVE SessionStep
  <2>1. ClearsOf(v) /\ PhaseOf(v)
    BY <1>2, ShutdownClears DEF GemFinal, ClearsOf, PhaseOf
  <2>2. Mode(v) \in {"own", "host"} /\ Mode(v)' = "leaving"
    BY <1>2 DEF GemFinal, Mode
  <2>3. Session!BeginLeave(v)
    BY <2>1, <2>2, StepOf
       DEF Session!BeginLeave, Session!Become, Session!Give, Modes, Holds
  <2>4. QED
    BY <2>3 DEF SessionStep, Session!Next, Session!Step
<1>3. ASSUME NEW v \in VM, DestroyHeap(v) PROVE SessionStep
  <2>1. ClearsOf(v) /\ PhaseOf(v)
    BY <1>3 DEF DestroyHeap, ClearsOf, PhaseOf
  <2>2. Mode(v) = "leaving" /\ Mode(v)' = "gone"
    BY <1>3 DEF DestroyHeap, Mode
  <2>3. HeldBy(v)' = {}
    BY <1>3, ConstantsAssumption DEF DestroyHeap, HeldBy
  <2>4. Session!EndLeave(v)
    BY <2>1, <2>2, <2>3, StepOf DEF Session!EndLeave, Session!Become, Modes, Holds
  <2>5. QED
    BY <2>4 DEF SessionStep, Session!Next, Session!Step
<1>4. ASSUME NEW v \in VM, DirectTerm(v) PROVE SessionStep
  <2>1. ClearsOf(v) /\ PhaseOf(v)
    BY <1>4, ShutdownClears DEF DirectTerm, PhaseOf
  <2>2. Mode(v) \in {"own", "host"} /\ Mode(v)' = Mode(v)
    BY <1>4 DEF DirectTerm, Mode
  <2>3. QED
    BY <2>1, <2>2, Working
<1>5. ASSUME NEW v \in VM, SocketNewDangling(v) PROVE SessionStep
  BY <1>5, Standing DEF SocketNewDangling
<1>6. ASSUME NEW v \in VM, CtxTermReturns(v) PROVE SessionStep
  BY <1>6, Resuming DEF CtxTermReturns
<1>7. ASSUME NEW v \in VM, CtxTermInterrupted(v) PROVE SessionStep
  BY <1>7, Resuming DEF CtxTermInterrupted
<1>8. ASSUME NEW v \in VM, GcMark(v) PROVE SessionStep
  BY <1>8, Standing DEF GcMark
<1>9. ASSUME NEW v \in VM, GcToggle(v) PROVE SessionStep
  BY <1>9, Standing DEF GcToggle
<1>10. ASSUME NEW v \in VM, NEW c \in HostCtx, SetContext(v, c) PROVE SessionStep
  <2>1. CASE foreign[v]
    <3>1. Register(v, c)
      BY <1>10, <2>1 DEF SetContext
    <3>2. Mode(v) = "host" /\ Mode(v)' = "host"
      BY <1>10, <2>1, <3>1, RegisterTakes DEF SetContext, Mode
    <3>3. QED
      BY <3>1, <3>2, RegisterTakes, Working
  <2>2. CASE ~foreign[v]
    <3>1. ClearsOf(v) /\ PhaseOf(v)
      BY <1>10, <2>2, ShutdownClears DEF SetContext, PhaseOf
    <3>2. Mode(v) = "own" /\ Mode(v)' = "moving"
      BY <1>10, <2>2 DEF SetContext, Mode
    <3>3. Session!BeginMove(v)
      BY <3>1, <3>2, StepOf
         DEF Session!BeginMove, Session!Become, Session!Give, Modes, Holds
    <3>4. QED
      BY <3>3 DEF SessionStep, Session!Next, Session!Step
  <2>3. QED
    BY <2>1, <2>2
<1>11. ASSUME NEW o \in Obj, NEW x \in Handle, SocketNew(o, x) PROVE SessionStep
  <2>1. TakesOf(HeapOf[o]) /\ PhaseOf(HeapOf[o]) /\ HeapOf[o] \in VM
    BY <1>11, ConstantsAssumption DEF SocketNew, TakesOf, PhaseOf
  <2>2. Mode(HeapOf[o]) \in {"own", "host"} /\ Mode(HeapOf[o])' = Mode(HeapOf[o])
    BY <1>11, <2>1 DEF SocketNew, Running, Usable, Mode
  <2>3. QED
    BY <2>1, <2>2, Working
<1>12. ASSUME NEW o \in Obj, NEW l \in Linger, LingerSet(o, l) PROVE SessionStep
  BY <1>12, Standing DEF LingerSet
<1>13. ASSUME NEW o \in Obj, Send(o) PROVE SessionStep
  BY <1>13, Standing DEF Send
<1>14. ASSUME NEW o \in Obj, Close(o) PROVE SessionStep
  <2>1. ClearsOf(HeapOf[o]) /\ PhaseOf(HeapOf[o]) /\ HeapOf[o] \in VM
    BY <1>14, ConstantsAssumption DEF Close, ClearsOf, PhaseOf
  <2>2. Mode(HeapOf[o]) \in {"own", "host"} /\ Mode(HeapOf[o])' = Mode(HeapOf[o])
    BY <1>14, <2>1 DEF Close, Running, Usable, Mode
  <2>3. QED
    BY <2>1, <2>2, Working
<1>15. ASSUME NEW o \in Obj, CloseMark(o) PROVE SessionStep
  <2>1. ClearsOf(HeapOf[o]) /\ PhaseOf(HeapOf[o]) /\ HeapOf[o] \in VM
    BY <1>15, ConstantsAssumption DEF CloseMark, ClearsOf, PhaseOf
  <2>2. Mode(HeapOf[o]) \in {"own", "host"} /\ Mode(HeapOf[o])' = Mode(HeapOf[o])
    BY <1>15, <2>1 DEF CloseMark, Running, Usable, Mode
  <2>3. QED
    BY <2>1, <2>2, Working
<1>16. ASSUME NEW o \in Obj, Drop(o) PROVE SessionStep
  BY <1>16, Standing DEF Drop
<1>17. ASSUME NEW o \in Obj, GcSweep(o) PROVE SessionStep
  <2>1. ClearsOf(HeapOf[o]) /\ PhaseOf(HeapOf[o]) /\ HeapOf[o] \in VM
    BY <1>17, ConstantsAssumption DEF GcSweep, ClearsOf, PhaseOf
  <2>2. Mode(HeapOf[o]) \in {"own", "host"} /\ Mode(HeapOf[o])' = Mode(HeapOf[o])
    BY <1>17, <2>1 DEF GcSweep, Running, Usable, Mode
  <2>3. QED
    BY <2>1, <2>2, Working
<1>18. ASSUME NEW c \in HostCtx, HostCtxNew(c) PROVE SessionStep
  BY <1>18, Standing DEF HostCtxNew
<1>19. ASSUME NEW c \in HostCtx, HostCtxTerm(c) PROVE SessionStep
  BY <1>19, Standing DEF HostCtxTerm
<1>20. ASSUME NEW c \in HostCtx, HostCtxTermReturns(c) PROVE SessionStep
  BY <1>20, Standing DEF HostCtxTermReturns
<1>21. ASSUME NEW x \in Handle, Deliver(x) PROVE SessionStep
  BY <1>21, Standing DEF Deliver
<1>22. ASSUME NEW x \in Handle, LingerExpires(x) PROVE SessionStep
  BY <1>22, Standing DEF LingerExpires
<1>23. CASE UNCHANGED vars
  BY <1>23, Standing DEF vars
<1>24. QED
  BY <1>1, <1>2, <1>3, <1>4, <1>5, <1>6, <1>7, <1>8, <1>9, <1>10, <1>11, <1>12,
     <1>13, <1>14, <1>15, <1>16, <1>17, <1>18, <1>19, <1>20, <1>21, <1>22, <1>23
     DEF Next, VmStep, ObjStep, HostStep

LEMMA SessionInit == Init => Session!Init
BY ConstantsAssumption DEF Init, Session!Init, Mode, HeldBy

(* mrb_states share no native socket, make none while they swap or close,  *)
(* and mrb_close leaves none behind.                                       *)
THEOREM ImplementsSession == Spec => KeepsSession
<1>1. TypeInv /\ OneHolder /\ [Next]_vars => [Session!Next]_(Session!vars)
  BY SessionSteps DEF SessionStep, Session!vars, Modes, Holds
<1>2. QED
  BY <1>1, SessionInit, HolderInvariant, PTL DEF Spec, KeepsSession, Session!Spec

-----------------------------------------------------------------------------
(* What a swap leaves behind.                                              *)

(* A native socket stays on its context as long as its object holds it.    *)
LEMMA CtxKept ==
  ASSUME TypeInv, OneHolder, [Next]_vars,
         NEW o \in Obj, ptr[o] # NULL, ptr'[o] = ptr[o]
  PROVE  h'[ptr[o]].ctx = h[ptr[o]].ctx
<1> DEFINE Kept == h'[ptr[o]].ctx = h[ptr[o]].ctx
<1> USE DEF TypeInv, TypeOK, vmVars, heapVars, histVars
<1>0. /\ ptr[o] \in Handle /\ h[ptr[o]].st = "open"
      /\ \A p \in Obj : p # o => ptr[p] # ptr[o]
  BY DEF OneHolder
<1>1. ASSUME UNCHANGED h PROVE Kept
  BY <1>1
<1>2. ASSUME NEW x \in Handle, h[x].st = "free", NEW r, h' = [h EXCEPT ![x] = r]
      PROVE  Kept
  BY <1>0, <1>2
<1>3. ASSUME NEW v \in VM, ShutdownAndClose(v) PROVE Kept
  <2> DEFINE mine == {p \in Obj : HeapOf[p] = v}
  <2>1. CASE o \in mine
    <3>1. Skipped(o)
      BY <1>3, <2>1, ConstantsAssumption DEF ShutdownAndClose
    <3>2. (CHOOSE p \in mine : ptr[p] = ptr[o]) = o
      BY <1>0, <2>1
    <3>3. h'[ptr[o]] = ClosedAtShutdown(o, ptr[o])
      BY <1>0, <1>3, <2>1, <3>2 DEF ShutdownAndClose
    <3>4. QED
      BY <3>1, <3>3 DEF ClosedAtShutdown, Skipped, Collected
  <2>2. CASE o \notin mine
    <3>1. \A p \in mine : ptr[p] # ptr[o]
      BY <1>0, <2>2
    <3>2. QED
      BY <1>0, <1>3, <3>1 DEF ShutdownAndClose
  <2>3. QED
    BY <2>1, <2>2
<1>4. ASSUME NEW v \in VM, NEW c \in HostCtx, Register(v, c) PROVE Kept
  BY <1>1, <1>2, <1>4 DEF Register, NewLogger, LoggerReplaced, LoggerConnectFails,
     LoggerSocketFails, HasLoggerSlot
<1>5. ASSUME NEW v \in VM, Resume(v), pc[v] \in {"swap", "direct", "final"}
      PROVE  Kept
  BY <1>1, <1>4, <1>5 DEF Resume, Registered
<1>6. ASSUME NEW v \in VM, VmStep(v) PROVE Kept
  <2>1. CASE GemInit(v)
    BY <1>1, <1>2, <2>1 DEF GemInit, FirstLogger, HasLoggerSlot
  <2>2. CASE GemFinal(v)
    BY <1>1, <1>3, <2>2 DEF GemFinal
  <2>3. CASE DestroyHeap(v)
    <3>1. \A p \in Obj : HeapOf[p] = v => ptr[p] # ptr[o]
      BY <1>0, <2>3 DEF DestroyHeap
    <3>2. QED
      BY <1>0, <2>3, <3>1 DEF DestroyHeap
  <2>4. CASE DirectTerm(v)
    BY <1>3, <2>4 DEF DirectTerm
  <2>5. CASE CtxTermReturns(v) \/ CtxTermInterrupted(v)
    BY <1>5, <2>5 DEF CtxTermReturns, CtxTermInterrupted
  <2>6. CASE SocketNewDangling(v) \/ GcMark(v) \/ GcToggle(v)
    BY <1>1, <2>6 DEF SocketNewDangling, GcMark, GcToggle
  <2>7. ASSUME NEW c \in HostCtx, SetContext(v, c) PROVE Kept
    BY <1>3, <1>4, <2>7 DEF SetContext
  <2>8. QED
    BY <1>6, <2>1, <2>2, <2>3, <2>4, <2>5, <2>6, <2>7 DEF VmStep
<1>7. ASSUME NEW p \in Obj, ObjStep(p) PROVE Kept
  <2>1. ASSUME NEW x \in Handle, SocketNew(p, x) PROVE Kept
    BY <1>2, <2>1 DEF SocketNew
  <2>2. ASSUME Send(p) \/ \E l \in Linger : LingerSet(p, l) PROVE Kept
    BY <1>0, <2>2 DEF Send, LingerSet, Usable, Socket
  <2>3. ASSUME Close(p) \/ CloseMark(p) PROVE Kept
    BY <1>0, <2>3 DEF Close, CloseMark, Usable
  <2>4. ASSUME Drop(p) PROVE Kept
    BY <1>1, <2>4 DEF Drop
  <2>5. ASSUME GcSweep(p) PROVE Kept
    <3>1. p # o
      BY <2>5 DEF GcSweep
    <3>2. QED
      BY <1>0, <2>5, <3>1 DEF GcSweep
  <2>6. QED
    BY <1>7, <2>1, <2>2, <2>3, <2>4, <2>5 DEF ObjStep
<1>8. ASSUME NEW c \in HostCtx, HostStep(c) PROVE Kept
  BY <1>1, <1>8 DEF HostStep, HostCtxNew, HostCtxTerm, HostCtxTermReturns
<1>9. ASSUME NEW x \in Handle, Deliver(x) \/ LingerExpires(x) PROVE Kept
  BY <1>0, <1>9 DEF Deliver, LingerExpires, Socket
<1>10. CASE UNCHANGED vars
  BY <1>1, <1>10 DEF vars
<1>11. QED
  BY <1>6, <1>7, <1>8, <1>9, <1>10 DEF Next

(* ZMQ.logger is never collected, and belongs to its own VM.               *)
LoggerLives ==
  \A v \in VM : logger[v] # NULL => obj[logger[v]] = "live" /\ HeapOf[logger[v]] = v

(* NoSocketLeftBehind as it is preserved: during the swap only dead        *)
(* objects hold sockets, so that none is left when the flag is set.        *)
Clean(o) ==
  ptr[o] # NULL /\ obj[o] # "dead"
    => /\ pc[HeapOf[o]] # "swap"
       /\ foreign[HeapOf[o]] => h[ptr[o]].ctx # HeapOf[o]

SwapInv == LoggerLives /\ \A o \in Obj : Clean(o)

LEMMA SwapInit == Init => SwapInv
BY DEF Init, SwapInv, LoggerLives, Clean

(* An object the step leaves alone, in a VM that does not begin or end its *)
(* swap, stays clean.                                                      *)
Alone(o) ==
  /\ ptr'[o] = NULL \/ ptr'[o] = ptr[o]
  /\ ptr'[o] # NULL /\ obj[o] = "dead" => obj'[o] = "dead"
  /\ pc'[HeapOf[o]] = "swap" => pc[HeapOf[o]] = "swap"
  /\ foreign'[HeapOf[o]] => foreign[HeapOf[o]]

LEMMA AloneClean ==
  ASSUME TypeInv, OneHolder, [Next]_vars, NEW o \in Obj, Clean(o), Alone(o)
  PROVE  Clean(o)'
<1>1. CASE ptr'[o] = NULL
  BY <1>1 DEF Clean
<1>2. CASE ptr'[o] # NULL
  <2>1. ptr'[o] = ptr[o] /\ ptr[o] # NULL
    BY <1>2 DEF Alone
  <2>2. h'[ptr'[o]].ctx = h[ptr[o]].ctx
    BY <2>1, CtxKept
  <2>3. QED
    BY <2>1, <2>2 DEF Alone, Clean
<1>3. QED
  BY <1>1, <1>2

(* What the shutdown routine leaves in the heap of v is dead.              *)
LEMMA ShutdownLeaves ==
  ASSUME TypeInv, NEW v \in VM, ShutdownAndClose(v), NEW o \in Obj
  PROVE  /\ HeapOf[o] = v => ptr'[o] = NULL \/ obj'[o] = "dead"
         /\ ptr'[o] = NULL \/ (ptr'[o] = ptr[o] /\ obj'[o] = obj[o])
         /\ obj[o] = "live" => obj'[o] = "live"
BY DEF TypeInv, TypeOK, ShutdownAndClose, Skipped, Collected

(* A new socket on a context of the host is no socket of the gem's own.    *)
LEMMA TakenClean ==
  ASSUME TypeInv, NEW o \in Obj, NEW x \in Handle, NEW c \in Ctx,
         ptr' = [ptr EXCEPT ![o] = x], h' = [h EXCEPT ![x] = OpenHandle(c)],
         pc'[HeapOf[o]] # "swap", foreign'[HeapOf[o]] => c \in HostCtx
  PROVE  Clean(o)'
<1>1. h'[ptr'[o]].ctx = c
  BY DEF TypeInv, TypeOK, OpenHandle, Socket
<1>2. HeapOf[o] \in VM /\ HeapOf' = HeapOf
  BY ConstantsAssumption
<1>3. QED
  BY <1>1, <1>2, ConstantsAssumption DEF Clean

LEMMA RegisterClean ==
  ASSUME TypeInv, OneHolder, SwapInv, [Next]_vars, NEW v \in VM, NEW c \in HostCtx,
         Register(v, c), pc[v] = "swap" \/ (foreign[v] /\ pc[v] = "run")
  PROVE  SwapInv'
<1> USE ConstantsAssumption DEF TypeInv, TypeOK, heapVars
<1>1. ASSUME NEW o \in Obj,
             ptr'[o] = ptr[o], obj[o] = "dead" => obj'[o] = "dead"
      PROVE  Clean(o)'
  <2>1. CASE HeapOf[o] = v /\ pc[v] = "swap"
    BY <1>1, <2>1 DEF SwapInv, Clean
  <2>2. CASE HeapOf[o] # v \/ foreign[v]
    <3>1. Alone(o)
      BY <1>1, <2>2 DEF Alone, Register
    <3>2. QED
      BY <3>1, AloneClean DEF SwapInv
  <2>3. QED
    BY <2>1, <2>2
<1>2. pc'[v] = "run"
  BY DEF Register
<1>3. CASE UNCHANGED <<logger, heapVars>>
  BY <1>1, <1>3 DEF SwapInv, LoggerLives
<1>4. CASE LoggerReplaced(v, c)
  <2>1. PICK o \in Obj, x \in Handle :
          /\ HasLoggerSlot(o, x, v)
          /\ logger' = [logger EXCEPT ![v] = o]
          /\ obj' = [p \in Obj |-> IF p = o THEN "live"
                                   ELSE IF p = logger[v] THEN "garbage" ELSE obj[p]]
          /\ ptr' = [ptr EXCEPT ![o] = x]
          /\ h' = [h EXCEPT ![x] = OpenHandle(c)]
    BY <1>4 DEF LoggerReplaced
  <2>2. Clean(o)'
    BY <1>2, <2>1, TakenClean DEF Ctx, HasLoggerSlot
  <2>3. ASSUME NEW p \in Obj, p # o PROVE Clean(p)'
    <3>1. ptr'[p] = ptr[p] /\ (obj[p] = "dead" => obj'[p] = "dead")
      BY <2>1, <2>3 DEF SwapInv, LoggerLives
    <3>2. QED
      BY <1>1, <3>1
  <2>4. LoggerLives'
    BY <2>1 DEF SwapInv, LoggerLives, HasLoggerSlot
  <2>5. QED
    BY <2>2, <2>3, <2>4 DEF SwapInv
<1>5. CASE LoggerConnectFails(v, c)
  <2>1. PICK o \in Obj, x \in Handle :
          /\ HasLoggerSlot(o, x, v)
          /\ obj' = [obj EXCEPT ![o] = "garbage"]
          /\ ptr' = [ptr EXCEPT ![o] = x]
          /\ h' = [h EXCEPT ![x] = OpenHandle(c)]
    BY <1>5 DEF LoggerConnectFails
  <2>2. Clean(o)'
    BY <1>2, <2>1, TakenClean DEF Ctx, HasLoggerSlot
  <2>3. ASSUME NEW p \in Obj, p # o PROVE Clean(p)'
    BY <1>1, <2>1, <2>3
  <2>4. LoggerLives'
    BY <1>5, <2>1 DEF LoggerConnectFails, SwapInv, LoggerLives, HasLoggerSlot
  <2>5. QED
    BY <2>2, <2>3, <2>4 DEF SwapInv
<1>6. QED
  BY <1>3, <1>4, <1>5 DEF Register, NewLogger, LoggerSocketFails

(* SwapInv is inductive relative to TypeInv and OneHolder.                 *)
LEMMA SwapStep == TypeInv /\ OneHolder /\ SwapInv /\ [Next]_vars => SwapInv'
<1> SUFFICES ASSUME TypeInv, OneHolder, SwapInv, [Next]_vars PROVE SwapInv'
  OBVIOUS
<1> USE ConstantsAssumption DEF TypeInv, TypeOK, vmVars, heapVars, histVars
<1>1. ASSUME \A o \in Obj : Alone(o), LoggerLives' PROVE SwapInv'
  BY <1>1, AloneClean DEF SwapInv
<1>2. ASSUME NEW v \in VM, ShutdownAndClose(v), UNCHANGED <<foreign, logger>>,
             \A w \in VM : w # v => pc'[w] = pc[w]
      PROVE  SwapInv'
  <2>1. LoggerLives'
    BY <1>2, ShutdownLeaves DEF SwapInv, LoggerLives
  <2>2. ASSUME NEW o \in Obj PROVE Clean(o)'
    <3>1. CASE HeapOf[o] = v
      BY <1>2, <3>1, ShutdownLeaves DEF Clean
    <3>2. CASE HeapOf[o] # v
      <4>1. Alone(o)
        BY <1>2, <3>2, ShutdownLeaves DEF Alone
      <4>2. QED
        BY <4>1, AloneClean DEF SwapInv
    <3>3. QED
      BY <3>1, <3>2
  <2>3. QED
    BY <2>1, <2>2 DEF SwapInv
<1>3. ASSUME NEW v \in VM, Resume(v), pc[v] \in {"swap", "direct", "final"}
      PROVE  SwapInv'
  <2>1. CASE pc[v] = "swap"
    BY <1>3, <2>1, RegisterClean DEF Resume, Registered
  <2>2. CASE pc[v] \in {"direct", "final"}
    <3>1. \A o \in Obj : Alone(o)
      BY <1>3, <2>2 DEF Resume, Alone
    <3>2. LoggerLives'
      BY <1>3, <2>2 DEF Resume, SwapInv, LoggerLives
    <3>3. QED
      BY <1>1, <3>1, <3>2
  <2>3. QED
    BY <1>3, <2>1, <2>2
<1>4. ASSUME NEW v \in VM, GemInit(v) PROVE SwapInv'
  <2>1. CASE UNCHANGED <<logger, heapVars>>
    <3>1. \A o \in Obj : Alone(o)
      BY <1>4, <2>1 DEF GemInit, FirstLogger, Alone
    <3>2. QED
      BY <1>1, <2>1, <3>1 DEF SwapInv, LoggerLives
  <2>2. CASE LoggerEndpoint
    <3>1. PICK o \in Obj, x \in Handle :
            /\ HasLoggerSlot(o, x, v)
            /\ logger' = [logger EXCEPT ![v] = o]
            /\ obj' = [obj EXCEPT ![o] = "live"]
            /\ ptr' = [ptr EXCEPT ![o] = x]
            /\ h' = [h EXCEPT ![x] = OpenHandle(v)]
      BY <1>4, <2>2 DEF GemInit, FirstLogger
    <3>2. Clean(o)'
      BY <1>4, <3>1, TakenClean DEF GemInit, FirstLogger, HasLoggerSlot, Registered, Ctx
    <3>3. ASSUME NEW p \in Obj, p # o PROVE Clean(p)'
      <4>1. Alone(p)
        BY <1>4, <3>1, <3>3 DEF GemInit, FirstLogger, Alone
      <4>2. QED
        BY <4>1, AloneClean DEF SwapInv
    <3>4. LoggerLives'
      BY <3>1 DEF SwapInv, LoggerLives, HasLoggerSlot
    <3>5. QED
      BY <3>2, <3>3, <3>4 DEF SwapInv
  <2>3. QED
    BY <1>4, <2>1, <2>2 DEF GemInit, FirstLogger
<1>5. ASSUME NEW v \in VM, GemFinal(v) PROVE SwapInv'
  <2>1. CASE ~foreign[v]
    BY <1>2, <1>5, <2>1 DEF GemFinal
  <2>2. CASE foreign[v]
    <3>1. \A o \in Obj : Alone(o)
      BY <1>5, <2>2 DEF GemFinal, Alone
    <3>2. QED
      BY <1>1, <1>5, <2>2, <3>1 DEF GemFinal, SwapInv, LoggerLives
  <2>3. QED
    BY <2>1, <2>2
<1>6. ASSUME NEW v \in VM, DestroyHeap(v) PROVE SwapInv'
  <2>1. \A o \in Obj : Alone(o)
    BY <1>6 DEF DestroyHeap, Alone
  <2>2. LoggerLives'
    BY <1>6 DEF DestroyHeap, SwapInv, LoggerLives
  <2>3. QED
    BY <1>1, <2>1, <2>2
<1>7. ASSUME NEW v \in VM, DirectTerm(v) PROVE SwapInv'
  BY <1>2, <1>7 DEF DirectTerm
<1>8. ASSUME NEW v \in VM, SocketNewDangling(v) \/ GcToggle(v) PROVE SwapInv'
  <2>1. \A o \in Obj : Alone(o)
    BY <1>8 DEF SocketNewDangling, GcToggle, Alone
  <2>2. QED
    BY <1>1, <1>8, <2>1 DEF SocketNewDangling, GcToggle, SwapInv, LoggerLives
<1>9. ASSUME NEW v \in VM, CtxTermReturns(v) \/ CtxTermInterrupted(v) PROVE SwapInv'
  BY <1>3, <1>9 DEF CtxTermReturns, CtxTermInterrupted
<1>10. ASSUME NEW v \in VM, GcMark(v) PROVE SwapInv'
  <2>1. \A o \in Obj : Alone(o)
    BY <1>10 DEF GcMark, Alone
  <2>2. LoggerLives'
    BY <1>10 DEF GcMark, SwapInv, LoggerLives
  <2>3. QED
    BY <1>1, <2>1, <2>2
<1>11. ASSUME NEW v \in VM, NEW c \in HostCtx, SetContext(v, c) PROVE SwapInv'
  <2>1. CASE ~foreign[v]
    BY <1>2, <1>11, <2>1 DEF SetContext
  <2>2. CASE foreign[v]
    BY <1>11, <2>2, RegisterClean DEF SetContext
  <2>3. QED
    BY <2>1, <2>2
<1>12. ASSUME NEW o \in Obj, NEW x \in Handle, SocketNew(o, x) PROVE SwapInv'
  <2>1. Clean(o)'
    <3>1. reg[HeapOf[o]] \in Ctx /\ (foreign[HeapOf[o]] => reg[HeapOf[o]] \in HostCtx)
      BY DEF Registered
    <3>2. QED
      BY <1>12, <3>1, TakenClean DEF SocketNew, Running
  <2>2. ASSUME NEW p \in Obj, p # o PROVE Clean(p)'
    <3>1. Alone(p)
      BY <1>12, <2>2 DEF SocketNew, Alone
    <3>2. QED
      BY <3>1, AloneClean DEF SwapInv
  <2>3. LoggerLives'
    BY <1>12 DEF SocketNew, SwapInv, LoggerLives
  <2>4. QED
    BY <2>1, <2>2, <2>3 DEF SwapInv
<1>13. ASSUME NEW o \in Obj,
              \/ \E l \in Linger : LingerSet(o, l)
              \/ Send(o) \/ Close(o) \/ CloseMark(o) \/ Drop(o) \/ GcSweep(o)
       PROVE  SwapInv'
  <2>0. /\ UNCHANGED vmVars
        /\ \/ UNCHANGED <<obj, ptr>>
           \/ UNCHANGED obj /\ ptr' = [ptr EXCEPT ![o] = NULL]
           \/ /\ obj[o] = "live" /\ logger[HeapOf[o]] # o
              /\ obj' = [obj EXCEPT ![o] = "garbage"] /\ UNCHANGED ptr
           \/ /\ obj[o] = "dead" /\ obj' = [obj EXCEPT ![o] = "free"]
              /\ ptr' = [ptr EXCEPT ![o] = NULL]
    BY <1>13, Zenon DEF LingerSet, Send, Close, CloseMark, Drop, GcSweep
  <2>1. \A p \in Obj : Alone(p)
    BY <2>0 DEF Alone
  <2>2. LoggerLives'
    <3>1. logger' = logger
      BY <2>0
    <3>2. ASSUME NEW p \in Obj, obj[p] = "live", logger[HeapOf[p]] = p
          PROVE  obj'[p] = "live"
      BY <2>0, <3>2
    <3>3. QED
      BY <3>1, <3>2 DEF SwapInv, LoggerLives
  <2>3. QED
    BY <1>1, <2>1, <2>2
<1>14. ASSUME UNCHANGED <<vmVars, obj, ptr>> PROVE SwapInv'
  <2>1. \A o \in Obj : Alone(o)
    BY <1>14 DEF Alone
  <2>2. QED
    BY <1>1, <1>14, <2>1 DEF SwapInv, LoggerLives
<1>15. ASSUME NEW c \in HostCtx, HostStep(c) PROVE SwapInv'
  BY <1>14, <1>15 DEF HostStep, HostCtxNew, HostCtxTerm, HostCtxTermReturns
<1>16. ASSUME NEW x \in Handle, Deliver(x) \/ LingerExpires(x) PROVE SwapInv'
  BY <1>14, <1>16 DEF Deliver, LingerExpires
<1>17. CASE UNCHANGED vars
  BY <1>14, <1>17 DEF vars
<1>18. QED
  BY <1>4, <1>5, <1>6, <1>7, <1>8, <1>9, <1>10, <1>11, <1>12, <1>13, <1>15, <1>16,
     <1>17 DEF Next, VmStep, ObjStep

LEMMA SwapInvariant == Spec => [](TypeInv /\ OneHolder /\ SwapInv)
BY HolderInvariant, SwapInit, SwapStep, PTL DEF Spec

(* After mrb_zmq_set_context no object the program can reach holds a       *)
(* socket of the gem's own context.                                        *)
THEOREM NothingLeftBehind == Spec => []NoSocketLeftBehind
<1>1. SwapInv => NoSocketLeftBehind
  BY DEF SwapInv, Clean, NoSocketLeftBehind
<1>2. QED
  BY <1>1, SwapInvariant, PTL

-----------------------------------------------------------------------------
(* The logger.                                                             *)
Follows(v) ==
  LoggerEndpoint /\ pc[v] = "run" /\ v \notin raised /\ reg[v] \notin ended
    => /\ logger[v] # NULL /\ ptr[logger[v]] # NULL
       /\ h[ptr[logger[v]]].ctx = reg[v]

(* A VM whose logger and registration the step leaves alone.               *)
LoggerAlone(v) ==
  /\ pc'[v] = "run" => pc[v] = "run"
  /\ reg'[v] = reg[v] /\ logger'[v] = logger[v]
  /\ ended \subseteq ended' /\ (v \in raised => v \in raised')
  /\ pc'[v] = "run" /\ logger[v] # NULL => ptr'[logger[v]] = ptr[logger[v]]

LEMMA LoggerAloneFollows ==
  ASSUME TypeInv, OneHolder, SwapInv, [Next]_vars, NEW v \in VM, Follows(v),
         LoggerAlone(v)
  PROVE  Follows(v)'
<1>1. CASE pc'[v] # "run" \/ logger[v] = NULL \/ ptr[logger[v]] = NULL
  BY <1>1 DEF Follows, LoggerAlone
<1>2. CASE pc'[v] = "run" /\ logger[v] # NULL /\ ptr[logger[v]] # NULL
  <2>1. logger[v] \in Obj /\ ptr'[logger[v]] = ptr[logger[v]]
    BY <1>2 DEF TypeInv, TypeOK, LoggerAlone
  <2>2. h'[ptr[logger[v]]].ctx = h[ptr[logger[v]]].ctx
    BY <1>2, <2>1, CtxKept
  <2>3. QED
    BY <2>1, <2>2 DEF Follows, LoggerAlone
<1>3. QED
  BY <1>1, <1>2

LEMMA FollowsInit == Init => \A v \in VM : Follows(v)
BY DEF Init, Follows

(* The new logger is on the new context, or set_context raised.            *)
LEMMA RegisterFollows ==
  ASSUME TypeInv, OneHolder, SwapInv, [Next]_vars,
         NEW v \in VM, NEW c \in HostCtx, Register(v, c), UNCHANGED ended,
         \A w \in VM : Follows(w)
  PROVE  \A w \in VM : Follows(w)'
<1> USE ConstantsAssumption DEF TypeInv, TypeOK, heapVars
<1>1. reg'[v] = c
  BY DEF Register
<1>2. CASE ~LoggerEndpoint
  BY <1>2 DEF Follows
<1>3. CASE LoggerEndpoint
  <2>1. Follows(v)'
    <3>1. CASE LoggerReplaced(v, c)
      <4>1. PICK o \in Obj, x \in Handle :
              /\ logger' = [logger EXCEPT ![v] = o]
              /\ ptr' = [ptr EXCEPT ![o] = x]
              /\ h' = [h EXCEPT ![x] = OpenHandle(c)]
        BY <3>1 DEF LoggerReplaced
      <4>2. logger'[v] = o /\ ptr'[o] = x /\ h'[x].ctx = c /\ o # NULL /\ x # NULL
        BY <4>1 DEF OpenHandle, Socket
      <4>3. QED
        BY <1>1, <4>2 DEF Follows
    <3>2. CASE LoggerConnectFails(v, c) \/ LoggerSocketFails(v, c)
      BY <3>2 DEF LoggerConnectFails, LoggerSocketFails, Follows
    <3>3. QED
      BY <1>3, <3>1, <3>2 DEF Register, NewLogger
  <2>2. ASSUME NEW w \in VM, w # v PROVE Follows(w)'
    <3>1. pc'[w] = pc[w] /\ reg'[w] = reg[w]
      BY <2>2 DEF Register
    <3>2. logger'[w] = logger[w] /\ (w \in raised => w \in raised')
      BY <1>3, <2>2 DEF Register, NewLogger, LoggerReplaced, LoggerConnectFails,
         LoggerSocketFails
    <3>3. ASSUME NEW o \in Obj, HeapOf[o] = w PROVE ptr'[o] = ptr[o]
      BY <2>2, <3>3, RegisterTakes DEF TakesOf
    <3>4. LoggerAlone(w)
      BY <3>1, <3>2, <3>3 DEF LoggerAlone, SwapInv, LoggerLives
    <3>5. QED
      BY <3>4, LoggerAloneFollows
  <2>3. QED
    BY <2>1, <2>2
<1>4. QED
  BY <1>2, <1>3

(* So the logger follows the context, relative to TypeInv, OneHolder and   *)
(* SwapInv.                                                                *)
LEMMA FollowsStep ==
  ASSUME TypeInv, OneHolder, SwapInv, [Next]_vars, \A v \in VM : Follows(v)
  PROVE  \A v \in VM : Follows(v)'
<1> DEFINE Goal == \A v \in VM : Follows(v)'
<1> USE ConstantsAssumption DEF TypeInv, TypeOK, vmVars, heapVars, histVars
<1>1. ASSUME \A v \in VM : LoggerAlone(v) PROVE Goal
  BY <1>1, LoggerAloneFollows
<1>2. ASSUME NEW v \in VM, ShutdownAndClose(v), UNCHANGED <<reg, logger, raised>>,
             ended \subseteq ended', pc'[v] # "run",
             \A w \in VM : w # v => pc'[w] = pc[w]
      PROVE  Goal
  <2>1. ASSUME NEW w \in VM, w # v, logger[w] # NULL
        PROVE  ptr'[logger[w]] = ptr[logger[w]]
    BY <1>2, <2>1, ShutdownClears DEF SwapInv, LoggerLives, ClearsOf
  <2>2. \A w \in VM : LoggerAlone(w)
    BY <1>2, <2>1 DEF LoggerAlone
  <2>3. QED
    BY <1>1, <2>2
<1>3. ASSUME NEW v \in VM, VmStep(v) PROVE Goal
  <2>1. CASE GemInit(v)
    <3>1. Follows(v)'
      <4>1. ASSUME NEW o \in Obj, NEW x \in Handle,
                   logger' = [logger EXCEPT ![v] = o],
                   ptr' = [ptr EXCEPT ![o] = x],
                   h' = [h EXCEPT ![x] = OpenHandle(v)]
            PROVE  logger'[v] = o /\ ptr'[o] = x /\ h'[x].ctx = v
                   /\ o # NULL /\ x # NULL
        BY <4>1 DEF OpenHandle, Socket
      <4>2. reg'[v] = v
        BY <2>1 DEF GemInit, FirstLogger, Registered
      <4>3. QED
        BY <2>1, <4>1, <4>2 DEF GemInit, FirstLogger, Follows
    <3>2. ASSUME NEW w \in VM, w # v PROVE Follows(w)'
      <4>1. ASSUME NEW o \in Obj, HeapOf[o] = w PROVE ptr'[o] = ptr[o]
        BY <2>1, <3>2, <4>1 DEF GemInit, FirstLogger, HasLoggerSlot
      <4>2. LoggerAlone(w)
        BY <2>1, <3>2, <4>1 DEF GemInit, FirstLogger, LoggerAlone, SwapInv, LoggerLives
      <4>3. QED
        BY <4>2, LoggerAloneFollows
    <3>3. QED
      BY <3>1, <3>2
  <2>2. CASE GemFinal(v)
    <3>1. CASE ~foreign[v]
      BY <1>2, <2>2, <3>1 DEF GemFinal
    <3>2. CASE foreign[v]
      BY <1>1, <2>2, <3>2 DEF GemFinal, LoggerAlone
    <3>3. QED
      BY <3>1, <3>2
  <2>3. CASE DestroyHeap(v)
    <3>1. Follows(v)'
      BY <2>3 DEF DestroyHeap, Follows
    <3>2. ASSUME NEW w \in VM, w # v PROVE LoggerAlone(w)
      BY <2>3, <3>2 DEF DestroyHeap, LoggerAlone, SwapInv, LoggerLives
    <3>3. QED
      BY <3>1, <3>2, LoggerAloneFollows
  <2>4. CASE DirectTerm(v)
    BY <1>2, <2>4 DEF DirectTerm
  <2>5. CASE CtxTermReturns(v) \/ CtxTermInterrupted(v)
    <3>1. Resume(v) /\ UNCHANGED ended
      BY <2>5 DEF CtxTermReturns, CtxTermInterrupted
    <3>2. CASE pc[v] = "swap"
      BY <3>1, <3>2, RegisterFollows DEF Resume, Registered
    <3>3. CASE pc[v] \in {"direct", "final"}
      <4>1. \A w \in VM : w # v => LoggerAlone(w)
        BY <3>1, <3>3 DEF Resume, LoggerAlone
      <4>2. reg'[v] \in ended' \/ pc'[v] # "run"
        BY <3>1, <3>3 DEF Resume, Registered
      <4>3. Follows(v)'
        BY <4>2 DEF Follows
      <4>4. QED
        BY <4>1, <4>3, LoggerAloneFollows
    <3>4. QED
      BY <2>5, <3>2, <3>3 DEF CtxTermReturns, CtxTermInterrupted
  <2>6. CASE SocketNewDangling(v) \/ GcMark(v) \/ GcToggle(v)
    BY <1>1, <2>6 DEF SocketNewDangling, GcMark, GcToggle, LoggerAlone
  <2>7. ASSUME NEW c \in HostCtx, SetContext(v, c) PROVE Goal
    <3>1. CASE ~foreign[v]
      BY <1>2, <2>7, <3>1 DEF SetContext
    <3>2. CASE foreign[v]
      BY <2>7, <3>2, RegisterFollows DEF SetContext
    <3>3. QED
      BY <3>1, <3>2
  <2>8. QED
    BY <1>3, <2>1, <2>2, <2>3, <2>4, <2>5, <2>6, <2>7 DEF VmStep
<1>4. ASSUME NEW o \in Obj, ObjStep(o) PROVE Goal
  <2>1. UNCHANGED <<pc, reg, logger, ended, raised>>
    BY <1>4 DEF ObjStep, SocketNew, LingerSet, Send, Close, CloseMark, Drop, GcSweep
  <2>2. ASSUME NEW p \in Obj, obj[p] = "live", logger[HeapOf[p]] = p
        PROVE  ptr'[p] = ptr[p]
    <3>1. ASSUME NEW x \in Handle, SocketNew(o, x) PROVE ptr'[p] = ptr[p]
      BY <2>2, <3>1 DEF SocketNew
    <3>2. ASSUME NEW l \in Linger, LingerSet(o, l) PROVE ptr'[p] = ptr[p]
      BY <3>2 DEF LingerSet
    <3>3. CASE Send(o) \/ Drop(o)
      BY <3>3 DEF Send, Drop
    <3>4. CASE Close(o) \/ CloseMark(o)
      BY <2>2, <3>4 DEF Close, CloseMark
    <3>5. CASE GcSweep(o)
      BY <2>2, <3>5 DEF GcSweep
    <3>6. QED
      BY <1>4, <3>1, <3>2, <3>3, <3>4, <3>5 DEF ObjStep
  <2>3. \A v \in VM : LoggerAlone(v)
    BY <2>1, <2>2 DEF LoggerAlone, SwapInv, LoggerLives
  <2>4. QED
    BY <1>1, <2>3
<1>5. ASSUME NEW c \in HostCtx, HostStep(c) PROVE Goal
  BY <1>1, <1>5 DEF HostStep, HostCtxNew, HostCtxTerm, HostCtxTermReturns, LoggerAlone
<1>6. ASSUME NEW x \in Handle, Deliver(x) \/ LingerExpires(x) PROVE Goal
  BY <1>1, <1>6 DEF Deliver, LingerExpires, LoggerAlone
<1>7. CASE UNCHANGED vars
  BY <1>1, <1>7 DEF vars, LoggerAlone
<1>8. QED
  BY <1>3, <1>4, <1>5, <1>6, <1>7 DEF Next

(* After a set_context that did not raise, the logger of an mrb_state has  *)
(* an open socket on its registered context.                               *)
THEOREM LoggerOnContext == Spec => []LoggerFollowsContext
<1> DEFINE Following == \A v \in VM : Follows(v)
<1>1. TypeInv /\ OneHolder /\ SwapInv /\ Following /\ [Next]_vars => Following'
  BY FollowsStep
<1>2. Following => LoggerFollowsContext
  BY DEF Follows, LoggerFollowsContext
<1>3. QED
  BY <1>1, <1>2, FollowsInit, SwapInvariant, PTL DEF Spec

-----------------------------------------------------------------------------
(* The age of a context, and what zmq_ctx_term may wait for.               *)

(* A context exists from mrb_open on, those of the host before they are    *)
(* registered, and is shut down when a VM waits for its end.               *)
Staged ==
  \A v \in VM :
    /\ pc[v] = "unborn" <=> ctx[v] = "none"
    /\ pc[v] # "unborn" => ctx[reg[v]] # "none"
    /\ pc[v] = "swap" => ctx[target[v]] # "none"
    /\ pc[v] \in {"swap", "direct", "final"} => ctx[reg[v]] \in {"stopping", "terminated"}

(* The only ways a context may change.                                     *)
Ages ==
  \A c \in Ctx : ctx'[c] # ctx[c]
    => \/ ctx[c] = "none" /\ ctx'[c] = "open"
       \/ ctx[c] = "open" /\ ctx'[c] = "stopping"
       \/ ctx[c] = "stopping" /\ ctx'[c] = "terminated" /\ Drained(c)

LEMMA StagedInit == Init => Staged
BY DEF Init, Staged, Ctx

LEMMA StagedStep ==
  ASSUME TypeInv, Staged, [Next]_vars PROVE Staged' /\ Ages
<1> USE ConstantsAssumption
    DEF TypeInv, TypeOK, Registered, Staged, Ages, Ctx, ctlVars
<1>1. ASSUME NEW v \in VM, GemInit(v) PROVE Staged' /\ Ages
  BY <1>1 DEF GemInit, FirstLogger
<1>2. ASSUME NEW v \in VM, GemFinal(v) PROVE Staged' /\ Ages
  BY <1>2 DEF GemFinal, ShutdownAndClose
<1>3. ASSUME NEW v \in VM, DestroyHeap(v) PROVE Staged' /\ Ages
  BY <1>3 DEF DestroyHeap
<1>4. ASSUME NEW v \in VM, DirectTerm(v) PROVE Staged' /\ Ages
  BY <1>4 DEF DirectTerm, ShutdownAndClose
<1>5. ASSUME NEW v \in VM, Resume(v), pc[v] \in {"swap", "direct", "final"},
             UNCHANGED ctx \/ ( /\ ctx' = [ctx EXCEPT ![reg[v]] = "terminated"]
                                /\ ctx[reg[v]] = "terminated" \/ Drained(reg[v]) )
      PROVE  Staged' /\ Ages
  <2>1. CASE pc[v] = "swap"
    BY <1>5, <2>1 DEF Resume, Register
  <2>2. CASE pc[v] \in {"direct", "final"}
    BY <1>5, <2>2 DEF Resume
  <2>3. QED
    BY <1>5, <2>1, <2>2
<1>6. ASSUME NEW v \in VM, CtxTermReturns(v) \/ CtxTermInterrupted(v) PROVE Staged' /\ Ages
  BY <1>5, <1>6 DEF CtxTermReturns, CtxTermInterrupted
<1>7. ASSUME NEW v \in VM, NEW c \in HostCtx, SetContext(v, c) PROVE Staged' /\ Ages
  <2>1. CASE foreign[v]
    BY <1>7, <2>1 DEF SetContext, Register
  <2>2. CASE ~foreign[v]
    BY <1>7, <2>2 DEF SetContext, ShutdownAndClose
  <2>3. QED
    BY <2>1, <2>2
<1>8. ASSUME NEW c \in HostCtx, HostStep(c) PROVE Staged' /\ Ages
  BY <1>8 DEF HostStep, HostCtxNew, HostCtxTerm, HostCtxTermReturns, vmVars
<1>9. CASE UNCHANGED <<vmVars, ctx>>
  BY <1>9 DEF vmVars
<1>10. CASE UNCHANGED <<pc, reg, foreign, target, ctx>>
  BY <1>10
<1>11. ASSUME NEW v \in VM, GcMark(v) \/ GcToggle(v) \/ SocketNewDangling(v)
       PROVE  UNCHANGED <<pc, reg, foreign, target, ctx>>
  BY <1>11 DEF GcMark, GcToggle, SocketNewDangling, vmVars
<1>12. ASSUME NEW o \in Obj, ObjStep(o) PROVE UNCHANGED <<vmVars, ctx>>
  BY <1>12 DEF ObjStep, SocketNew, LingerSet, Send, Close, CloseMark, Drop, GcSweep
<1>13. ASSUME NEW x \in Handle, Deliver(x) \/ LingerExpires(x) PROVE UNCHANGED <<vmVars, ctx>>
  BY <1>13 DEF Deliver, LingerExpires
<1>14. CASE UNCHANGED vars
  BY <1>9, <1>14 DEF vars
<1>15. QED
  BY <1>1, <1>2, <1>3, <1>4, <1>6, <1>7, <1>8, <1>9, <1>10, <1>11, <1>12, <1>13, <1>14
     DEF Next, VmStep

LEMMA StagedInvariant == Spec => [](TypeInv /\ OneHolder /\ Staged)
<1>1. TypeInv /\ Staged /\ [Next]_vars => Staged'
  BY StagedStep
<1>2. QED
  BY <1>1, StagedInit, HolderInvariant, PTL DEF Spec

-----------------------------------------------------------------------------
(* What one step may make of a native socket: nothing, a closed one, a new *)
(* one on an open context, one in use with other options or messages, one  *)
(* that has seen its context shut down, or one that lingers.               *)
Made(x) ==
  h[x].st = "free" /\ \E c \in Ctx : ctx'[c] = "open" /\ h'[x] = OpenHandle(c)

Used(x) ==
  /\ h[x].st = "open"
  /\ \E l, u : h'[x] = Socket("open", h[x].ctx, l, u, h[x].told)

Refused(x) ==
  /\ h[x].st = "open"
  /\ \E o \in Obj : Usable(o) /\ ptr[o] = x /\ ctx[h[x].ctx] # "open"
  /\ \E l, u : h'[x] = Socket("open", h[x].ctx, l, u, TRUE)
  /\ UNCHANGED ended

Left(x) ==
  /\ h[x].st = "open"
  /\ \E st \in {"closing", "ending"}, l \in Linger \ {"none"} :
       /\ h'[x] = Socket(st, h[x].ctx, l, TRUE, h[x].told)
       /\ st = "ending" => l = "bounded" \/ h[x].told

Becomes(x) ==
  h'[x] \in {h[x], NoHandle} \/ Made(x) \/ Used(x) \/ Refused(x) \/ Left(x)

LEMMA SameContext ==
  ASSUME NEW x \in Handle, Used(x) \/ Refused(x) \/ Left(x)
  PROVE  h[x].st = "open" /\ h'[x].ctx = h[x].ctx
<1>1. CASE Used(x)
  BY <1>1 DEF Used, Socket
<1>2. CASE Refused(x)
  BY <1>2 DEF Refused, Socket
<1>3. CASE Left(x)
  BY <1>3 DEF Left, Socket
<1>4. QED
  BY <1>1, <1>2, <1>3

(* zmq_close, with whatever linger could still be set.                     *)
LEMMA CloseLeaves ==
  ASSUME TypeInv, NEW x \in Handle, h[x].st = "open",
         NEW st \in {"closing", "ending"}, NEW l \in Linger,
         h'[x] = CloseAs(st, x, l), st = "ending" => l = "bounded" \/ h[x].told
  PROVE  Becomes(x)
<1>1. CASE h[x].unsent /\ l # "none"
  <2>1. h'[x] = Socket(st, h[x].ctx, l, TRUE, h[x].told)
    BY <1>1 DEF CloseAs
  <2>2. l \in Linger \ {"none"}
    BY <1>1
  <2>3. Left(x)
    BY <2>1, <2>2, Zenon DEF Left
  <2>4. QED
    BY <2>3 DEF Becomes
<1>2. CASE ~(h[x].unsent /\ l # "none")
  BY <1>2 DEF CloseAs, Becomes
<1>3. QED
  BY <1>1, <1>2

LEMMA CollectLeaves ==
  ASSUME TypeInv, NEW x \in Handle, h[x].st = "open", h'[x] = GcClosed(x)
  PROVE  Becomes(x)
<1>1. SetLinger(x, "none") \in Linger
  BY CloseTyped DEF TypeInv, Linger
<1>2. QED
  BY <1>1, CloseLeaves DEF GcClosed, CloseWith

LEMMA ShutdownSockets ==
  ASSUME TypeInv, OneHolder, NEW v \in VM, ShutdownAndClose(v), NEW x \in Handle
  PROVE  Becomes(x)
<1> DEFINE mine == {o \in Obj : HeapOf[o] = v}
           k    == CHOOSE o \in mine : ptr[o] = x
<1>1. CASE \A o \in mine : ptr[o] # x
  BY <1>1 DEF ShutdownAndClose, Becomes
<1>2. CASE \E o \in mine : ptr[o] = x
  <2>1. k \in mine /\ ptr[k] = x
    BY <1>2
  <2>2. h'[x] = ClosedAtShutdown(k, x)
    BY <1>2 DEF ShutdownAndClose
  <2>3. h[x].st = "open"
    BY <2>1, ConstantsAssumption DEF OneHolder
  <2> HIDE DEF k
  <2>4. CASE h'[x] = h[x] \/ h'[x] = GcClosed(x)
    BY <2>3, <2>4, CollectLeaves DEF Becomes
  <2>5. CASE h'[x] = CloseAs("ending", x, SetLinger(x, "bounded"))
    <3>1. /\ SetLinger(x, "bounded") \in Linger
          /\ SetLinger(x, "bounded") = "bounded" \/ h[x].told
      BY CloseTyped DEF TypeInv, Linger, SetLinger
    <3>2. QED
      BY <2>3, <2>5, <3>1, CloseLeaves
  <2>6. QED
    BY <2>2, <2>4, <2>5 DEF ClosedAtShutdown
<1>3. QED
  BY <1>1, <1>2

LEMMA RegisterSockets ==
  ASSUME TypeInv, NEW v \in VM, NEW c \in HostCtx, Register(v, c),
         ctx'[c] = ctx[c], NEW x \in Handle
  PROVE  Becomes(x)
<1>1. c \in Ctx
  BY DEF Ctx
<1>2. CASE UNCHANGED heapVars
  BY <1>2 DEF heapVars, Becomes
<1>3. CASE LoggerReplaced(v, c) \/ LoggerConnectFails(v, c)
  <2>1. PICK y \in Handle :
          /\ h[y].st = "free" /\ ctx[c] = "open"
          /\ h' = [h EXCEPT ![y] = OpenHandle(c)]
    BY <1>3 DEF LoggerReplaced, LoggerConnectFails, HasLoggerSlot
  <2>2. QED
    BY <1>1, <2>1 DEF Becomes, Made, TypeInv, TypeOK
<1>4. QED
  BY <1>2, <1>3 DEF Register, NewLogger, LoggerSocketFails

LEMMA SocketSteps ==
  ASSUME TypeInv, OneHolder, Staged, [Next]_vars
  PROVE  \A x \in Handle : Becomes(x)
<1> SUFFICES ASSUME NEW x \in Handle PROVE Becomes(x)
  OBVIOUS
<1>1. ASSUME UNCHANGED h PROVE Becomes(x)
  BY <1>1 DEF Becomes
<1>2. ASSUME NEW v \in VM, GemInit(v) PROVE Becomes(x)
  BY <1>2 DEF GemInit, FirstLogger, HasLoggerSlot, heapVars, Becomes, Made, TypeInv, TypeOK, Ctx
<1>3. ASSUME NEW v \in VM, GemFinal(v) \/ DirectTerm(v) PROVE Becomes(x)
  BY <1>1, <1>3, ShutdownSockets DEF GemFinal, DirectTerm, heapVars
<1>4. ASSUME NEW v \in VM, DestroyHeap(v) PROVE Becomes(x)
  <2>1. CASE \E o \in Obj : HeapOf[o] = v /\ ptr[o] = x
    <3>1. h[x].st = "open" /\ h'[x] = GcClosed(x)
      BY <1>4, <2>1, ConstantsAssumption DEF DestroyHeap, OneHolder
    <3>2. QED
      BY <3>1, CollectLeaves
  <2>2. CASE ~\E o \in Obj : HeapOf[o] = v /\ ptr[o] = x
    BY <1>4, <2>2 DEF DestroyHeap, Becomes
  <2>3. QED
    BY <2>1, <2>2
<1>5. ASSUME NEW v \in VM, CtxTermReturns(v) \/ CtxTermInterrupted(v) PROVE Becomes(x)
  <2>1. CASE pc[v] = "swap"
    <3>1. Register(v, target[v]) /\ target[v] \in HostCtx
      BY <1>5, <2>1 DEF CtxTermReturns, CtxTermInterrupted, Resume, TypeInv, Registered
    <3>2. reg[v] = v /\ target[v] # v
      BY <2>1, <3>1, ConstantsAssumption DEF TypeInv, Registered
    <3>3. ctx'[target[v]] = ctx[target[v]]
      BY <1>5, <3>1, <3>2 DEF CtxTermReturns, CtxTermInterrupted, TypeInv, TypeOK, Ctx
    <3>4. QED
      BY <3>1, <3>3, RegisterSockets
  <2>2. CASE pc[v] # "swap"
    BY <1>1, <1>5, <2>2 DEF CtxTermReturns, CtxTermInterrupted, Resume, heapVars
  <2>3. QED
    BY <2>1, <2>2
<1>6. ASSUME NEW v \in VM, NEW c \in HostCtx, SetContext(v, c) PROVE Becomes(x)
  BY <1>6, ShutdownSockets, RegisterSockets DEF SetContext
<1>7. ASSUME NEW o \in Obj, NEW y \in Handle, SocketNew(o, y) PROVE Becomes(x)
  <2>1. reg[HeapOf[o]] \in Ctx
    BY ConstantsAssumption DEF TypeInv, TypeOK
  <2>2. QED
    BY <1>7, <2>1 DEF SocketNew, Becomes, Made, TypeInv, TypeOK
<1>8. ASSUME NEW o \in Obj, \/ Send(o) \/ Close(o) \/ CloseMark(o)
                            \/ \E l \in Linger : LingerSet(o, l)
      PROVE  Becomes(x)
  <2>1. Usable(o) /\ ptr[o] \in Handle /\ h[ptr[o]].st = "open"
    BY <1>8 DEF Send, Close, CloseMark, LingerSet, Usable, OneHolder, TypeInv, TypeOK
  <2>2. CASE x # ptr[o]
    <3>1. h'[x] = h[x]
      BY <1>8, <2>2 DEF Send, Close, CloseMark, LingerSet, TypeInv, TypeOK
    <3>2. QED
      BY <3>1 DEF Becomes
  <2>3. CASE x = ptr[o] /\ Send(o)
    <3>1. CASE ctx[h[x].ctx] = "open"
      <4>1. h'[x] = Socket("open", h[x].ctx, h[x].linger, TRUE, h[x].told)
        BY <2>3, <3>1 DEF Send, TypeInv, TypeOK
      <4>2. QED
        BY <2>1, <2>3, <4>1 DEF Becomes, Used
    <3>2. CASE ctx[h[x].ctx] # "open"
      <4>1. h'[x] = Socket("open", h[x].ctx, h[x].linger, h[x].unsent, TRUE)
            /\ UNCHANGED ended
        BY <2>3, <3>2 DEF Send, TypeInv, TypeOK, histVars
      <4>2. QED
        BY <2>1, <2>3, <3>2, <4>1 DEF Becomes, Refused
    <3>3. QED
      BY <3>1, <3>2
  <2>4. ASSUME x = ptr[o], NEW l \in Linger, LingerSet(o, l) PROVE Becomes(x)
    <3>1. h'[x] = Socket("open", h[x].ctx, SetLinger(x, l), h[x].unsent, h[x].told)
      BY <2>4 DEF LingerSet, TypeInv, TypeOK
    <3>2. QED
      BY <2>1, <2>4, <3>1 DEF Becomes, Used
  <2>5. CASE x = ptr[o] /\ (Close(o) \/ CloseMark(o))
    <3>1. PICK l \in Linger : h'[x] = CloseAs("closing", x, l)
      <4>1. h[x].linger \in Linger /\ SetLinger(x, "none") \in Linger
        BY FieldsTyped, CloseTyped DEF TypeInv, Linger
      <4>2. h'[x] \in {CloseAs("closing", x, h[x].linger),
                       CloseAs("closing", x, SetLinger(x, "none"))}
        BY <2>5 DEF Close, CloseMark, CloseWith, TypeInv, TypeOK
      <4>3. QED
        BY <4>1, <4>2
    <3>2. QED
      BY <2>1, <2>5, <3>1, CloseLeaves
  <2>6. QED
    BY <1>8, <2>2, <2>3, <2>4, <2>5
<1>9. ASSUME NEW o \in Obj, GcSweep(o) PROVE Becomes(x)
  <2>1. CASE x = ptr[o]
    BY <1>9, <2>1, CollectLeaves, ConstantsAssumption DEF GcSweep, OneHolder
  <2>2. CASE x # ptr[o]
    BY <1>9, <2>2 DEF GcSweep, Becomes
  <2>3. QED
    BY <2>1, <2>2
<1>10. ASSUME NEW y \in Handle, Deliver(y) \/ LingerExpires(y) PROVE Becomes(x)
  <2>1. CASE x # y
    BY <1>10, <2>1 DEF Deliver, LingerExpires, Becomes, TypeInv, TypeOK
  <2>2. CASE x = y /\ Deliver(y) /\ h[x].st = "open"
    <3>1. h'[x] = Socket("open", h[x].ctx, h[x].linger, FALSE, h[x].told)
      BY <2>2 DEF Deliver, TypeInv, TypeOK
    <3>2. QED
      BY <2>2, <3>1 DEF Becomes, Used
  <2>3. CASE x = y /\ (LingerExpires(y) \/ h[x].st # "open")
    <3>1. h'[x] = NoHandle
      BY <1>10, <2>3 DEF Deliver, LingerExpires, TypeInv, TypeOK
    <3>2. QED
      BY <3>1 DEF Becomes
  <2>4. QED
    BY <1>10, <2>1, <2>2, <2>3
<1>11. ASSUME NEW v \in VM, SocketNewDangling(v) \/ GcMark(v) \/ GcToggle(v)
       PROVE  Becomes(x)
  BY <1>1, <1>11 DEF SocketNewDangling, GcMark, GcToggle, heapVars
<1>12. ASSUME NEW o \in Obj, Drop(o) PROVE Becomes(x)
  BY <1>1, <1>12 DEF Drop
<1>13. ASSUME NEW c \in HostCtx, HostStep(c) PROVE Becomes(x)
  BY <1>1, <1>13 DEF HostStep, HostCtxNew, HostCtxTerm, HostCtxTermReturns, heapVars
<1>14. CASE UNCHANGED vars
  BY <1>1, <1>14 DEF vars, heapVars
<1>15. QED
  BY <1>2, <1>3, <1>4, <1>5, <1>6, <1>7, <1>8, <1>9, <1>10, <1>11, <1>12, <1>13, <1>14
     DEF Next, VmStep, ObjStep

-----------------------------------------------------------------------------
(* What one step may make of a slot: its socket is gone or the same, or a  *)
(* new one is on an open context that the VM may use.                      *)
Opened(o) ==
  /\ ptr'[o] \in Handle /\ pc'[HeapOf[o]] = "run"
  /\ \E c \in HostCtx \cup {HeapOf[o]} :
       ctx'[c] = "open" /\ h'[ptr'[o]] = OpenHandle(c)

SlotBecomes(o) ==
  \/ ptr'[o] = NULL
  \/ ptr'[o] = ptr[o] /\ (obj[o] = "dead" => obj'[o] = "dead")
  \/ Opened(o)

LEMMA OpenedAt ==
  ASSUME TypeInv, NEW o \in Obj, NEW x \in Handle,
         NEW c \in HostCtx \cup {HeapOf[o]},
         ptr' = [ptr EXCEPT ![o] = x], h' = [h EXCEPT ![x] = OpenHandle(c)],
         pc'[HeapOf[o]] = "run", ctx'[c] = "open"
  PROVE  Opened(o)
BY DEF TypeInv, TypeOK, Opened

LEMMA RegisterSlots ==
  ASSUME TypeInv, LoggerLives, NEW v \in VM, NEW c \in HostCtx, Register(v, c),
         ctx'[c] = ctx[c], NEW o \in Obj
  PROVE  SlotBecomes(o)
<1> USE DEF TypeInv, TypeOK
<1>1. CASE UNCHANGED heapVars
  BY <1>1 DEF heapVars, SlotBecomes
<1>2. ASSUME NEW k \in Obj, NEW x \in Handle, HasLoggerSlot(k, x, v), ctx[c] = "open",
             ptr' = [ptr EXCEPT ![k] = x], h' = [h EXCEPT ![x] = OpenHandle(c)],
             \A p \in Obj : p # k /\ obj[p] = "dead" => obj'[p] = "dead"
      PROVE  SlotBecomes(o)
  <2>1. CASE o = k
    BY <1>2, <2>1, OpenedAt DEF HasLoggerSlot, Register, SlotBecomes
  <2>2. CASE o # k
    BY <1>2, <2>2 DEF SlotBecomes
  <2>3. QED
    BY <2>1, <2>2
<1>3. CASE LoggerReplaced(v, c)
  <2> HIDE DEF TypeInv, TypeOK
  <2>1. PICK k \in Obj, x \in Handle :
          /\ HasLoggerSlot(k, x, v)
          /\ ctx[c] = "open"
          /\ logger' = [logger EXCEPT ![v] = k]
          /\ obj' = [p \in Obj |-> IF p = k THEN "live"
                                   ELSE IF p = logger[v] THEN "garbage" ELSE obj[p]]
          /\ ptr' = [ptr EXCEPT ![k] = x]
          /\ h' = [h EXCEPT ![x] = OpenHandle(c)]
    BY <1>3 DEF LoggerReplaced
  <2>2. ASSUME NEW p \in Obj, p # k, obj[p] = "dead" PROVE obj'[p] = "dead"
    BY <2>1, <2>2, ConstantsAssumption DEF LoggerLives
  <2>3. QED
    BY <1>2, <2>1, <2>2
<1>4. CASE LoggerConnectFails(v, c)
  <2>1. PICK k \in Obj, x \in Handle :
          /\ HasLoggerSlot(k, x, v)
          /\ ctx[c] = "open"
          /\ obj' = [obj EXCEPT ![k] = "garbage"]
          /\ ptr' = [ptr EXCEPT ![k] = x]
          /\ h' = [h EXCEPT ![x] = OpenHandle(c)]
    BY <1>4 DEF LoggerConnectFails
  <2>2. QED
    BY <1>2, <2>1
<1>5. QED
  BY <1>1, <1>3, <1>4 DEF Register, NewLogger, LoggerSocketFails

LEMMA SlotSteps ==
  ASSUME TypeInv, LoggerLives, [Next]_vars
  PROVE  \A o \in Obj : SlotBecomes(o)
<1> SUFFICES ASSUME NEW o \in Obj PROVE SlotBecomes(o)
  OBVIOUS
<1> USE DEF TypeInv, TypeOK
<1>1. ASSUME UNCHANGED ptr, obj[o] = "dead" => obj'[o] = "dead" PROVE SlotBecomes(o)
  BY <1>1 DEF SlotBecomes
<1>2. ASSUME NEW v \in VM, ShutdownAndClose(v) PROVE SlotBecomes(o)
  BY <1>2, ShutdownLeaves DEF SlotBecomes
<1>3. ASSUME NEW v \in VM, GemInit(v) PROVE SlotBecomes(o)
  <2>1. CASE UNCHANGED heapVars
    BY <1>1, <2>1 DEF heapVars
  <2>2. ASSUME NEW k \in Obj, NEW x \in Handle, HeapOf[k] = v,
               obj' = [obj EXCEPT ![k] = "live"],
               ptr' = [ptr EXCEPT ![k] = x], h' = [h EXCEPT ![x] = OpenHandle(v)]
        PROVE  SlotBecomes(o)
    <3>1. CASE o = k
      BY <1>3, <2>2, <3>1, OpenedAt DEF GemInit, FirstLogger, SlotBecomes, Ctx
    <3>2. CASE o # k
      BY <2>2, <3>2 DEF SlotBecomes
    <3>3. QED
      BY <3>1, <3>2
  <2>3. QED
    BY <1>3, <2>1, <2>2 DEF GemInit, FirstLogger, HasLoggerSlot
<1>4. ASSUME NEW v \in VM, GemFinal(v) \/ DirectTerm(v) PROVE SlotBecomes(o)
  BY <1>1, <1>2, <1>4 DEF GemFinal, DirectTerm, heapVars
<1>5. ASSUME NEW v \in VM, DestroyHeap(v) PROVE SlotBecomes(o)
  BY <1>5 DEF DestroyHeap, SlotBecomes
<1>6. ASSUME NEW v \in VM, CtxTermReturns(v) \/ CtxTermInterrupted(v)
      PROVE  SlotBecomes(o)
  <2>1. CASE pc[v] = "swap"
    <3>1. Register(v, target[v]) /\ target[v] \in HostCtx
      BY <1>6, <2>1 DEF CtxTermReturns, CtxTermInterrupted, Resume, Registered
    <3>2. reg[v] = v /\ target[v] # v
      BY <2>1, <3>1, ConstantsAssumption DEF Registered
    <3>3. ctx'[target[v]] = ctx[target[v]]
      BY <1>6, <3>1, <3>2 DEF CtxTermReturns, CtxTermInterrupted, Ctx
    <3>4. QED
      BY <3>1, <3>3, RegisterSlots
  <2>2. CASE pc[v] # "swap"
    BY <1>1, <1>6, <2>2 DEF CtxTermReturns, CtxTermInterrupted, Resume, heapVars
  <2>3. QED
    BY <2>1, <2>2
<1>7. ASSUME NEW v \in VM, NEW c \in HostCtx, SetContext(v, c) PROVE SlotBecomes(o)
  BY <1>2, <1>7, RegisterSlots DEF SetContext
<1>8. ASSUME NEW v \in VM, SocketNewDangling(v) \/ GcMark(v) \/ GcToggle(v)
      PROVE  SlotBecomes(o)
  BY <1>1, <1>8 DEF SocketNewDangling, GcMark, GcToggle, heapVars
<1>9. ASSUME NEW k \in Obj, NEW x \in Handle, SocketNew(k, x) PROVE SlotBecomes(o)
  <2>1. CASE o = k
    <3>1. reg[HeapOf[o]] \in HostCtx \cup {HeapOf[o]}
      BY ConstantsAssumption DEF Registered
    <3>2. Opened(o)
      BY <1>9, <2>1, <3>1, OpenedAt DEF SocketNew, Running, vmVars
    <3>3. QED
      BY <3>2 DEF SlotBecomes
  <2>2. CASE o # k
    BY <1>9, <2>2 DEF SocketNew, SlotBecomes
  <2>3. QED
    BY <2>1, <2>2
<1>10. ASSUME NEW k \in Obj, \/ Send(k) \/ Drop(k) \/ \E l \in Linger : LingerSet(k, l)
       PROVE  SlotBecomes(o)
  BY <1>1, <1>10 DEF Send, Drop, LingerSet
<1>11. ASSUME NEW k \in Obj, Close(k) \/ CloseMark(k) \/ GcSweep(k)
       PROVE  SlotBecomes(o)
  BY <1>11 DEF Close, CloseMark, GcSweep, SlotBecomes
<1>12. ASSUME NEW c \in HostCtx, HostStep(c) PROVE SlotBecomes(o)
  BY <1>1, <1>12 DEF HostStep, HostCtxNew, HostCtxTerm, HostCtxTermReturns, heapVars
<1>13. ASSUME NEW x \in Handle, Deliver(x) \/ LingerExpires(x) PROVE SlotBecomes(o)
  BY <1>1, <1>13 DEF Deliver, LingerExpires
<1>14. CASE UNCHANGED vars
  BY <1>1, <1>14 DEF vars, heapVars
<1>15. QED
  BY <1>3, <1>4, <1>5, <1>6, <1>7, <1>8, <1>9, <1>10, <1>11, <1>12, <1>13, <1>14
     DEF Next, VmStep, ObjStep

(* What a slot of the heap may hold: a socket on a context of the host or  *)
(* on the gem's own; the latter, once the context is shut down, only if    *)
(* the object is dead.  While a VM waits in zmq_ctx_term it holds sockets  *)
(* only through dead objects, with the collector off.                      *)
Waits(v) == pc[v] \in {"swap", "direct", "final"}

SlotGood(o) ==
  LET v == HeapOf[o] IN
  ptr[o] # NULL
    => /\ h[ptr[o]].ctx \in HostCtx \cup {v}
       /\ h[ptr[o]].ctx = v /\ ctx[v] # "open" => obj[o] = "dead"
       /\ Waits(v) => obj[o] = "dead" /\ ~gcOn[v]
       /\ pc[v] \notin {"unborn", "closed"}

(* What a step does to the VM of a slot that keeps its socket.             *)
Spared(o) ==
  LET v == HeapOf[o] IN
  \/ obj'[o] = "dead" /\ ~gcOn'[v] /\ Waits(v)'
  \/ /\ ctx'[v] # "open" => ctx[v] # "open"
     /\ \/ pc'[v] \in {"run", "destroy"}
        \/ UNCHANGED <<pc[v], gcOn[v]>>

LEMMA SparedSlot ==
  ASSUME TypeInv, Staged, [Next]_vars, NEW o \in Obj,
         ptr[o] # NULL, ptr'[o] = ptr[o]
  PROVE  Spared(o)
<1> DEFINE v == HeapOf[o]
<1> USE ConstantsAssumption DEF TypeInv, TypeOK, Ctx
<1>0. HeapOf' = HeapOf /\ v \in VM /\ v \notin HostCtx
  OBVIOUS
<1>1. CASE UNCHANGED ctlVars /\ (UNCHANGED gcOn \/ pc[v] = "run")
  BY <1>1 DEF ctlVars, Spared
<1>2. ASSUME NEW w \in VM, ShutdownAndClose(w), pc' = [pc EXCEPT ![w] = pc'[w]],
             Waits(w)', UNCHANGED gcOn
      PROVE  Spared(o)
  <2>1. CASE w = v
    BY <1>2, <2>1 DEF ShutdownAndClose, Skipped, Collected, Spared
  <2>2. CASE w # v
    <3>1. reg[w] # v
      BY <2>2 DEF Registered
    <3>2. QED
      BY <1>2, <2>2, <3>1 DEF ShutdownAndClose, Spared
  <2>3. QED
    BY <2>1, <2>2
<1>3. ASSUME NEW w \in VM, GemInit(w) PROVE Spared(o)
  BY <1>3 DEF GemInit, FirstLogger, Spared
<1>4. ASSUME NEW w \in VM, GemFinal(w) PROVE Spared(o)
  <2>1. CASE foreign[w]
    BY <1>4, <2>1 DEF GemFinal, Spared
  <2>2. CASE ~foreign[w]
    BY <1>2, <1>4, <2>2 DEF GemFinal, Waits
  <2>3. QED
    BY <2>1, <2>2
<1>5. ASSUME NEW w \in VM, DirectTerm(w) PROVE Spared(o)
  BY <1>2, <1>5 DEF DirectTerm, Waits
<1>6. ASSUME NEW w \in VM, DestroyHeap(w) PROVE Spared(o)
  BY <1>6 DEF DestroyHeap, Spared
<1>7. ASSUME NEW w \in VM, CtxTermReturns(w) \/ CtxTermInterrupted(w) PROVE Spared(o)
  <2>1. ctx'[v] # "open" => ctx[v] # "open"
    <3>1. Waits(w) => ctx[reg[w]] # "open"
      BY DEF Waits, Staged
    <3>2. QED
      BY <1>7, <3>1 DEF CtxTermReturns, CtxTermInterrupted, Waits
  <2>2. w = v => pc'[v] \in {"run", "destroy"}
    BY <1>7 DEF CtxTermReturns, CtxTermInterrupted, Resume, Register
  <2>3. w # v => UNCHANGED <<pc[v], gcOn[v]>>
    BY <1>7 DEF CtxTermReturns, CtxTermInterrupted, Resume, Register
  <2>4. QED
    BY <2>1, <2>2, <2>3 DEF Spared
<1>8. ASSUME NEW w \in VM, NEW c \in HostCtx, SetContext(w, c) PROVE Spared(o)
  <2>1. CASE foreign[w]
    BY <1>8, <2>1 DEF SetContext, Register, Spared
  <2>2. CASE ~foreign[w]
    BY <1>2, <1>8, <2>2 DEF SetContext, Waits
  <2>3. QED
    BY <2>1, <2>2
<1>9. ASSUME NEW c \in HostCtx, HostStep(c) PROVE Spared(o)
  BY <1>9 DEF HostStep, HostCtxNew, HostCtxTerm, HostCtxTermReturns, vmVars, Spared
<1>10. ASSUME NEW w \in VM, SocketNewDangling(w) \/ GcMark(w) \/ GcToggle(w)
       PROVE  Spared(o)
  BY <1>10 DEF SocketNewDangling, GcMark, GcToggle, vmVars, Spared
<1>11. ASSUME NEW k \in Obj, ObjStep(k) PROVE Spared(o)
  <2>1. UNCHANGED <<pc, gcOn, ctx>>
    BY <1>11 DEF ObjStep, SocketNew, LingerSet, Send, Close, CloseMark, Drop, GcSweep,
                 vmVars
  <2>2. QED
    BY <2>1 DEF Spared
<1>12. ASSUME NEW x \in Handle, Deliver(x) \/ LingerExpires(x) PROVE Spared(o)
  BY <1>12 DEF Deliver, LingerExpires, vmVars, Spared
<1>13. CASE UNCHANGED vars
  BY <1>13 DEF vars, vmVars, Spared
<1>14. QED
  BY <1>3, <1>4, <1>5, <1>6, <1>7, <1>8, <1>9, <1>10, <1>11, <1>12, <1>13
     DEF Next, VmStep

LEMMA SlotStep ==
  ASSUME TypeInv, OneHolder, LoggerLives, Staged, [Next]_vars,
         NEW o \in Obj, SlotGood(o)
  PROVE  SlotGood(o)'
<1> USE ConstantsAssumption
<1>1. CASE ptr'[o] = NULL
  BY <1>1 DEF SlotGood
<1>2. CASE ptr[o] # NULL /\ ptr'[o] = ptr[o] /\ (obj[o] = "dead" => obj'[o] = "dead")
  <2>1. h'[ptr'[o]].ctx = h[ptr[o]].ctx /\ Spared(o)
    BY <1>2, CtxKept, SparedSlot
  <2>2. QED
    BY <1>2, <2>1 DEF SlotGood, Spared, Waits
<1>3. CASE Opened(o)
  BY <1>3 DEF Opened, OpenHandle, Socket, SlotGood, Waits
<1>4. QED
  BY <1>1, <1>2, <1>3, SlotSteps DEF SlotBecomes

-----------------------------------------------------------------------------
(* What a native socket in use may be: its context is not terminated, only *)
(* an operation on a context that the host ended has told it ETERM, and it *)
(* lingers without a bound only where the program closed it or libzmq no   *)
(* longer let the shutdown routine set one.                                *)
NativeGood(x) ==
  /\ InUse(x) => h[x].ctx \in Ctx /\ ctx[h[x].ctx] \in {"open", "stopping"}
  /\ h[x].told => h[x].ctx \in HostCtx \cap ended
  /\ h[x].st \in {"closing", "ending"} => h[x].linger # "none"
  /\ h[x].st = "ending" => h[x].linger = "bounded" \/ h[x].told

NativeInv == (\A o \in Obj : SlotGood(o)) /\ (\A x \in Handle : NativeGood(x))

LEMMA EndedGrows ==
  ASSUME [Next]_vars PROVE ended \subseteq ended'
<1> USE DEF histVars
<1>1. ASSUME NEW v \in VM, VmStep(v) PROVE ended \subseteq ended'
  BY <1>1 DEF VmStep, GemInit, FirstLogger, GemFinal, DestroyHeap, DirectTerm, SocketNewDangling,
     CtxTermReturns, CtxTermInterrupted, GcMark, GcToggle, SetContext
<1>2. ASSUME NEW o \in Obj, ObjStep(o) PROVE ended \subseteq ended'
  BY <1>2 DEF ObjStep, SocketNew, LingerSet, Send, Close, CloseMark, Drop, GcSweep
<1>3. ASSUME NEW c \in HostCtx, HostStep(c) PROVE ended \subseteq ended'
  BY <1>3 DEF HostStep, HostCtxNew, HostCtxTerm, HostCtxTermReturns
<1>4. ASSUME NEW x \in Handle, Deliver(x) \/ LingerExpires(x) PROVE ended \subseteq ended'
  BY <1>4 DEF Deliver, LingerExpires
<1>5. QED
  BY <1>1, <1>2, <1>3, <1>4 DEF Next, vars

LEMMA NativeStep ==
  ASSUME TypeInv, CtxInv, OneHolder, Staged, [Next]_vars, \A o \in Obj : SlotGood(o),
         NEW x \in Handle, NativeGood(x)
  PROVE  NativeGood(x)'
<1> USE DEF Socket, NativeGood, InUse
<1>1. ended \subseteq ended'
  BY EndedGrows
<1>2. CASE h'[x] = NoHandle
  BY <1>2 DEF NoHandle
<1>3. CASE Made(x)
  BY <1>3 DEF Made, OpenHandle
<1>4. ASSUME h[x].st # "free", h'[x].ctx = h[x].ctx
      PROVE  ctx'[h[x].ctx] \in {"open", "stopping"}
  BY <1>4, StagedStep DEF Ages, Drained
<1>5. CASE h'[x] = h[x]
  BY <1>1, <1>4, <1>5
<1>6. CASE Used(x)
  <2>1. PICK l, u : h'[x] = Socket("open", h[x].ctx, l, u, h[x].told)
    BY <1>6 DEF Used
  <2>2. QED
    BY <1>1, <1>4, <1>6, <2>1 DEF Used
<1>7. CASE Left(x)
  <2>1. PICK st \in {"closing", "ending"}, l \in Linger \ {"none"} :
          /\ h'[x] = Socket(st, h[x].ctx, l, TRUE, h[x].told)
          /\ st = "ending" => l = "bounded" \/ h[x].told
    BY <1>7 DEF Left
  <2>2. QED
    BY <1>1, <1>4, <1>7, <2>1 DEF Left
<1>8. CASE Refused(x)
  <2>1. PICK o \in Obj : Usable(o) /\ ptr[o] = x /\ ctx[h[x].ctx] # "open"
    BY <1>8 DEF Refused
  <2>2. h[x].ctx \in HostCtx
    BY <2>1 DEF Usable, SlotGood
  <2>3. ctx[h[x].ctx] = "stopping"
    BY <1>8, <2>1 DEF Refused
  <2>4. h[x].ctx \in HostCtx \cap ended
    BY <2>2, <2>3 DEF CtxInv, HostCtxSpared
  <2>5. QED
    BY <1>1, <1>4, <1>8, <2>4 DEF Refused
<1>9. QED
  BY <1>2, <1>3, <1>5, <1>6, <1>7, <1>8, SocketSteps DEF Becomes

LEMMA NativeInit == Init => NativeInv
BY DEF Init, NativeInv, SlotGood, NativeGood, InUse, NoHandle, Socket

Native == TypeInv /\ CtxInv /\ OneHolder /\ SwapInv /\ Staged /\ NativeInv

LEMMA NativeInvariant == Spec => []Native
<1>1. Native /\ [Next]_vars => NativeInv'
  BY SlotStep, NativeStep DEF Native, NativeInv, SwapInv
<1>2. QED
  BY <1>1, NativeInit, CtxInvariant, SwapInvariant, StagedInvariant, PTL
     DEF Spec, Native

(* A context is made, shut down and terminated in this order, each once,   *)
(* and never terminated while a native socket of it is left: whoever calls *)
(* zmq_ctx_term, interrupted or not, in whatever order.                    *)
ContextsAge == [][Ages]_vars

THEOREM ContextsAgeForward == Spec => ContextsAge
<1>1. TypeInv /\ Staged /\ [Next]_vars => Ages
  BY StagedStep
<1>2. QED
  BY <1>1, StagedInvariant, PTL DEF Spec, ContextsAge

(* No native socket outlives its context, the foreign ones of an mrb_state *)
(* that is closed or was swapped included.                                 *)
NoSocketOutlivesContext ==
  \A x \in Handle : InUse(x) => ctx[h[x].ctx] \in {"open", "stopping"}

THEOREM SocketsEndFirst == Spec => []NoSocketOutlivesContext
<1>1. Native => NoSocketOutlivesContext
  BY DEF Native, NativeInv, NativeGood, NoSocketOutlivesContext
<1>2. QED
  BY <1>1, NativeInvariant, PTL

(* From its shutdown on a context gets no new socket: what zmq_ctx_term    *)
(* waits for can only become less.                                         *)
SocketsOn(c) == {x \in Handle : InUse(x) /\ h[x].ctx = c}

NoNewcomers ==
  [][\A c \in Ctx : ctx[c] \notin {"none", "open"}
       => SocketsOn(c)' \subseteq SocketsOn(c)]_vars

THEOREM ShutdownShutsOut == Spec => NoNewcomers
<1>1. ASSUME Native, [Next]_vars, NEW c \in Ctx, ctx[c] \notin {"none", "open"},
             NEW x \in Handle, InUse(x)', h'[x].ctx = c
      PROVE  InUse(x) /\ h[x].ctx = c
  <2>1. Becomes(x)
    BY <1>1, SocketSteps DEF Native
  <2>2. ctx'[c] # "open"
    BY <1>1, StagedStep DEF Native, Ages
  <2>3. CASE h'[x] \in {h[x], NoHandle}
    BY <1>1, <2>3 DEF NoHandle, Socket, InUse
  <2>4. CASE Made(x)
    <3>1. PICK e \in Ctx : ctx'[e] = "open" /\ h'[x] = OpenHandle(e)
      BY <2>4 DEF Made
    <3>2. QED
      BY <1>1, <2>2, <3>1 DEF OpenHandle, Socket
  <2>5. CASE Used(x) \/ Refused(x) \/ Left(x)
    BY <1>1, <2>5, SameContext DEF InUse
  <2>6. QED
    BY <2>1, <2>3, <2>4, <2>5 DEF Becomes
<1>2. Native /\ [Next]_vars
        => \A c \in Ctx : ctx[c] \notin {"none", "open"}
             => SocketsOn(c)' \subseteq SocketsOn(c)
  BY <1>1 DEF SocketsOn
<1>3. QED
  BY <1>2, NativeInvariant, PTL DEF Spec, NoNewcomers

(* close! and the finaliser of a collected socket drop what was not sent:  *)
(* they ignore the result of zmq_setsockopt, which can fail only for a     *)
(* socket on a context of the host that the host itself has ended.         *)
DropsUnlessEnded ==
  [][\A o \in Obj : ptr[o] # NULL /\ (CloseMark(o) \/ GcSweep(o))
       => \/ h'[ptr[o]].st = "free"
          \/ h[ptr[o]].ctx \in HostCtx \cap ended]_vars

THEOREM CloseDropsMessages == Spec => DropsUnlessEnded
<1>1. ASSUME Native, NEW o \in Obj, ptr[o] # NULL, CloseMark(o) \/ GcSweep(o),
             h[ptr[o]].ctx \notin HostCtx \cap ended
      PROVE  h'[ptr[o]].st = "free"
  <2>1. TypeOK /\ ptr[o] \in Handle
    BY <1>1 DEF Native, TypeInv, TypeOK
  <2>2. NativeGood(ptr[o])
    BY <1>1, <2>1 DEF Native, NativeInv
  <2>3. ~h[ptr[o]].told
    BY <1>1, <2>2 DEF NativeGood
  <2>4. h'[ptr[o]] = CloseWith(ptr[o], SetLinger(ptr[o], "none"))
    <3>1. CASE CloseMark(o)
      BY <2>1, <3>1 DEF CloseMark, TypeOK
    <3>2. CASE GcSweep(o)
      BY <2>1, <3>2 DEF GcSweep, GcClosed
    <3>3. QED
      BY <1>1, <3>1, <3>2
  <2>5. QED
    BY <2>3, <2>4 DEF CloseWith, CloseAs, SetLinger, NoHandle, Socket
<1>2. Native /\ [Next]_vars
        => \A o \in Obj : ptr[o] # NULL /\ (CloseMark(o) \/ GcSweep(o))
             => \/ h'[ptr[o]].st = "free"
                \/ h[ptr[o]].ctx \in HostCtx \cap ended
  BY <1>1
<1>3. QED
  BY <1>2, NativeInvariant, PTL DEF Spec, DropsUnlessEnded

(* What zmq_ctx_term waits for is closed and lingers with a bound, so that *)
(* the I/O threads of libzmq let it go: the safety half of CloseReturns    *)
(* and SwapReturns, and with the host's own call of HostTermReturns.       *)
Expires(x) == h[x].st \in {"closing", "ending"} /\ h[x].linger = "bounded"

TermCanReturn ==
  /\ \A v \in VM : Waits(v) /\ reg[v] = v /\ ~Stuck(v)
       => \A x \in SocketsOn(v) : Expires(x)
  /\ \A c \in HostCtx : (\A v \in VM : pc[v] \in {"unborn", "closed"}) /\ ~Stuck(c)
       => \A x \in SocketsOn(c) : Expires(x)

THEOREM NothingHoldsTerm == Spec => []TermCanReturn
<1>1. ASSUME Native, NEW x \in Handle, InUse(x), ~Stuck(h[x].ctx), h[x].st # "open"
      PROVE  Expires(x)
  <2>1. h[x].st \in {"closing", "ending"} /\ h[x].linger \in Linger
    <3>1. h[x] \in HandleState
      BY <1>1 DEF Native, TypeInv, TypeOK
    <3>2. QED
      BY <1>1, <3>1 DEF HandleState, InUse
  <2>2. h[x].linger \in {"forever", "bounded"}
    BY <1>1, <2>1 DEF Native, NativeInv, NativeGood, Linger
  <2>3. h[x].linger # "forever"
    BY <1>1, <2>1 DEF Native, NativeInv, NativeGood, Stuck
  <2>4. QED
    BY <2>1, <2>2, <2>3 DEF Expires
<1>2. ASSUME Native, NEW v \in VM, Waits(v), ~Stuck(v),
             NEW x \in Handle, InUse(x), h[x].ctx = v
      PROVE  Expires(x)
  <2>1. ASSUME NEW o \in Obj, ptr[o] = x PROVE FALSE
    <3>1. HeapOf[o] = v /\ obj[o] = "dead"
      BY <1>2, <2>1, ConstantsAssumption DEF Native, NativeInv, SlotGood
    <3>2. QED
      BY <1>2, <2>1, <3>1 DEF Stuck
  <2>2. h[x].st # "open"
    BY <1>2, <2>1 DEF Native, OneHolder
  <2>3. QED
    BY <1>1, <1>2, <2>2
<1>3. ASSUME Native, \A v \in VM : pc[v] \in {"unborn", "closed"}, NEW c \in HostCtx,
             ~Stuck(c), NEW x \in Handle, InUse(x), h[x].ctx = c
      PROVE  Expires(x)
  <2>1. ASSUME NEW o \in Obj PROVE ptr[o] = NULL
    <3>1. SlotGood(o) /\ HeapOf[o] \in VM
      BY <1>3, ConstantsAssumption DEF Native, NativeInv
    <3>2. QED
      BY <1>3, <3>1 DEF SlotGood
  <2>2. h[x].st # "open"
    BY <1>3, <2>1, ConstantsAssumption DEF Native, OneHolder
  <2>3. QED
    BY <1>1, <1>3, <2>2
<1>4. Native => TermCanReturn
  BY <1>2, <1>3 DEF TermCanReturn, SocketsOn
<1>5. QED
  BY <1>4, NativeInvariant, PTL

(* Every open socket belongs to an mrb_state that has begun and is not     *)
(* closed yet, through exactly one object on its heap, and is on the own   *)
(* context of that mrb_state or on one of the host: mrb_close leaves no    *)
(* socket open, and no mrb_state gets a socket on the context of another.  *)
OpenSocketsOwned ==
  \A x \in Handle : h[x].st = "open" =>
    \E o \in Obj :
      /\ ptr[o] = x /\ \A p \in Obj : ptr[p] = x => p = o
      /\ pc[HeapOf[o]] \notin {"unborn", "closed"}
      /\ h[x].ctx \in HostCtx \cup {HeapOf[o]}

THEOREM ClosedLeavesNoSocket == Spec => []OpenSocketsOwned
<1>1. ASSUME Native, NEW x \in Handle, h[x].st = "open"
      PROVE  \E o \in Obj :
               /\ ptr[o] = x /\ \A p \in Obj : ptr[p] = x => p = o
               /\ pc[HeapOf[o]] \notin {"unborn", "closed"}
               /\ h[x].ctx \in HostCtx \cup {HeapOf[o]}
  <2>1. PICK o \in Obj : ptr[o] = x
    BY <1>1 DEF Native, OneHolder
  <2>2. ptr[o] # NULL /\ SlotGood(o)
    BY <1>1, <2>1, ConstantsAssumption DEF Native, NativeInv
  <2>3. \A p \in Obj : ptr[p] = x => p = o
    BY <1>1, <2>1, <2>2 DEF Native, OneHolder
  <2>4. QED
    BY <2>1, <2>2, <2>3 DEF SlotGood
<1>2. Native => OpenSocketsOwned
  BY <1>1 DEF OpenSocketsOwned
<1>3. QED
  BY <1>2, NativeInvariant, PTL
=============================================================================
