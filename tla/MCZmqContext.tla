---------------------------- MODULE MCZmqContext ----------------------------
(* Instances of ZmqContext for TLC.                                        *)
EXTENDS ZmqContext, TLC

CONSTANTS v1, v2, o1, o2, o3, h2

(* One VM with all the slots, and two VMs that share a host's context.     *)
HeapOne == [o \in Obj |-> v1]
HeapTwo == [o \in Obj |-> IF o = o1 THEN v1 ELSE v2]

HandleSymmetry == Permutations(Handle)

(* Bounds of the larger instances: the collector stays on, and with two    *)
(* VMs no signal arrives.  The instance ctx_one has both.                  *)
CollectorOn == \A v \in VM : gcOn[v]
Undisturbed == CollectorOn /\ interrupted = {}

(* One context of the host with everything that may happen; a second one   *)
(* only without signals, dangling contexts and turns of the collector.     *)
SecondIfQuiet ==
  \/ ctx[h2] = "none"
  \/ Undisturbed /\ dangling = {} /\ \A o \in Obj : obj[o] # "dead"
=============================================================================
