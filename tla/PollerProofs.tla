---------------------------- MODULE PollerProofs ----------------------------
(* Theorems about Poller, for every set of objects and every array length. *)
EXTENDS Poller, TLAPS

(* Why the raw pointers are safe: an item stands under the socket its      *)
(* object stands for, the collector frees an object no sooner than what    *)
(* refers to it, and what the program refers to is not freed.              *)
ItemsOwn   == /\ \A t \in Registered : Polled[items[t]] = t
              /\ unpinned \subseteq Registered
HeapClosed == /\ roots \cap freed = {}
              /\ \A o \in Obj \ freed : Polled[o] \notin freed

(* What is still to be yielded is registered or was removed meanwhile.     *)
EventsOwn  == /\ events \ removed \subseteq UserData
              /\ turn # "none" \/ events = {}

(* The array keeps nothing alive that is not registered, but for aliases.  *)
PinsAreRegistered == Pinned \ UserData \subseteq aliased

PollInv == /\ TypeOK /\ ItemsOwn /\ HeapClosed /\ EventsOwn
           /\ Backed /\ PinsAreRegistered

LEMMA PollInit == Init => PollInv
<1> SUFFICES ASSUME Init PROVE PollInv
  OBVIOUS
<1>1. TypeOK
  BY PollerAssumption DEF Init, TypeOK
<1>2. Registered = {} /\ Pinned = {}
  BY DEF Init, Registered, Pinned
<1>3. ItemsOwn /\ Backed /\ PinsAreRegistered
  BY <1>2 DEF Init, ItemsOwn, Backed, PinsAreRegistered, UserData
<1>4. HeapClosed /\ EventsOwn
  BY PollerAssumption DEF Init, HeapClosed, EventsOwn
<1>5. QED
  BY <1>1, <1>3, <1>4 DEF PollInv

(* What is reachable is closed under the reference to a socket.            *)
LEMMA ReachableClosed ==
  ASSUME TypeOK
  PROVE  /\ roots \cup Pinned \subseteq Reachable
         /\ \A o \in Reachable : Polled[o] \in Reachable
<1> DEFINE direct == roots \cup Pinned
<1>1. direct \subseteq Obj
  BY DEF TypeOK, Pinned
<1>2. Reachable = direct \cup {Polled[o] : o \in direct}
  BY DEF Reachable
<1>3. \A o \in direct : Polled[Polled[o]] = Polled[o]
  BY <1>1, PollerAssumption
<1>4. QED
  BY <1>2, <1>3

(* What the program can name is not freed.                                 *)
LEMMA KnownLives ==
  ASSUME TypeOK, HeapClosed
  PROVE  Known \subseteq Obj \ freed
<1>1. \A o \in roots : o \in Obj \ freed /\ Polled[o] \in Obj \ freed
  BY PollerAssumption DEF TypeOK, HeapClosed
<1>2. QED
  BY <1>1 DEF Known

LEMMA PollStep == PollInv /\ [Next]_vars => PollInv'
<1> SUFFICES ASSUME PollInv, [Next]_vars PROVE PollInv'
  OBVIOUS
<1> USE PollerAssumption
    DEF PollInv, TypeOK, ItemsOwn, HeapClosed, EventsOwn, Backed, PinsAreRegistered,
        Registered, UserData, Pinned, Target,
        pollVars, itemVars, heapVars, waitVars
<1>1. ASSUME NEW o \in Obj, NEW quiet \in BOOLEAN,
             Add(o, quiet) \/ AddNoMemory(o, quiet) \/ Modify(o, quiet)
      PROVE  PollInv'
  <2>1. CASE Add(o, quiet)
    BY <2>1, KnownLives DEF Add, Register, Names, Resolves
  <2>2. CASE AddNoMemory(o, quiet)
    BY <2>2 DEF AddNoMemory, Register, Names, Resolves
  <2>3. CASE Modify(o, quiet)
    BY <2>3 DEF Modify
  <2>4. QED
    BY <1>1, <2>1, <2>2, <2>3
<1>2. ASSUME NEW o \in Obj, Remove(o) PROVE PollInv'
  BY <1>2 DEF Remove, Unregister, Names, Resolves, ProgramRuns
<1>3. ASSUME NEW o \in Obj, Close(o) PROVE PollInv'
  BY <1>3 DEF Close
<1>4. ASSUME NEW o \in Obj, Keep(o) \/ Drop(o) PROVE PollInv'
  <2>1. CASE Keep(o)
    BY <2>1, KnownLives DEF Keep
  <2>2. CASE Drop(o)
    BY <2>2 DEF Drop
  <2>3. QED
    BY <1>4, <2>1, <2>2
<1>5. CASE Collect
  <2>1. UNCHANGED <<items, muted, unpinned, pins, roots, events, removed, aliased>>
    BY <1>5 DEF Collect
  <2>2. freed' = Obj \ Reachable /\ closed' = closed \cup (Target \ Reachable)
    BY <1>5 DEF Collect
  <2>3. \A t \in Registered \ unpinned : items[t] \in Reachable /\ t \in Reachable
    BY ReachableClosed
  <2>4. Backed'
    BY <2>1, <2>2, <2>3
  <2>5. HeapClosed'
    BY <2>1, <2>2, ReachableClosed
  <2>6. QED
    BY <1>5, <2>1, <2>2, <2>4, <2>5 DEF Collect
<1>6. ASSUME NEW t \in Target, WaitOne(t) PROVE PollInv'
  BY <1>6 DEF WaitOne
<1>7. ASSUME NEW T \in SUBSET Target, WaitAll(T) PROVE PollInv'
  BY <1>7 DEF WaitAll
<1>8. ASSUME NEW o \in Obj, Yield(o) PROVE PollInv'
  BY <1>8 DEF Yield
<1>9. CASE WaitEnds
  <2>1. UNCHANGED <<items, muted, unpinned, pins, roots, freed, closed, aliased>>
    BY <1>9 DEF WaitEnds
  <2>2. turn' = "none" /\ events' = {} /\ removed' = {}
    BY <1>9 DEF WaitEnds
  <2>3. TypeOK'
    BY <2>1, <2>2
  <2>4. EventsOwn'
    BY <2>2
  <2>5. ItemsOwn' /\ HeapClosed' /\ Backed' /\ PinsAreRegistered'
    BY <2>1
  <2>6. QED
    BY <2>3, <2>4, <2>5
<1>10. CASE UNCHANGED vars
  BY <1>10 DEF vars
<1>11. QED
  BY <1>1, <1>2, <1>3, <1>4, <1>5, <1>6, <1>7, <1>8, <1>9, <1>10 DEF Next

LEMMA PollInvariant == Spec => []PollInv
BY PollInit, PollStep, PTL DEF Spec

(* What the native poller points at is never collected.                    *)
THEOREM RawPointersBacked == Spec => []Backed
<1>1. PollInv => Backed
  BY DEF PollInv
<1>2. QED
  BY <1>1, PollInvariant, PTL

(* Only an object removed during the same wait can be yielded freed.       *)
THEOREM YieldsAreLive == Spec => []YieldsLiveObjects
<1>1. PollInv => YieldsLiveObjects
  BY DEF PollInv, EventsOwn, Backed, UserData, YieldsLiveObjects
<1>2. QED
  BY <1>1, PollInvariant, PTL

(* Only an item removed by way of another object leaves one pinned.        *)
THEOREM NothingElsePinned == Spec => []PinsAreRegistered
<1>1. PollInv => PinsAreRegistered
  BY DEF PollInv
<1>2. QED
  BY <1>1, PollInvariant, PTL

(* Every variable keeps its type.                                          *)
THEOREM PollerTyped == Spec => []TypeOK
<1>1. PollInv => TypeOK
  BY DEF PollInv
<1>2. QED
  BY <1>1, PollInvariant, PTL

-----------------------------------------------------------------------------
LEMMA ArrayStep == PollInv /\ ArrayExact /\ [Next]_vars => ArrayExact'
<1> SUFFICES ASSUME PollInv, ArrayExact, [Next]_vars PROVE ArrayExact'
  OBVIOUS
<1>0. TypeOK /\ ItemsOwn
  BY DEF PollInv
<1> USE PollerAssumption DEF ArrayExact, Registered
<1>1. ASSUME UNCHANGED <<items, unpinned, pins, aliased>> PROVE ArrayExact'
  BY <1>1
<1>2. ASSUME NEW o \in Obj, NEW quiet \in BOOLEAN,
             Add(o, quiet) \/ AddNoMemory(o, quiet)
      PROVE  ArrayExact'
  <2>1. /\ items[Polled[o]] = NONE /\ items' = [items EXCEPT ![Polled[o]] = o]
        /\ Polled[o] \in Target /\ UNCHANGED aliased
    BY <1>2 DEF Add, AddNoMemory, Register, Target
  <2>2. \A t \in Registered : items[t] # o
    BY <1>0, <2>1 DEF ItemsOwn, TypeOK
  <2>3. \A p \in Obj \ {o}, t \in Target :
          t \in Registered' /\ items'[t] = p <=> t \in Registered /\ items[t] = p
    BY <1>0, <2>1 DEF TypeOK
  <2>4. Polled[o] \in Registered' /\ items'[Polled[o]] = o
    BY <1>0, <2>1 DEF TypeOK
  <2>5. CASE Add(o, quiet)
    <3>1. pins' = [pins EXCEPT ![o] = @ + 1] /\ unpinned' = unpinned
      BY <2>5 DEF Add
    <3>2. Polled[o] \notin unpinned
      BY <1>0, <2>1 DEF ItemsOwn
    <3>3. o \notin aliased => pins[o] = 0
      BY <2>2
    <3>4. QED
      BY <1>0, <2>1, <2>3, <2>4, <3>1, <3>2, <3>3 DEF TypeOK
  <2>6. CASE AddNoMemory(o, quiet)
    <3>1. pins' = pins /\ unpinned' = unpinned \cup {Polled[o]}
      BY <2>6 DEF AddNoMemory
    <3>2. \A t \in Registered' \ unpinned' : items'[t] = items[t] /\ t \in Registered \ unpinned
      BY <1>0, <2>1, <3>1 DEF TypeOK
    <3>3. \A t \in Registered \ unpinned : t \in Registered' \ unpinned' /\ items'[t] = items[t]
      BY <1>0, <2>1, <3>1 DEF TypeOK
    <3>4. QED
      BY <2>1, <3>1, <3>2, <3>3
  <2>7. QED
    BY <1>2, <2>5, <2>6
<1>3. ASSUME NEW o \in Obj, Remove(o) PROVE ArrayExact'
  <2> DEFINE p == Polled[o]
             data == items[p]
  <2>1. /\ data # NONE /\ items' = [items EXCEPT ![p] = NONE] /\ p \in Target
        /\ unpinned' = unpinned \ {p} /\ pins' = [pins EXCEPT ![o] = 0]
        /\ aliased' = IF data # o THEN aliased \cup {data} ELSE aliased \ {o}
    BY <1>3 DEF Remove, Unregister, Target
  <2>2. Registered' \ unpinned' = (Registered \ unpinned) \ {p}
    BY <1>0, <2>1 DEF TypeOK
  <2>3. \A t \in Registered' : items'[t] = items[t] /\ items[t] # o
    BY <1>0, <2>1, <2>2 DEF TypeOK, ItemsOwn
  <2>4. pins'[o] = 0 /\ \A q \in Obj \ {o} : pins'[q] = pins[q]
    BY <1>0, <2>1 DEF TypeOK
  <2>5. ASSUME NEW q \in Obj \ aliased', q # o
        PROVE  pins[q] = IF \E t \in Registered' \ unpinned' : items[t] = q THEN 1 ELSE 0
    <3>1. q \in Obj \ aliased /\ q # data
      BY <2>1, <2>5
    <3>2. QED
      BY <2>2, <3>1
  <2>6. ASSUME NEW q \in Obj \ aliased'
        PROVE  pins'[q] = IF \E t \in Registered' \ unpinned' : items'[t] = q THEN 1 ELSE 0
    BY <2>3, <2>4, <2>5
  <2>7. QED
    BY <2>6
<1>4. ASSUME NEW o \in Obj, NEW quiet \in BOOLEAN, Modify(o, quiet) PROVE ArrayExact'
  BY <1>1, <1>4 DEF Modify
<1>5. ASSUME NEW o \in Obj, Close(o) \/ Keep(o) \/ Drop(o) \/ Yield(o) PROVE ArrayExact'
  BY <1>1, <1>5 DEF Close, Keep, Drop, Yield, pollVars, itemVars
<1>6. ASSUME \/ \E t \in Target : WaitOne(t)
             \/ \E T \in SUBSET Target : WaitAll(T)
             \/ Collect \/ WaitEnds \/ UNCHANGED vars
      PROVE  ArrayExact'
  BY <1>1, <1>6 DEF WaitOne, WaitAll, Collect, WaitEnds, vars, pollVars, itemVars
<1>7. QED
  BY <1>2, <1>3, <1>4, <1>5, <1>6 DEF Next

(* The array counts the items, for any number of objects and items.        *)
THEOREM ArrayCountsItems == Spec => []ArrayExact
<1>1. Init => ArrayExact
  BY PollerAssumption DEF Init, ArrayExact, Registered
<1>2. QED
  BY <1>1, ArrayStep, PollInvariant, PTL DEF Spec

(* What the collector has freed stays freed: nothing that can be reached,  *)
(* and nothing that wait hands out, is a freed object brought back.        *)
FreedStaysFreed == [][freed \subseteq freed']_vars

(* The array is never left with an object that was freed.                  *)
PinsAlive == Pinned \cap freed = {}

LEMMA PinsStep == PollInv /\ PinsAlive /\ [Next]_vars => PinsAlive' /\ freed \subseteq freed'
<1> SUFFICES ASSUME PollInv, PinsAlive, [Next]_vars
             PROVE  PinsAlive' /\ freed \subseteq freed'
  OBVIOUS
<1> USE DEF PollInv, TypeOK, HeapClosed, PinsAlive, Pinned
<1>1. ASSUME UNCHANGED <<pins, freed>> PROVE PinsAlive' /\ freed \subseteq freed'
  BY <1>1
<1>2. ASSUME NEW o \in Obj, NEW quiet \in BOOLEAN, Add(o, quiet)
      PROVE  PinsAlive' /\ freed \subseteq freed'
  BY <1>2, KnownLives DEF Add, Register, Names, heapVars
<1>3. ASSUME NEW o \in Obj, Remove(o) PROVE PinsAlive' /\ freed \subseteq freed'
  BY <1>3 DEF Remove, Unregister, heapVars
<1>4. CASE Collect
  <2>1. freed' = Obj \ Reachable /\ pins' = pins
    BY <1>4 DEF Collect, pollVars
  <2>2. roots \cup Pinned \subseteq Reachable
    BY ReachableClosed
  <2>3. Reachable \cap freed = {}
    BY DEF Reachable
  <2>4. QED
    BY <2>1, <2>2, <2>3
<1>5. ASSUME NEW o \in Obj, NEW quiet \in BOOLEAN,
             AddNoMemory(o, quiet) \/ Modify(o, quiet)
      PROVE  PinsAlive' /\ freed \subseteq freed'
  BY <1>1, <1>5 DEF AddNoMemory, Register, Modify, heapVars
<1>6. ASSUME NEW o \in Obj, Close(o) \/ Keep(o) \/ Drop(o) \/ Yield(o)
      PROVE  PinsAlive' /\ freed \subseteq freed'
  BY <1>1, <1>6 DEF Close, Keep, Drop, Yield, pollVars
<1>7. ASSUME \/ \E t \in Target : WaitOne(t)
             \/ \E T \in SUBSET Target : WaitAll(T)
             \/ WaitEnds \/ UNCHANGED vars
      PROVE  PinsAlive' /\ freed \subseteq freed'
  BY <1>1, <1>7 DEF WaitOne, WaitAll, WaitEnds, vars, pollVars, heapVars
<1>8. QED
  BY <1>2, <1>3, <1>4, <1>5, <1>6, <1>7 DEF Next

(* Nothing freed comes back.                                               *)
THEOREM NothingComesBack == Spec => FreedStaysFreed
<1>1. Init => PinsAlive
  BY DEF Init, PinsAlive
<1>2. PollInv /\ PinsAlive /\ [Next]_vars => [freed \subseteq freed']_vars
  BY PinsStep
<1>3. QED
  BY <1>1, <1>2, PinsStep, PollInvariant, PTL DEF Spec, FreedStaysFreed
=============================================================================
