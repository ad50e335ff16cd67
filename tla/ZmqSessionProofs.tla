-------------------------- MODULE ZmqSessionProofs --------------------------
(* What the promise of ZmqSession comes to, for every set of mrb_states.   *)
EXTENDS ZmqSession, TLAPS

SessionInv == TypeOK /\ Exclusive /\ NothingHeldOutside

(* Whatever v takes from what nobody holds keeps the holdings apart.       *)
LEMMA TakingKeepsApart ==
  ASSUME TypeOK, Exclusive, NEW v \in VM, Take(v) \/ Give(v)
  PROVE  Exclusive' /\ held' \in [VM -> SUBSET Handle]
<1>1. PICK S \in SUBSET (held[v] \cup Fresh) : held' = [held EXCEPT ![v] = S]
  <2>1. CASE Take(v)
    <3>1. PICK x \in Fresh : held' = [held EXCEPT ![v] = @ \cup {x}]
      BY <2>1 DEF Take
    <3>2. held[v] \cup {x} \in SUBSET (held[v] \cup Fresh)
      OBVIOUS
    <3> QED
      BY <3>1, <3>2
  <2> QED
    BY <2>1 DEF Give
<1>2. S \subseteq Handle
  BY DEF TypeOK, Fresh
<1>3. ASSUME NEW w \in VM, w # v PROVE S \cap held[w] = {}
  BY <1>3 DEF Exclusive, Fresh
<1> QED
  BY <1>1, <1>2, <1>3 DEF TypeOK, Exclusive

LEMMA SessionStep == SessionInv /\ [Next]_vars => SessionInv'
<1> SUFFICES ASSUME SessionInv, [Next]_vars PROVE SessionInv'
  OBVIOUS
<1> USE DEF SessionInv
<1>1. ASSUME NEW v \in VM, Step(v) PROVE SessionInv'
  <2>1. PICK m \in Mode : mode' = [mode EXCEPT ![v] = m]
    BY <1>1 DEF Step, Open, NewSocket, CloseSockets, BeginMove, EndMove, BeginLeave, EndLeave,
       Become, TypeOK, Mode
  <2>2. Exclusive' /\ held' \in [VM -> SUBSET Handle]
    <3>1. CASE Take(v) \/ Give(v)
      BY <3>1, TakingKeepsApart
    <3>2. CASE EndLeave(v)
      BY <3>2 DEF EndLeave, TypeOK, Exclusive
    <3>3. CASE UNCHANGED held
      BY <3>3 DEF TypeOK, Exclusive
    <3> QED
      BY <1>1, <3>1, <3>2, <3>3 DEF Step, Open, NewSocket, CloseSockets, BeginMove,
         EndMove, BeginLeave, TakeForLogger
  <2>3. TypeOK'
    BY <2>1, <2>2 DEF TypeOK
  <2>4. NothingHeldOutside'
    <3>1. ASSUME NEW w \in VM, w # v PROVE mode'[w] = mode[w] /\ held'[w] = held[w]
      BY <1>1, <2>1, <3>1 DEF Step, Open, NewSocket, CloseSockets, BeginMove, EndMove, BeginLeave,
         EndLeave, TakeForLogger, Take, Give, TypeOK
    <3>2. mode'[v] \in {"new", "gone"} => held'[v] = {}
      BY <1>1 DEF Step, Open, NewSocket, CloseSockets, BeginMove, EndMove, BeginLeave, EndLeave,
         Become, TypeOK
    <3> QED
      BY <3>1, <3>2 DEF NothingHeldOutside
  <2> QED
    BY <2>2, <2>3, <2>4
<1>2. CASE UNCHANGED vars
  BY <1>2 DEF vars, TypeOK, Exclusive, NothingHeldOutside
<1> QED
  BY <1>1, <1>2 DEF Next

(* No native socket is ever shared by two mrb_states, and one that is not  *)
(* open yet, or is closed, holds none.                                     *)
THEOREM SessionPromise == Spec => [](Exclusive /\ NothingHeldOutside)
<1>1. Init => SessionInv
  BY DEF Init, SessionInv, TypeOK, Exclusive, NothingHeldOutside, Mode
<1>2. SessionInv => Exclusive /\ NothingHeldOutside
  BY DEF SessionInv
<1> QED
  BY <1>1, <1>2, SessionStep, PTL DEF Spec
=============================================================================
