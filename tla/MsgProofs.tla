------------------------------ MODULE MsgProofs ------------------------------
(* Theorems about Msg, for any finite set of objects and any contents.     *)
EXTENDS Msg, FiniteSetTheorems, TLAPS

MsgInv ==
  /\ TypeOK /\ RefsExact
  /\ \A m \in held : box[m] # "none"

LEMMA UsersFinite ==
  ASSUME NEW c PROVE IsFiniteSet(Users(c)) /\ Cardinality(Users(c)) \in Nat
<1>1. Users(c) \subseteq Object
  BY DEF Users
<1>2. QED
  BY <1>1, MsgAssumption, FS_Subset, FS_CardinalityType

(* Somebody who has a content is counted, a free one has no user.          *)
LEMMA Counted ==
  ASSUME TypeOK, RefsExact, NEW c \in Content
  PROVE  /\ \A m \in Object : box[m] = c => refs[c] > 0
         /\ refs[c] = 0 => Users(c) = {} /\ wire[c] = 0 /\ lost[c] = 0
<1>1. refs[c] = Cardinality(Users(c)) + wire[c] + lost[c]
  BY DEF RefsExact
<1>2. Cardinality(Users(c)) \in Nat /\ wire[c] \in Nat /\ lost[c] \in Nat
  BY UsersFinite DEF TypeOK
<1>3. Users(c) # {} => Cardinality(Users(c)) # 0
  BY UsersFinite, FS_EmptySet
<1>4. \A m \in Object : box[m] = c => m \in Users(c)
  BY DEF Users
<1>5. Users(c) # {} => refs[c] > 0
  BY <1>1, <1>2, <1>3
<1>6. refs[c] = 0 => Cardinality(Users(c)) = 0 /\ wire[c] = 0 /\ lost[c] = 0
  BY <1>1, <1>2
<1>7. QED
  BY <1>3, <1>4, <1>5, <1>6

(* A set of Msgs when one of them gains or loses its zmq_msg_t.            *)
LEMMA OneUserChanges ==
  ASSUME NEW U, IsFiniteSet(U), NEW m, Cardinality(U) \in Nat
  PROVE  /\ Cardinality(U \cup {m}) = Cardinality(U) + (IF m \in U THEN 0 ELSE 1)
         /\ Cardinality(U \ {m}) = Cardinality(U) - (IF m \in U THEN 1 ELSE 0)
<1>1. Cardinality(U \cup {m}) = IF m \in U THEN Cardinality(U) ELSE Cardinality(U) + 1
  BY FS_AddElement
<1>2. Cardinality(U \ {m}) = IF m \in U THEN Cardinality(U) - 1 ELSE Cardinality(U)
  BY FS_RemoveElement
<1>3. QED
  BY <1>1, <1>2

(* Every step but FrameGone and Drop gives one Msg another zmq_msg_t; for  *)
(* RefsExact it is arithmetic on each content.                             *)
LEMMA StepKeepsCount ==
  ASSUME MsgInv, TypeOK', NEW m \in Object, NEW b \in Boxes,
         box' = [box EXCEPT ![m] = b],
         \A c \in Content :
           refs'[c] = refs[c] + (IF b = c THEN 1 ELSE 0)
                              - (IF box[m] = c THEN 1 ELSE 0)
                              + (wire'[c] - wire[c]) + (lost'[c] - lost[c]),
         held' \subseteq held \cup {m}, m \in held' => b # "none"
  PROVE  MsgInv'
<1>0. TypeOK
  BY DEF MsgInv
<1>a. \A n \in held' : box'[n] # "none"
  BY <1>0 DEF MsgInv, TypeOK
<1> SUFFICES ASSUME NEW c \in Content
             PROVE  refs'[c] = Cardinality(Users(c)') + wire'[c] + lost'[c]
  BY <1>a DEF RefsExact, MsgInv
<1>1. /\ refs[c] \in Nat /\ wire[c] \in Nat /\ lost[c] \in Nat
      /\ refs'[c] \in Nat /\ wire'[c] \in Nat /\ lost'[c] \in Nat
  BY <1>0 DEF TypeOK
<1>2. Cardinality(Users(c)) \in Nat
  BY UsersFinite
<1>3. refs[c] = Cardinality(Users(c)) + wire[c] + lost[c]
  BY DEF MsgInv, RefsExact
<1>4. Cardinality(Users(c)') = Cardinality(Users(c))
           + (IF b = c THEN 1 ELSE 0) - (IF box[m] = c THEN 1 ELSE 0)
  <2> DEFINE U == Users(c)
  <2>1. Users(c)' = IF b = c THEN U \cup {m} ELSE U \ {m}
    BY <1>0 DEF Users, TypeOK
  <2>2. m \in U <=> box[m] = c
    BY DEF Users
  <2>3. IsFiniteSet(U)
    BY UsersFinite
  <2> HIDE DEF U
  <2>4. /\ Cardinality(U \cup {m}) = Cardinality(U) + (IF m \in U THEN 0 ELSE 1)
        /\ Cardinality(U \ {m}) = Cardinality(U) - (IF m \in U THEN 1 ELSE 0)
    BY <1>2, <2>3, OneUserChanges DEF U
  <2>5. Cardinality(U) \in Nat
    BY <1>2 DEF U
  <2>6. Cardinality(Users(c)') = Cardinality(U)
           + (IF b = c THEN 1 ELSE 0) - (IF box[m] = c THEN 1 ELSE 0)
    BY <2>1, <2>2, <2>4, <2>5
  <2>7. QED
    BY <2>6 DEF U
<1>5. QED
  BY <1>1, <1>2, <1>3, <1>4

LEMMA MsgInit == Init => MsgInv
<1> SUFFICES ASSUME Init PROVE MsgInv
  OBVIOUS
<1>1. TypeOK
  BY DEF Init, TypeOK, Boxes
<1>2. ASSUME NEW c \in Content
      PROVE  refs[c] = Cardinality(Users(c)) + wire[c] + lost[c]
  <2>1. Users(c) = {}
    BY MsgAssumption DEF Init, Users
  <2>2. Cardinality(Users(c)) = 0
    BY <2>1, FS_EmptySet
  <2>3. refs[c] = 0 /\ wire[c] = 0 /\ lost[c] = 0
    BY DEF Init
  <2>4. QED
    BY <2>2, <2>3
<1>3. QED
  BY <1>1, <1>2 DEF MsgInv, RefsExact, Init

(* Writing over a zmq_msg_t.                                               *)
LEMMA BoxTyped ==
  ASSUME TypeOK, NEW m \in Object, NEW b \in Boxes, Box(m, b)
  PROVE  /\ box' = [box EXCEPT ![m] = b] /\ box' \in [Object -> Boxes]
         /\ held' = held \cup {m} /\ held' \subseteq Object
         /\ lost' \in [Content -> Nat]
         /\ \A c \in Content : lost'[c] = lost[c] + (IF box[m] = c THEN 1 ELSE 0)
BY DEF Box, Plus, TypeOK

LEMMA NewKeeps ==
  ASSUME MsgInv, NEW m \in Object, NEW c \in Content, NEW v \in Value, New(m, c, v)
  PROVE  MsgInv'
<1>0. TypeOK /\ c \in Boxes /\ c # "none"
  BY MsgAssumption DEF MsgInv, Boxes
<1>1. /\ box' = [box EXCEPT ![m] = c] /\ box' \in [Object -> Boxes]
      /\ held' = held \cup {m} /\ held' \subseteq Object
      /\ lost' \in [Content -> Nat]
      /\ \A d \in Content : lost'[d] = lost[d] + (IF box[m] = d THEN 1 ELSE 0)
  BY <1>0, BoxTyped DEF New, Box
<1>2. TypeOK'
  BY <1>0, <1>1 DEF New, Allocate, TypeOK
<1>3. ASSUME NEW d \in Content
      PROVE  refs'[d] = refs[d] + (IF c = d THEN 1 ELSE 0)
                          - (IF box[m] = d THEN 1 ELSE 0)
                          + (wire'[d] - wire[d]) + (lost'[d] - lost[d])
  <2>1. refs'[d] = refs[d] + (IF c = d THEN 1 ELSE 0) /\ wire' = wire
    BY <1>0 DEF New, Allocate, TypeOK
  <2>2. refs[d] \in Nat /\ wire[d] \in Nat /\ lost[d] \in Nat
    BY <1>0 DEF TypeOK
  <2>3. lost'[d] = lost[d] + (IF box[m] = d THEN 1 ELSE 0)
    BY <1>1
  <2>4. QED
    BY <2>1, <2>2, <2>3
<1>4. QED
  BY <1>0, <1>1, <1>2, <1>3, StepKeepsCount

(* NewEmpty, NewNoMemory and CopyRaises: no content of its own.            *)
LEMMA BlankKeeps ==
  ASSUME MsgInv, NEW m \in Object, NEW b \in {"empty", "raw"},
         Box(m, b), UNCHANGED <<refs, data, wire>>
  PROVE  MsgInv'
<1>0. TypeOK /\ b \in Boxes /\ b # "none"
  BY DEF MsgInv, Boxes
<1>1. /\ box' = [box EXCEPT ![m] = b] /\ box' \in [Object -> Boxes]
      /\ held' = held \cup {m} /\ held' \subseteq Object
      /\ lost' \in [Content -> Nat]
      /\ \A d \in Content : lost'[d] = lost[d] + (IF box[m] = d THEN 1 ELSE 0)
  BY <1>0, BoxTyped DEF Box
<1>2. TypeOK'
  BY <1>0, <1>1 DEF TypeOK
<1>3. ASSUME NEW d \in Content
      PROVE  refs'[d] = refs[d] + (IF b = d THEN 1 ELSE 0)
                          - (IF box[m] = d THEN 1 ELSE 0)
                          + (wire'[d] - wire[d]) + (lost'[d] - lost[d])
  <2>1. b # d /\ refs' = refs /\ wire' = wire
    BY MsgAssumption
  <2>2. refs[d] \in Nat /\ wire[d] \in Nat /\ lost[d] \in Nat
    BY <1>0 DEF TypeOK
  <2>3. lost'[d] = lost[d] + (IF box[m] = d THEN 1 ELSE 0)
    BY <1>1
  <2>4. QED
    BY <2>1, <2>2, <2>3
<1>4. box' = [box EXCEPT ![m] = b] /\ held' \subseteq held \cup {m}
  BY <1>1
<1>5. QED
  BY <1>0, <1>2, <1>3, <1>4, StepKeepsCount, Zenon

LEMMA CopyKeeps ==
  ASSUME MsgInv, NEW m \in Object, NEW s \in Object, Copy(m, s)
  PROVE  MsgInv'
<1> DEFINE b == box[s]
<1>0. TypeOK /\ b \in Boxes /\ b # "none"
  BY DEF MsgInv, TypeOK, Copy
<1>1. /\ box' = [box EXCEPT ![m] = b] /\ box' \in [Object -> Boxes]
      /\ held' = held \cup {m} /\ held' \subseteq Object
      /\ lost' \in [Content -> Nat]
      /\ \A d \in Content : lost'[d] = lost[d] + (IF box[m] = d THEN 1 ELSE 0)
  BY <1>0 DEF Copy, Box, Plus, TypeOK
<1>2. TypeOK'
  BY <1>0, <1>1 DEF Copy, Plus, TypeOK
<1>3. ASSUME NEW d \in Content
      PROVE  refs'[d] = refs[d] + (IF b = d THEN 1 ELSE 0)
                          - (IF box[m] = d THEN 1 ELSE 0)
                          + (wire'[d] - wire[d]) + (lost'[d] - lost[d])
  <2>1. refs'[d] = refs[d] + (IF b = d THEN 1 ELSE 0) /\ wire' = wire
    BY <1>0 DEF Copy, Plus, TypeOK
  <2>2. refs[d] \in Nat /\ wire[d] \in Nat /\ lost[d] \in Nat
    BY <1>0 DEF TypeOK
  <2>3. lost'[d] = lost[d] + (IF box[m] = d THEN 1 ELSE 0)
    BY <1>1
  <2>4. QED
    BY <2>1, <2>2, <2>3
<1> HIDE DEF b
<1>4. box' = [box EXCEPT ![m] = b] /\ held' \subseteq held \cup {m}
  BY <1>1
<1>5. QED
  BY <1>0, <1>2, <1>3, <1>4, StepKeepsCount, Zenon

LEMMA NewRaisesKeeps ==
  ASSUME MsgInv, NEW m \in Object, NewRaises(m)
  PROVE  MsgInv'
<1>0. TypeOK /\ "raw" \in Boxes
  BY DEF MsgInv, Boxes
<1>1. box' = [box EXCEPT ![m] = "raw"] /\ held' \subseteq held \cup {m}
  BY DEF NewRaises
<1>2. TypeOK'
  BY <1>0 DEF NewRaises, TypeOK
<1>3. ASSUME NEW d \in Content
      PROVE  refs'[d] = refs[d] + (IF "raw" = d THEN 1 ELSE 0)
                          - (IF box[m] = d THEN 1 ELSE 0)
                          + (wire'[d] - wire[d]) + (lost'[d] - lost[d])
  <2>1. "raw" # d /\ box[m] # d /\ UNCHANGED <<refs, wire, lost>>
    BY MsgAssumption DEF NewRaises
  <2>2. refs[d] \in Nat /\ wire[d] \in Nat /\ lost[d] \in Nat
    BY <1>0 DEF TypeOK
  <2>3. QED
    BY <2>1, <2>2
<1>4. QED
  BY <1>0, <1>1, <1>2, <1>3, StepKeepsCount

LEMMA SendKeeps ==
  ASSUME MsgInv, NEW m \in Object, Send(m)
  PROVE  MsgInv'
<1>0. TypeOK /\ "empty" \in Boxes
  BY DEF MsgInv, Boxes
<1>1. box' = [box EXCEPT ![m] = "empty"] /\ held' \subseteq held \cup {m}
  BY DEF Send
<1>2. TypeOK'
  BY <1>0 DEF Send, Plus, TypeOK
<1>3. ASSUME NEW d \in Content
      PROVE  refs'[d] = refs[d] + (IF "empty" = d THEN 1 ELSE 0)
                          - (IF box[m] = d THEN 1 ELSE 0)
                          + (wire'[d] - wire[d]) + (lost'[d] - lost[d])
  <2>1. /\ "empty" # d /\ refs' = refs /\ lost' = lost
        /\ wire'[d] = wire[d] + (IF box[m] = d THEN 1 ELSE 0)
    BY <1>0, MsgAssumption DEF Send, Plus, TypeOK
  <2>2. refs[d] \in Nat /\ wire[d] \in Nat /\ lost[d] \in Nat
    BY <1>0 DEF TypeOK
  <2>3. QED
    BY <2>1, <2>2
<1>4. QED
  BY <1>0, <1>1, <1>2, <1>3, StepKeepsCount

LEMMA RecvKeeps ==
  ASSUME MsgInv, NEW m \in Object, NEW c \in Content, Recv(m, c)
  PROVE  MsgInv'
<1>0. TypeOK /\ c \in Boxes /\ c # "none"
  BY MsgAssumption DEF MsgInv, Boxes
<1>1. box' = [box EXCEPT ![m] = c] /\ held' \subseteq held \cup {m}
  BY DEF Recv
<1>2. TypeOK'
  BY <1>0 DEF Recv, Allocate, Minus, TypeOK
<1>3. ASSUME NEW d \in Content
      PROVE  refs'[d] = refs[d] + (IF c = d THEN 1 ELSE 0)
                          - (IF box[m] = d THEN 1 ELSE 0)
                          + (wire'[d] - wire[d]) + (lost'[d] - lost[d])
  <2>1. refs'[d] + wire[d] = refs[d] + wire'[d] + (IF c = d THEN 1 ELSE 0)
    <3>1. CASE refs' = refs /\ wire' = Minus(wire, c)
      BY <1>0, <3>1 DEF Minus, TypeOK
    <3>2. CASE wire' = wire /\ \E v \in Value : Allocate(c, v)
      BY <1>0, <3>2 DEF Allocate, TypeOK
    <3>3. QED
      BY <3>1, <3>2 DEF Recv
  <2>2. box[m] # d /\ lost' = lost
    BY MsgAssumption DEF Recv
  <2>3. /\ refs[d] \in Nat /\ wire[d] \in Nat /\ lost[d] \in Nat
        /\ refs'[d] \in Nat /\ wire'[d] \in Nat
    BY <1>0, <1>2 DEF TypeOK
  <2>4. QED
    BY <2>1, <2>2, <2>3
<1>4. QED
  BY <1>0, <1>1, <1>2, <1>3, StepKeepsCount

(* Who closes a content was counted: the count does not pass zero.         *)
LEMMA CollectKeeps ==
  ASSUME MsgInv, NEW m \in Object, Collect(m)
  PROVE  MsgInv'
<1>0. TypeOK /\ RefsExact /\ "none" \in Boxes
  BY DEF MsgInv, Boxes
<1>1. /\ box' = [box EXCEPT ![m] = "none"] /\ held' \subseteq held \cup {m}
      /\ m \notin held'
  BY DEF Collect
<1>2. \A c \in Content : box[m] = c => refs[c] > 0
  BY <1>0, Counted
<1>3. TypeOK'
  BY <1>0, <1>2 DEF Collect, Minus, TypeOK
<1>4. ASSUME NEW d \in Content
      PROVE  refs'[d] = refs[d] + (IF "none" = d THEN 1 ELSE 0)
                          - (IF box[m] = d THEN 1 ELSE 0)
                          + (wire'[d] - wire[d]) + (lost'[d] - lost[d])
  <2>1. /\ "none" # d /\ wire' = wire /\ lost' = lost
        /\ refs'[d] = refs[d] - (IF box[m] = d THEN 1 ELSE 0)
    BY <1>0, MsgAssumption DEF Collect, Minus, TypeOK
  <2>2. refs[d] \in Nat /\ wire[d] \in Nat /\ lost[d] \in Nat
    BY <1>0 DEF TypeOK
  <2>3. QED
    BY <2>1, <2>2
<1>5. QED
  BY <1>0, <1>1, <1>3, <1>4, StepKeepsCount

LEMMA FrameGoneKeeps ==
  ASSUME MsgInv, NEW c \in Content, FrameGone(c)
  PROVE  MsgInv'
<1>0. TypeOK /\ RefsExact
  BY DEF MsgInv
<1>1. refs[c] > 0
  <2>1. refs[c] = 0 => wire[c] = 0
    BY <1>0, Counted
  <2>2. QED
    BY <1>0, <2>1 DEF FrameGone, TypeOK
<1>2. TypeOK'
  BY <1>0, <1>1 DEF FrameGone, Minus, TypeOK
<1>3. ASSUME NEW d \in Content
      PROVE  (refs[d] = Cardinality(Users(d)) + wire[d] + lost[d])'
  <2>1. refs[d] = Cardinality(Users(d)) + wire[d] + lost[d]
    BY <1>0 DEF RefsExact
  <2>2. /\ refs'[d] - wire'[d] = refs[d] - wire[d]
        /\ lost' = lost /\ Users(d)' = Users(d)
    BY <1>0 DEF FrameGone, Minus, TypeOK, Users
  <2>3. /\ refs[d] \in Nat /\ wire[d] \in Nat /\ lost[d] \in Nat
        /\ refs'[d] \in Nat /\ wire'[d] \in Nat
        /\ Cardinality(Users(d)) \in Nat
    BY <1>0, <1>2, UsersFinite DEF TypeOK
  <2>4. QED
    BY <2>1, <2>2, <2>3
<1>4. QED
  BY <1>2, <1>3 DEF FrameGone, MsgInv, RefsExact

LEMMA MsgStep ==
  ASSUME MsgInv, [Next]_vars PROVE MsgInv'
<1>1. ASSUME NEW m \in Object, NEW s \in Object,
             NewEmpty(m) \/ NewNoMemory(m) \/ CopyRaises(m, s)
      PROVE  MsgInv'
  <2>1. CASE NewEmpty(m)
    BY <2>1, BlankKeeps DEF NewEmpty
  <2>2. CASE NewNoMemory(m)
    BY <2>2, BlankKeeps DEF NewNoMemory
  <2>3. CASE CopyRaises(m, s)
    BY <2>3, BlankKeeps DEF CopyRaises
  <2>4. QED
    BY <1>1, <2>1, <2>2, <2>3
<1>2. ASSUME NEW m \in Object, Drop(m) PROVE MsgInv'
  BY <1>2 DEF Drop, MsgInv, TypeOK, RefsExact, Users
<1>3. ASSUME UNCHANGED vars PROVE MsgInv'
  BY <1>3 DEF vars, MsgInv, TypeOK, RefsExact, Users
<1>4. QED
  BY <1>1, <1>2, <1>3, NewKeeps, NewRaisesKeeps, CopyKeeps, SendKeeps,
     RecvKeeps, CollectKeeps, FrameGoneKeeps DEF Next

LEMMA MsgInvariant == Spec => []MsgInv
BY MsgInit, MsgStep, PTL DEF Spec

(* No count of libzmq falls below zero, whatever is sent and collected.    *)
THEOREM MsgTyped == Spec => []TypeOK
<1>1. MsgInv => TypeOK
  BY DEF MsgInv
<1>2. QED
  BY <1>1, MsgInvariant, PTL

(* libzmq's count of a content is right, for any number of Msgs.           *)
THEOREM ContentsCounted == Spec => []RefsExact
<1>1. MsgInv => RefsExact
  BY DEF MsgInv
<1>2. QED
  BY <1>1, MsgInvariant, PTL

-----------------------------------------------------------------------------
(* The refinement.  A step changes what one Msg says: no buffer is written *)
(* that another one has.                                                   *)
NowSays(b) == IF b \in Content THEN data'[b] ELSE b

LEMMA OneValueChanges ==
  ASSUME TypeOK, NEW m \in Object, NEW b \in Boxes,
         box' = [box EXCEPT ![m] = b],
         \A n \in Object : box[n] \in Content => data'[box[n]] = data[box[n]]
  PROVE  [n \in Object |-> ValueOf(n)]'
           = [[n \in Object |-> ValueOf(n)] EXCEPT ![m] = NowSays(b)]
BY DEF ValueOf, NowSays, TypeOK

(* Allocate writes a buffer that nobody has.                               *)
LEMMA BuffersStay ==
  ASSUME MsgInv, data' = data \/ \E c \in Content, v \in Value : Allocate(c, v)
  PROVE  \A n \in Object : box[n] \in Content => data'[box[n]] = data[box[n]]
<1>0. TypeOK /\ RefsExact
  BY DEF MsgInv
<1>1. ASSUME NEW c \in Content, NEW v \in Value, Allocate(c, v), NEW n \in Object,
             box[n] \in Content
      PROVE  data'[box[n]] = data[box[n]]
  <2>1. box[n] # c
    <3>1. box[n] = c => refs[c] > 0
      BY <1>0, Counted
    <3>2. QED
      BY <1>1, <3>1 DEF Allocate
  <2>2. QED
    BY <1>0, <1>1, <2>1 DEF Allocate, TypeOK
<1>2. QED
  BY <1>1

(* initialize and recv map to Become.                                      *)
LEMMA BecomesInValues ==
  ASSUME MsgInv, NEW m \in Object, NEW b \in Boxes,
         box[m] = "none" \/ m \in held,
         box' = [box EXCEPT ![m] = b],
         held' \in {held, held \cup {m}},
         data' = data \/ \E c \in Content, v \in Value : Allocate(c, v)
  PROVE  Values!Become(m, NowSays(b))
<1>1. TypeOK
  BY DEF MsgInv
<1>2. [n \in Object |-> ValueOf(n)]'
        = [[n \in Object |-> ValueOf(n)] EXCEPT ![m] = NowSays(b)]
  BY <1>1, BuffersStay, OneValueChanges DEF ValueOf
<1>3. [n \in Object |-> ValueOf(n)][m] = "none" \/ m \in held
  BY MsgAssumption DEF ValueOf
<1>4. QED
  BY <1>2, <1>3 DEF Values!Become

LEMMA NewInValues ==
  ASSUME MsgInv, NEW m \in Object, NEW c \in Content, NEW v \in Value, New(m, c, v)
  PROVE  Values!Next
<1>1. c \in Boxes /\ TypeOK
  BY DEF Boxes, MsgInv
<1>2. Values!Become(m, NowSays(c))
  BY <1>1, BecomesInValues DEF New, Box
<1>3. NowSays(c) = v
  BY <1>1 DEF NowSays, New, Allocate, TypeOK
<1>4. QED
  BY <1>2, <1>3 DEF Values!Next

LEMMA RecvInValues ==
  ASSUME MsgInv, NEW m \in Object, NEW c \in Content, Recv(m, c)
  PROVE  Values!Next
<1>1. c \in Boxes /\ TypeOK /\ TypeOK'
  BY RecvKeeps DEF Boxes, MsgInv
<1>2. Values!Become(m, NowSays(c))
  BY <1>1, BecomesInValues DEF Recv
<1>3. NowSays(c) \in Value
  BY <1>1 DEF NowSays, TypeOK
<1>4. QED
  BY <1>2, <1>3 DEF Values!Next

LEMMA BlankInValues ==
  ASSUME MsgInv, NEW m \in Object, NEW s \in Object,
         NewEmpty(m) \/ NewNoMemory(m) \/ NewRaises(m) \/ CopyRaises(m, s)
  PROVE  Values!Next
<1>1. CASE NewEmpty(m) \/ CopyRaises(m, s)
  <2>1. Values!Become(m, NowSays("empty"))
    BY <1>1, BecomesInValues DEF NewEmpty, CopyRaises, Box, Boxes
  <2>2. QED
    BY <2>1, MsgAssumption DEF Values!Next, NowSays
<1>2. CASE NewNoMemory(m) \/ NewRaises(m)
  <2>1. Values!Become(m, NowSays("raw"))
    BY <1>2, BecomesInValues DEF NewNoMemory, NewRaises, Box, Boxes
  <2>2. QED
    BY <2>1, MsgAssumption DEF Values!Next, NowSays
<1>3. QED
  BY <1>1, <1>2

LEMMA CopyInValues ==
  ASSUME MsgInv, NEW m \in Object, NEW s \in Object, Copy(m, s)
  PROVE  Values!Next
<1>1. box[s] \in Boxes /\ TypeOK /\ data' = data
  BY DEF MsgInv, TypeOK, Copy
<1>2. /\ box' = [box EXCEPT ![m] = box[s]]
      /\ box[m] = "none" \/ m \in held
      /\ held' = held \cup {m}
  BY DEF Copy, Box
<1>3. [n \in Object |-> ValueOf(n)]'
        = [[n \in Object |-> ValueOf(n)] EXCEPT
             ![m] = [n \in Object |-> ValueOf(n)][s]]
  <2>1. \A n \in Object : box'[n] = IF n = m THEN box[s] ELSE box[n]
    BY <1>1, <1>2 DEF TypeOK
  <2>2. \A n \in Object : ValueOf(n)' = IF n = m THEN ValueOf(s) ELSE ValueOf(n)
    BY <1>1, <2>1 DEF ValueOf
  <2>3. QED
    BY <2>2
<1>4. [n \in Object |-> ValueOf(n)][m] = "none" \/ m \in held
  BY <1>2, MsgAssumption DEF ValueOf
<1>5. Values!Copy(m, s)
  BY <1>2, <1>3, <1>4 DEF Values!Copy, Values!Become, Copy
<1>6. QED
  BY <1>5 DEF Values!Next

LEMMA SendInValues ==
  ASSUME MsgInv, NEW m \in Object, Send(m)
  PROVE  Values!Next
<1>1. TypeOK
  BY DEF MsgInv
<1>2. [n \in Object |-> ValueOf(n)]'
        = [[n \in Object |-> ValueOf(n)] EXCEPT ![m] = "empty"]
  BY <1>1, MsgAssumption DEF ValueOf, Send, TypeOK
<1>3. QED
  BY <1>2 DEF Send, Values!Send, Values!Next

LEMMA CollectInValues ==
  ASSUME MsgInv, NEW m \in Object, Collect(m)
  PROVE  Values!Next
<1>1. TypeOK
  BY DEF MsgInv
<1>2. [n \in Object |-> ValueOf(n)]'
        = [[n \in Object |-> ValueOf(n)] EXCEPT ![m] = "none"]
  BY <1>1, MsgAssumption DEF ValueOf, Collect, TypeOK
<1>3. QED
  BY <1>2 DEF Collect, Values!Collect, Values!Next

(* A Msg is a value: for any number of Msgs, what shares the contents of   *)
(* several implements MsgValue, where nothing is shared.                   *)
THEOREM MsgsAreValues == Spec => KeepsValues
<1>1. Init => Values!Init
  BY MsgAssumption DEF Init, Values!Init, ValueOf
<1>2. ASSUME MsgInv, [Next]_vars PROVE [Values!Next]_Values!vars
  <2>1. ASSUME NEW m \in Object, Drop(m) PROVE Values!Next
    BY <2>1 DEF Drop, Values!Drop, Values!Next, ValueOf
  <2>2. ASSUME (\E c \in Content : FrameGone(c)) \/ UNCHANGED vars
        PROVE  UNCHANGED Values!vars
    BY <2>2 DEF FrameGone, vars, Values!vars, ValueOf
  <2>3. QED
    BY <1>2, <2>1, <2>2, NewInValues, RecvInValues, BlankInValues, CopyInValues,
       SendInValues, CollectInValues DEF Next
<1>3. QED
  BY <1>1, <1>2, MsgInvariant, PTL DEF Spec, KeepsValues, Values!Spec

-----------------------------------------------------------------------------
(* A buffer that a Msg or a frame on its way has is not written: what was  *)
(* sent arrives as it was sent, whatever becomes of the Msg it was sent    *)
(* from and of its copies.  (MsgValue says it of Msgs only.)               *)
InUseStayWritten ==
  [][\A c \in Content : Users(c) # {} \/ wire[c] > 0 => data'[c] = data[c]]_vars

(* The other direction of the count: a buffer that is not free has a user, *)
(* a frame or an initialize that was called once more to show for it.      *)
NothingLeaks ==
  \A c \in Content :
    refs[c] > 0 <=> Users(c) # {} \/ wire[c] > 0 \/ lost[c] > 0

(* Sent and copied contents are not overwritten.                           *)
THEOREM ContentsInUseStay == Spec => InUseStayWritten
<1>1. ASSUME MsgInv, [Next]_vars, NEW c \in Content, Users(c) # {} \/ wire[c] > 0
      PROVE  data'[c] = data[c]
  <2>1. refs[c] # 0
    BY <1>1, Counted DEF MsgInv
  <2>2. ASSUME NEW d \in Content, NEW v \in Value, Allocate(d, v)
        PROVE  data'[c] = data[c]
    BY <1>1, <2>1, <2>2 DEF Allocate, MsgInv, TypeOK
  <2>3. data' = data \/ \E d \in Content, v \in Value : Allocate(d, v)
    BY <1>1 DEF Next, New, NewEmpty, NewNoMemory, NewRaises, Copy, CopyRaises, Send, Recv,
                FrameGone, Drop, Collect, vars
  <2>4. QED
    BY <2>2, <2>3
<1>2. MsgInv /\ [Next]_vars =>
        [\A c \in Content : Users(c) # {} \/ wire[c] > 0 => data'[c] = data[c]]_vars
  BY <1>1
<1>3. QED
  BY <1>2, MsgInvariant, PTL DEF Spec, InUseStayWritten

(* A content is freed when its last user goes.                             *)
THEOREM FreedWithLastUser == Spec => []NothingLeaks
<1>1. ASSUME MsgInv, NEW c \in Content
      PROVE  refs[c] > 0 <=> Users(c) # {} \/ wire[c] > 0 \/ lost[c] > 0
  <2>1. refs[c] = Cardinality(Users(c)) + wire[c] + lost[c]
    BY <1>1 DEF MsgInv, RefsExact
  <2>2. Cardinality(Users(c)) \in Nat /\ wire[c] \in Nat /\ lost[c] \in Nat /\ refs[c] \in Nat
    BY <1>1, UsersFinite DEF MsgInv, TypeOK
  <2>3. Users(c) # {} <=> Cardinality(Users(c)) # 0
    BY UsersFinite, FS_EmptySet
  <2>4. QED
    BY <2>1, <2>2, <2>3
<1>2. MsgInv => NothingLeaks
  BY <1>1 DEF NothingLeaks
<1>3. QED
  BY <1>2, MsgInvariant, PTL
=============================================================================
