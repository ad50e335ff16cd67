--------------------------- MODULE MultipartProofs ---------------------------
(* Theorems about Multipart, for any number of calls of any length.        *)
EXTENDS Multipart, SequenceTheorems, TLAPS

Active == {c \in Call : fate[c] = "active"}

Good(m, T) == (\E c \in Call : m = Whole(c)) \/ Calls(m) \cap T # {}

(* The active calls are nested: caller is a chain that begins at top, and  *)
(* all of them but top are disturbed.                                      *)
Nested ==
  /\ top \in Active \cup {NONE}
  /\ \A c \in Active :
       /\ caller[c] \in Active \cup {NONE}
       /\ caller[c] # c
       /\ caller[c] = top => top = NONE
       /\ c # top => c \in disturbed
  /\ \A c, d \in Active : caller[c] = caller[d] /\ caller[c] # NONE => c = d

(* What zmq_send has of a call.                                            *)
Counts ==
  \A c \in Call :
    /\ fate[c] = "new" => sent[c] = 0 /\ c \notin disturbed
    /\ fate[c] = "active" => sent[c] < Frames(c)
    /\ fate[c] \in {"new", "done"} => c \notin Calls(pending)

(* The unfinished message ends with what an undisturbed active call has    *)
(* sent so far, and has nothing else of it.                                *)
EndsWith(c) ==
  /\ sent[c] <= Len(pending)
  /\ \A i \in 1 .. Len(pending) :
       IF i <= Len(pending) - sent[c]
         THEN pending[i][1] # c
         ELSE pending[i] = <<c, i - (Len(pending) - sent[c])>>

Unfinished == open => \A c \in Active \ disturbed : EndsWith(c)

ClosedSocket == ~open => pending = <<>>

(* A call that has spoiled a message has no frame left to spoil another.   *)
Damage ==
  \A c \in Call \ disturbed :
    /\ spoiled[c] <= 1
    /\ fate[c] \in {"new", "active"} \/ c \in Calls(pending) => spoiled[c] = 0

OnTheWire == \A i \in DOMAIN wire : wire[i] # <<>> /\ Good(wire[i], Troubled)

Receiving ==
  /\ ~cut => (got = <<>> /\ rest = <<>>) \/ Good(got \o rest, Troubled)
  /\ result.frames = <<>> \/ result.cut \/ Good(result.frames, Troubled)

SendInv == Nested /\ Counts /\ Unfinished /\ ClosedSocket /\ Damage
RecvInv == OnTheWire /\ Receiving
MsgInv  == TypeOK /\ SendInv /\ RecvInv

-----------------------------------------------------------------------------
LEMMA OneMore ==
  ASSUME NEW S, NEW f \in [S -> Nat], NEW c \in S
  PROVE  [f EXCEPT ![c] = @ + 1] \in [S -> Nat]
OBVIOUS

LEMMA SomeMore ==
  ASSUME NEW S, NEW f \in [S -> Nat], NEW D
  PROVE  [d \in S |-> IF d \in D THEN f[d] + 1 ELSE f[d]] \in [S -> Nat]
OBVIOUS

LEMMA FramesType == \A c \in Call : Frames(c) \in Nat /\ Frames(c) > 0
BY MultipartAssumption DEF Frames

LEMMA CallsOf ==
  ASSUME NEW m \in Seq(Frame)
  PROVE  /\ \A c : c \in Calls(m) <=> \E i \in 1 .. Len(m) : m[i][1] = c
         /\ Calls(m) \subseteq Call
<1>1. DOMAIN m = 1 .. Len(m) /\ \A i \in 1 .. Len(m) : m[i] \in Frame
  BY LenProperties, ElementOfSeq
<1>2. \A f \in Frame : f[1] \in Call
  BY DEF Frame
<1>3. QED
  BY <1>1, <1>2 DEF Calls

LEMMA CallsOfAppend ==
  ASSUME NEW m \in Seq(Frame), NEW c \in Call, NEW i, <<c, i>> \in Frame
  PROVE  Calls(Append(m, <<c, i>>)) = Calls(m) \cup {c}
<1> DEFINE a == Append(m, <<c, i>>)
<1>1. /\ a \in Seq(Frame) /\ Len(a) = Len(m) + 1
      /\ \A j \in 1 .. Len(m) : a[j] = m[j]
      /\ a[Len(m) + 1] = <<c, i>>
  BY AppendProperties
<1>2. Len(m) \in Nat
  BY LenProperties
<1>3. \A d : d \in Calls(a) <=> \E j \in 1 .. Len(a) : a[j][1] = d
  BY <1>1, CallsOf
<1>4. \A d : d \in Calls(m) <=> \E j \in 1 .. Len(m) : m[j][1] = d
  BY CallsOf
<1>5. ASSUME NEW d, d \in Calls(a) PROVE d \in Calls(m) \cup {c}
  BY <1>1, <1>2, <1>3, <1>4, <1>5
<1>6. ASSUME NEW d, d \in Calls(m) \cup {c} PROVE d \in Calls(a)
  BY <1>1, <1>2, <1>3, <1>4, <1>6
<1>7. QED
  BY <1>5, <1>6

LEMMA NoCalls == Calls(<<>>) = {}
BY DEF Calls

(* Whatever happens later, a good message stays good.                      *)
LEMMA GoodStays ==
  ASSUME NEW m, NEW T, NEW U, Good(m, T), T \subseteq U PROVE Good(m, U)
BY DEF Good

(* The next frame of top is added to what zmq_send has.                    *)
LEMMA MessageProperties ==
  ASSUME TypeOK, SendInv, NEW c \in Call, c = top
  PROVE  /\ c \in Active /\ fate[c] = "active"
         /\ sent[c] \in Nat /\ sent[c] < Frames(c)
         /\ pending \in Seq(Frame) /\ Len(pending) \in Nat
         /\ Message(c) \in Seq(Frame) /\ Message(c) # <<>>
         /\ Len(Message(c)) = Len(pending) + 1
         /\ \A i \in 1 .. Len(pending) : Message(c)[i] = pending[i]
         /\ Message(c)[Len(pending) + 1] = <<c, sent[c] + 1>>
         /\ Calls(Message(c)) = Calls(pending) \cup {c}
<1>1. c \in Active /\ fate[c] = "active" /\ sent[c] \in Nat
  BY MultipartAssumption DEF SendInv, Nested, Active, TypeOK
<1>2. sent[c] < Frames(c)
  BY <1>1 DEF SendInv, Counts
<1>3. pending \in Seq(Frame) /\ Len(pending) \in Nat
  BY LenProperties DEF TypeOK
<1>4. <<c, sent[c] + 1>> \in Frame
  BY <1>1, <1>2, FramesType DEF Frame
<1>5. Calls(Message(c)) = Calls(pending) \cup {c}
  BY <1>3, <1>4, CallsOfAppend DEF Message
<1>6. /\ Message(c) \in Seq(Frame) /\ Message(c) # <<>>
      /\ Len(Message(c)) = Len(pending) + 1
      /\ \A i \in 1 .. Len(pending) : Message(c)[i] = pending[i]
      /\ Message(c)[Len(pending) + 1] = <<c, sent[c] + 1>>
  BY <1>3, <1>4, AppendProperties DEF Message
<1>7. QED
  BY <1>1, <1>2, <1>3, <1>5, <1>6

(* The message that an undisturbed call ends is its own if the socket held *)
(* no frame of another call when it began.                                 *)
LEMMA OwnMessage ==
  ASSUME TypeOK, SendInv, NEW c \in Call, c = top, open, IsLast(c),
         c \notin disturbed, sent[c] = Len(pending)
  PROVE  Message(c) = Whole(c)
<1> DEFINE n == Len(pending)
           m == Message(c)
<1>1. sent[c] = n /\ n + 1 = Frames(c) /\ n \in Nat /\ c \in Active
  BY MessageProperties DEF IsLast
<1>2. /\ m \in Seq(Frame) /\ Len(m) = n + 1
      /\ \A i \in 1 .. n : m[i] = pending[i]
      /\ m[n + 1] = <<c, n + 1>>
  BY <1>1, MessageProperties
<1>3. \A i \in 1 .. n : pending[i] = <<c, i>>
  BY <1>1 DEF SendInv, Unfinished, EndsWith
<1>4. \A i \in 1 .. n + 1 : m[i] = <<c, i>>
  BY <1>1, <1>2, <1>3
<1>5. Whole(c) \in Seq(Frame) /\ Len(Whole(c)) = n + 1
  <2>1. \A i \in 1 .. Frames(c) : <<c, i>> \in Frame
    BY FramesType DEF Frame
  <2>2. QED
    BY <1>1, <2>1, IsASeq, FramesType DEF Whole
<1>6. \A i \in 1 .. n + 1 : m[i] = Whole(c)[i]
  BY <1>1, <1>4 DEF Whole
<1>7. QED
  BY <1>1, <1>2, <1>5, <1>6, SeqEqual

(* Otherwise it begins with a frame of another call.                       *)
LEMMA OthersFirst ==
  ASSUME TypeOK, SendInv, NEW c \in Call, c = top, open,
         c \notin disturbed, sent[c] # Len(pending)
  PROVE  \E d \in Call \ {c} : d \in Calls(pending)
<1> DEFINE n == Len(pending)
           k == sent[c]
<1>1. k \in Nat /\ n \in Nat /\ c \in Active
  BY MessageProperties
<1>2. EndsWith(c)
  BY <1>1 DEF SendInv, Unfinished
<1>3. k < n
  BY <1>1, <1>2 DEF EndsWith
<1>4. 1 \in 1 .. n /\ 1 <= n - k
  BY <1>1, <1>3
<1>5. pending[1][1] # c
  BY <1>2, <1>3, <1>4 DEF EndsWith
<1>6. pending[1][1] \in Calls(pending) /\ pending[1][1] \in Call
  BY <1>4, CallsOf, MessageProperties
<1>7. QED
  BY <1>5, <1>6

(* The message that top ends is its own, or has a frame of a call that was *)
(* in trouble.                                                             *)
LEMMA MessageIsGood ==
  ASSUME TypeOK, SendInv, NEW c \in Call, c = top, open, IsLast(c)
  PROVE  Good(Message(c), Troubled)
<1> DEFINE m == Message(c)
<1>1. c \in Active /\ Calls(m) = Calls(pending) \cup {c}
  BY MessageProperties
<1>2. CASE c \in disturbed
  BY <1>1, <1>2 DEF Good, Troubled
<1>3. CASE c \notin disturbed /\ sent[c] = Len(pending)
  BY <1>3, OwnMessage DEF Good
<1>4. CASE c \notin disturbed /\ sent[c] # Len(pending)
  <2>1. PICK d \in Call \ {c} : d \in Calls(pending)
    BY <1>4, OthersFirst
  <2>2. fate[d] \in {"active", "raised"}
    BY <2>1 DEF SendInv, Counts, TypeOK
  <2>3. d \in Troubled
    BY <2>1, <2>2 DEF SendInv, Nested, Active, Troubled
  <2>4. QED
    BY <1>1, <2>1, <2>3 DEF Good
<1>5. QED
  BY <1>2, <1>3, <1>4

-----------------------------------------------------------------------------
LEMMA MsgInit == Init => MsgInv
<1> SUFFICES ASSUME Init PROVE MsgInv
  OBVIOUS
<1> USE MultipartAssumption DEF Init
<1>1. TypeOK
  BY EmptySeq DEF TypeOK
<1>2. Active = {}
  BY DEF Active
<1>3. SendInv
  <2>1. Nested /\ Unfinished
    BY <1>2 DEF Nested, Unfinished
  <2>2. Counts /\ Damage
    BY NoCalls DEF Counts, Damage
  <2>3. QED
    BY <2>1, <2>2 DEF SendInv, ClosedSocket
<1>4. RecvInv
  BY DEF RecvInv, OnTheWire, Receiving
<1>5. QED
  BY <1>1, <1>3, <1>4 DEF MsgInv

(* The receiver's part of the invariant needs of a step of the sender only *)
(* that it adds good messages and that trouble does not go away.           *)
LEMMA SenderKeepsRecvInv ==
  ASSUME TypeOK, RecvInv, UNCHANGED recvVars, Troubled \subseteq Troubled',
         \/ UNCHANGED wire
         \/ \E m \in Seq(Frame) : /\ m # <<>> /\ Good(m, Troubled)
                                  /\ wire' = Append(wire, m)
  PROVE  RecvInv'
<1>1. UNCHANGED <<rest, got, cut, result>>
  BY DEF recvVars
<1>2. Receiving'
  BY <1>1, GoodStays DEF RecvInv, Receiving
<1>3. CASE UNCHANGED wire
  BY <1>3, <1>2, GoodStays DEF RecvInv, OnTheWire
<1>4. ASSUME NEW m \in Seq(Frame), m # <<>>, Good(m, Troubled), wire' = Append(wire, m)
      PROVE  RecvInv'
  <2>1. /\ Len(wire) \in Nat /\ DOMAIN wire = 1 .. Len(wire)
        /\ DOMAIN wire' = 1 .. Len(wire) + 1
        /\ \A i \in 1 .. Len(wire) : wire'[i] = wire[i]
        /\ wire'[Len(wire) + 1] = m
    BY <1>4, AppendProperties, LenProperties DEF TypeOK
  <2>2. \A i \in 1 .. Len(wire) : wire'[i] # <<>> /\ Good(wire'[i], Troubled')
    BY <2>1, GoodStays DEF RecvInv, OnTheWire
  <2>3. m # <<>> /\ Good(m, Troubled')
    BY <1>4, GoodStays
  <2>4. \A i \in DOMAIN wire' : wire'[i] # <<>> /\ Good(wire'[i], Troubled')
    BY <2>1, <2>2, <2>3
  <2>5. QED
    BY <1>2, <2>4 DEF RecvInv, OnTheWire
<1>5. QED
  BY <1>3, <1>4

(* The steps of the sender.                                                *)
LEMMA StepBegin ==
  ASSUME MsgInv, NEW c \in Call, Begin(c) PROVE MsgInv'
<1> USE MultipartAssumption
<1>1. /\ fate[c] = "new" /\ open
      /\ fate' = [fate EXCEPT ![c] = "active"]
      /\ caller' = [caller EXCEPT ![c] = top] /\ top' = c
      /\ disturbed' = disturbed \cup ({top} \ {NONE})
      /\ UNCHANGED <<sent, open, pending, wire, spoiled>>
      /\ UNCHANGED recvVars
  BY DEF Begin
<1>2. TypeOK /\ SendInv /\ RecvInv
  BY DEF MsgInv
<1>3. TypeOK'
  BY <1>1, <1>2 DEF TypeOK, recvVars
<1>4. Active' = Active \cup {c} /\ c \notin Active /\ c # top
  BY <1>1, <1>2 DEF TypeOK, Active, SendInv, Nested
<1>5. Nested'
  <2>1. /\ caller'[c] = top /\ \A d \in Active : caller'[d] = caller[d]
        /\ Active \subseteq Call
    BY <1>1, <1>2, <1>4 DEF TypeOK, Active
  <2>2. top' \in Active' \cup {NONE}
    BY <1>1, <1>4
  <2>3. ASSUME NEW d \in Active' PROVE caller'[d] \in Active' \cup {NONE} /\ caller'[d] # d
    BY <1>2, <1>4, <2>1, <2>3 DEF SendInv, Nested
  <2>4. ASSUME NEW d \in Active', caller'[d] = top' PROVE FALSE
    BY <1>1, <1>2, <1>4, <2>1, <2>4 DEF SendInv, Nested
  <2>5. ASSUME NEW d \in Active', d # top' PROVE d \in disturbed'
    <3>1. d \in Active
      BY <1>1, <1>4, <2>5
    <3>2. QED
      BY <1>1, <1>2, <2>1, <3>1 DEF SendInv, Nested
  <2>6. ASSUME NEW d \in Active', NEW e \in Active',
               caller'[d] = caller'[e], caller'[d] # NONE
        PROVE  d = e
    BY <1>2, <1>4, <2>1, <2>6 DEF SendInv, Nested
  <2>7. QED
    BY <2>2, <2>3, <2>4, <2>5, <2>6 DEF Nested
<1>6. Counts'
  <2>1. c \notin Calls(pending) /\ sent[c] = 0 /\ top # c
    BY <1>1, <1>2, <1>4 DEF SendInv, Counts
  <2>2. top # NONE => fate[top] = "active"
    BY <1>2 DEF SendInv, Nested, Active
  <2>3. QED
    BY <1>1, <1>2, <2>1, <2>2, FramesType DEF SendInv, Counts, TypeOK
<1>7. Unfinished'
  <2>1. \A d \in Active \ disturbed' : FALSE
    BY <1>1, <1>2, <1>4 DEF SendInv, Nested, TypeOK, Active
  <2>2. EndsWith(c)'
    <3>1. sent[c] = 0 /\ c \notin Calls(pending) /\ pending \in Seq(Frame)
      BY <1>1, <1>2 DEF SendInv, Counts, TypeOK
    <3>2. \A i \in 1 .. Len(pending) : pending[i][1] # c
      BY <3>1, CallsOf
    <3>3. QED
      BY <1>1, <3>1, <3>2, LenProperties DEF EndsWith
  <2>3. QED
    BY <1>4, <2>1, <2>2 DEF Unfinished
<1>8. ClosedSocket'
  BY <1>1, <1>2 DEF SendInv, ClosedSocket
<1>9. Damage'
  BY <1>1, <1>2 DEF SendInv, Damage, TypeOK
<1>10. RecvInv'
  <2>1. Troubled \subseteq Troubled'
    BY <1>1, <1>2 DEF Troubled, TypeOK
  <2>2. QED
    BY <1>1, <1>2, <2>1, SenderKeepsRecvInv
<1>11. QED
  BY <1>1, <1>2, <1>3, <1>5, <1>6, <1>7, <1>8, <1>9, <1>10
     DEF MsgInv, SendInv

(* What the end of a call does to the chain.                               *)
LEMMA LeaveKeepsNested ==
  ASSUME TypeOK, Nested, NEW c \in Call, c = top,
         NEW f \in {"done", "raised"}, Leave(c, f)
  PROVE  /\ Nested' /\ Active' = Active \ {c}
         /\ fate' \in [Call -> {"new", "active", "done", "raised"}]
         /\ caller' \in [Call -> Call \cup {NONE}] /\ top' \in Call \cup {NONE}
         /\ \A d \in Call : fate'[d] = IF d = c THEN f ELSE fate[d]
         /\ UNCHANGED disturbed
<1> USE MultipartAssumption
<1>1. /\ fate' = [fate EXCEPT ![c] = f] /\ top' = caller[c]
      /\ UNCHANGED <<caller, disturbed>>
  BY DEF Leave
<1>2. Active' = Active \ {c} /\ c \in Active
  BY <1>1 DEF TypeOK, Active, Nested
<1>3. Nested'
  BY <1>1, <1>2 DEF TypeOK, Nested
<1>4. QED
  BY <1>1, <1>2, <1>3 DEF TypeOK

LEMMA StepSendFrame ==
  ASSUME MsgInv, NEW c \in Call, SendFrame(c) PROVE MsgInv'
<1> USE MultipartAssumption
<1>1. /\ c = top /\ open
      /\ sent' = [sent EXCEPT ![c] = @ + 1]
      /\ UNCHANGED open /\ UNCHANGED recvVars
  BY DEF SendFrame
<1>2. TypeOK /\ SendInv /\ RecvInv
  BY DEF MsgInv
<1> DEFINE m == Message(c)
           n == Len(pending)
<1>3. /\ c \in Active /\ fate[c] = "active" /\ sent[c] \in Nat /\ sent[c] < Frames(c)
      /\ pending \in Seq(Frame) /\ n \in Nat
      /\ m \in Seq(Frame) /\ m # <<>> /\ Len(m) = n + 1
      /\ \A i \in 1 .. n : m[i] = pending[i]
      /\ m[n + 1] = <<c, sent[c] + 1>>
      /\ Calls(m) = Calls(pending) \cup {c}
  BY <1>1, <1>2, MessageProperties
<1>4. CASE IsLast(c)
  <2>1. /\ Leave(c, "done")
        /\ wire' = Append(wire, m) /\ pending' = <<>>
        /\ spoiled' = [d \in Call |-> IF d \in Spoils(m)
                                      THEN spoiled[d] + 1 ELSE spoiled[d]]
    BY <1>3, <1>4 DEF SendFrame, IsLast, HasMore
  <2>2. /\ Nested' /\ Active' = Active \ {c}
        /\ fate' \in [Call -> {"new", "active", "done", "raised"}]
        /\ caller' \in [Call -> Call \cup {NONE}] /\ top' \in Call \cup {NONE}
        /\ \A d \in Call : fate'[d] = IF d = c THEN "done" ELSE fate[d]
        /\ UNCHANGED disturbed
    BY <1>1, <1>2, <2>1, LeaveKeepsNested DEF SendInv
  <2>3. wire' \in Seq(Seq(Frame))
    BY <1>2, <1>3, <2>1, AppendProperties DEF TypeOK
  <2>4. TypeOK'
    <3>1. sent' \in [Call -> Nat]
      <4>1. sent \in [Call -> Nat]
        BY <1>2 DEF TypeOK
      <4>2. QED
        BY <1>1, <4>1, OneMore
    <3>2. spoiled' \in [Call -> Nat]
      <4>1. spoiled \in [Call -> Nat]
        BY <1>2 DEF TypeOK
      <4>2. QED
        BY <2>1, <4>1, SomeMore
    <3>3. pending' \in Seq(Frame)
      BY <2>1, EmptySeq
    <3>4. UNCHANGED <<open, disturbed, rest, got, cut, result>>
      BY <1>1, <2>2 DEF recvVars
    <3>5. QED
      BY <1>2, <2>2, <2>3, <3>1, <3>2, <3>3, <3>4 DEF TypeOK
  <2>5. Counts'
    <3>1. Calls(pending') = {}
      BY <2>1, NoCalls
    <3>2. \A d \in Call \ {c} : fate'[d] = fate[d] /\ sent'[d] = sent[d]
      BY <1>1, <1>2, <2>2 DEF TypeOK
    <3>3. fate'[c] = "done"
      BY <1>3, <2>2 DEF Active
    <3>4. QED
      BY <1>2, <2>2, <3>1, <3>2, <3>3 DEF SendInv, Counts
  <2>6. Unfinished' /\ ClosedSocket'
    <3>1. \A d \in Active' \ disturbed' : FALSE
      BY <1>1, <1>2, <2>2 DEF SendInv, Nested
    <3>2. QED
      BY <1>1, <1>2, <3>1 DEF SendInv, Unfinished, ClosedSocket
  <2>7. Damage'
    <3>1. \A d \in Call \ disturbed : d \in Spoils(m) => spoiled[d] = 0
      BY <1>2, <1>3 DEF SendInv, Damage, Spoils
    <3>2. \A d \in Call : d \in Spoils(m) => fate'[d] \notin {"new", "active"} \/ d \in disturbed
      BY <1>1, <1>2, <1>3, <2>2 DEF SendInv, Nested, Counts, Spoils, Active, TypeOK
    <3>3. \A d \in Call \ disturbed : fate'[d] \in {"new", "active"} => fate[d] \in {"new", "active"}
      BY <2>2
    <3>4. Calls(pending') = {}
      BY <2>1, NoCalls
    <3>5. \A d \in Call : spoiled[d] \in Nat
                          /\ spoiled'[d] = IF d \in Spoils(m) THEN spoiled[d] + 1 ELSE spoiled[d]
      BY <1>2, <2>1 DEF TypeOK
    <3>6. ASSUME NEW d \in Call \ disturbed
          PROVE  spoiled'[d] <= 1 /\ (fate'[d] \in {"new", "active"} => spoiled'[d] = 0)
      <4>1. CASE d \in Spoils(m)
        BY <3>1, <3>2, <3>5, <3>6, <4>1
      <4>2. CASE d \notin Spoils(m)
        BY <1>2, <3>3, <3>5, <3>6, <4>2 DEF SendInv, Damage
      <4>3. QED
        BY <4>1, <4>2
    <3>7. QED
      BY <2>2, <3>4, <3>6 DEF Damage
  <2>8. RecvInv'
    <3>1. Troubled \subseteq Troubled'
      BY <1>3, <2>2 DEF Troubled
    <3>2. Good(m, Troubled)
      BY <1>1, <1>2, <1>4, MessageIsGood
    <3>3. QED
      BY <1>1, <1>2, <1>3, <2>1, <3>1, <3>2, SenderKeepsRecvInv
  <2>9. QED
    BY <1>1, <1>2, <2>2, <2>4, <2>5, <2>6, <2>7, <2>8 DEF MsgInv, SendInv
<1>5. CASE ~IsLast(c)
  <2>1. pending' = m /\ UNCHANGED <<fate, caller, top, disturbed, wire, spoiled>>
    BY <1>3, <1>5, FramesType DEF SendFrame, IsLast, HasMore
  <2>2. TypeOK'
    <3>1. sent' \in [Call -> Nat]
      <4>1. sent \in [Call -> Nat]
        BY <1>2 DEF TypeOK
      <4>2. QED
        BY <1>1, <4>1, OneMore
    <3>2. pending' \in Seq(Frame)
      BY <1>3, <2>1
    <3>3. UNCHANGED <<open, rest, got, cut, result>>
      BY <1>1 DEF recvVars
    <3>4. QED
      BY <1>2, <2>1, <3>1, <3>2, <3>3 DEF TypeOK
  <2>3. Active' = Active /\ Nested'
    BY <1>2, <2>1 DEF SendInv, Nested, Active
  <2>4. Counts'
    <3>1. Calls(pending') = Calls(pending) \cup {c} /\ fate' = fate /\ disturbed' = disturbed
      BY <1>3, <2>1
    <3>2. sent'[c] = sent[c] + 1 /\ \A d \in Call \ {c} : sent'[d] = sent[d]
      BY <1>1, <1>2, <1>3 DEF TypeOK
    <3>3. sent[c] + 1 < Frames(c)
      BY <1>3, <1>5, FramesType DEF IsLast
    <3>4. QED
      BY <1>2, <1>3, <3>1, <3>2, <3>3 DEF SendInv, Counts
  <2>5. Unfinished'
    <3>1. ASSUME NEW d \in Active \ disturbed PROVE d = c
      BY <1>1, <1>2, <3>1 DEF SendInv, Nested
    <3>2. ASSUME c \notin disturbed PROVE EndsWith(c)'
      <4>1. EndsWith(c)
        BY <1>1, <1>2, <1>3, <3>2 DEF SendInv, Unfinished
      <4>2. sent'[c] = sent[c] + 1 /\ Len(pending') = n + 1
        BY <1>1, <1>2, <1>3, <2>1 DEF TypeOK
      <4>3. sent'[c] <= Len(pending')
        BY <1>3, <4>1, <4>2 DEF EndsWith
      <4>4. ASSUME NEW i \in 1 .. n
            PROVE  IF i <= n - sent[c] THEN m[i][1] # c
                   ELSE m[i] = <<c, i - (n - sent[c])>>
        BY <1>3, <4>1 DEF EndsWith
      <4>5. m[n + 1] = <<c, (n + 1) - (n - sent[c])>> /\ ~(n + 1 <= n - sent[c])
        BY <1>3
      <4>6. (n + 1) - (sent[c] + 1) = n - sent[c]
        BY <1>3
      <4>7. \A i \in 1 .. n + 1 :
              IF i <= n - sent[c] THEN m[i][1] # c
              ELSE m[i] = <<c, i - (n - sent[c])>>
        BY <1>3, <4>4, <4>5
      <4>8. QED
        BY <2>1, <4>2, <4>3, <4>6, <4>7 DEF EndsWith
    <3>3. QED
      BY <2>1, <2>3, <3>1, <3>2 DEF Unfinished
  <2>6. ClosedSocket'
    BY <1>1, <1>2 DEF SendInv, ClosedSocket
  <2>7. Damage'
    BY <1>2, <1>3, <2>1 DEF SendInv, Damage
  <2>8. RecvInv'
    BY <1>1, <1>2, <2>1, SenderKeepsRecvInv DEF Troubled
  <2>9. QED
    BY <1>1, <1>2, <2>2, <2>3, <2>4, <2>5, <2>6, <2>7, <2>8
       DEF MsgInv, SendInv
<1>6. QED
  BY <1>4, <1>5

(* A call that ends by an exception, whatever became of the socket.        *)
LEMMA RaisingKeepsInv ==
  ASSUME MsgInv, NEW c \in Call, c = top, Leave(c, "raised"),
         UNCHANGED <<sent, open, pending, wire, spoiled>>,
         UNCHANGED recvVars
  PROVE  MsgInv'
<1>1. TypeOK /\ SendInv /\ RecvInv
  BY DEF MsgInv
<1>2. /\ Nested' /\ Active' = Active \ {c} /\ c \in Active
      /\ fate' \in [Call -> {"new", "active", "done", "raised"}]
      /\ caller' \in [Call -> Call \cup {NONE}] /\ top' \in Call \cup {NONE}
      /\ \A d \in Call : fate'[d] = IF d = c THEN "raised" ELSE fate[d]
      /\ UNCHANGED disturbed
  BY <1>1, LeaveKeepsNested, MessageProperties DEF SendInv
<1>3. TypeOK'
  BY <1>1, <1>2 DEF TypeOK, recvVars
<1>4. Counts'
  BY <1>1, <1>2 DEF SendInv, Counts
<1>5. Unfinished' /\ ClosedSocket'
  <2>1. \A d \in Active' \ disturbed' : FALSE
    BY <1>1, <1>2 DEF SendInv, Nested
  <2>2. QED
    BY <1>1, <1>2, <2>1 DEF SendInv, Unfinished, ClosedSocket
<1>6. Damage'
  BY <1>1, <1>2 DEF SendInv, Damage, Active
<1>7. RecvInv'
  <2>1. Troubled \subseteq Troubled'
    BY <1>2 DEF Troubled
  <2>2. QED
    BY <1>1, <2>1, SenderKeepsRecvInv
<1>8. QED
  BY <1>2, <1>3, <1>4, <1>5, <1>6, <1>7 DEF MsgInv, SendInv

LEMMA StepClose == ASSUME MsgInv, Close PROVE MsgInv'
<1>1. /\ open /\ open' = FALSE /\ pending' = <<>>
      /\ UNCHANGED <<fate, sent, caller, top, disturbed, wire, spoiled>>
      /\ UNCHANGED recvVars
  BY DEF Close, callVars
<1>2. TypeOK /\ SendInv /\ RecvInv
  BY DEF MsgInv
<1>3. TypeOK'
  BY <1>1, <1>2, EmptySeq DEF TypeOK, recvVars, Active
<1>4. Active' = Active /\ Nested'
  BY <1>1, <1>2 DEF SendInv, Nested, Active
<1>5. Counts' /\ Damage'
  BY <1>1, <1>2, NoCalls DEF SendInv, Counts, Damage
<1>6. Unfinished' /\ ClosedSocket'
  BY <1>1, <1>4 DEF Unfinished, ClosedSocket
<1>7. RecvInv'
  BY <1>1, <1>2, SenderKeepsRecvInv DEF Troubled
<1>8. QED
  BY <1>3, <1>4, <1>5, <1>6, <1>7 DEF MsgInv, SendInv

-----------------------------------------------------------------------------
(* The steps of the receiver.                                              *)
LEMMA RecvKeepsSendInv ==
  ASSUME SendInv, UNCHANGED sendVars
  PROVE  SendInv' /\ UNCHANGED Troubled
<1>1. UNCHANGED <<fate, sent, caller, top, disturbed, open,
                  pending, spoiled>>
  BY DEF sendVars, callVars
<1>2. UNCHANGED <<Active, Troubled>>
  BY <1>1 DEF Active, Troubled
<1>3. Nested' /\ Counts' /\ ClosedSocket' /\ Damage'
  BY <1>1, <1>2 DEF SendInv, Nested, Counts, ClosedSocket, Damage
<1>4. Unfinished'
  BY <1>1, <1>2 DEF SendInv, Unfinished, EndsWith
<1>5. QED
  BY <1>2, <1>3, <1>4 DEF SendInv

LEMMA MoveFrame ==
  ASSUME NEW g \in Seq(Frame), NEW m \in Seq(Frame), m # <<>>
  PROVE  /\ Append(g, Head(m)) \in Seq(Frame) /\ Tail(m) \in Seq(Frame)
         /\ Append(g, Head(m)) \o Tail(m) = g \o m
<1>1. Head(m) \in Frame /\ Tail(m) \in Seq(Frame) /\ m = <<Head(m)>> \o Tail(m)
  BY HeadTailProperties
<1>2. Append(g, Head(m)) = g \o <<Head(m)>> /\ <<Head(m)>> \in Seq(Frame)
  BY <1>1, AppendIsConcat
<1>3. QED
  BY <1>1, <1>2, ConcatAssociative, AppendProperties

LEMMA StepTake ==
  ASSUME MsgInv, NEW m \in Seq(Frame), m # <<>>, TakeFrame(m),
         cut \/ Good(got \o m, Troubled),
         OnTheWire', wire' \in Seq(Seq(Frame))
  PROVE  MsgInv'
<1>1. /\ got' = Append(got, Head(m)) /\ rest' = Tail(m)
      /\ UNCHANGED sendVars /\ UNCHANGED <<cut, result>>
  BY DEF TakeFrame
<1>2. TypeOK /\ SendInv /\ RecvInv
  BY DEF MsgInv
<1>3. SendInv' /\ UNCHANGED Troubled
  BY <1>1, <1>2, RecvKeepsSendInv
<1>4. got' \in Seq(Frame) /\ rest' \in Seq(Frame) /\ got' \o rest' = got \o m
  BY <1>1, <1>2, MoveFrame DEF TypeOK
<1>5. TypeOK'
  BY <1>1, <1>2, <1>4 DEF TypeOK, sendVars, callVars
<1>6. Receiving'
  BY <1>1, <1>2, <1>3, <1>4 DEF RecvInv, Receiving
<1>7. QED
  BY <1>3, <1>5, <1>6 DEF MsgInv, RecvInv

LEMMA StepRecvFirst == ASSUME MsgInv, RecvFirst PROVE MsgInv'
<1>1. /\ got = <<>> /\ wire # <<>> /\ wire' = Tail(wire)
      /\ TakeFrame(Head(wire)) /\ UNCHANGED sendVars
  BY DEF RecvFirst, TakeFrame
<1>2. TypeOK /\ SendInv /\ RecvInv
  BY DEF MsgInv
<1>3. UNCHANGED Troubled
  BY <1>1, <1>2, RecvKeepsSendInv
<1>4. /\ Len(wire) \in Nat /\ Len(wire) > 0 /\ DOMAIN wire = 1 .. Len(wire)
      /\ Head(wire) = wire[1] /\ Head(wire) \in Seq(Frame)
      /\ wire' \in Seq(Seq(Frame)) /\ DOMAIN wire' = 1 .. Len(wire) - 1
      /\ \A i \in 1 .. Len(wire) - 1 : wire'[i] = wire[i + 1]
  BY <1>1, <1>2, HeadTailProperties, LenProperties, EmptySeq DEF TypeOK
<1>9. \A i \in 1 .. Len(wire) : wire[i] # <<>> /\ Good(wire[i], Troubled)
  BY <1>2, <1>4 DEF RecvInv, OnTheWire
<1>5. Head(wire) # <<>> /\ Good(Head(wire), Troubled)
  BY <1>4, <1>9
<1>6. got \o Head(wire) = Head(wire)
  BY <1>1, <1>4, ConcatEmptySeq
<1>7. OnTheWire'
  <2>1. \A i \in 1 .. Len(wire) - 1 : wire'[i] # <<>> /\ Good(wire'[i], Troubled)
    BY <1>4, <1>9
  <2>2. QED
    BY <1>3, <1>4, <2>1 DEF OnTheWire
<1>8. QED
  BY <1>1, <1>4, <1>5, <1>6, <1>7, StepTake

LEMMA StepRecvMore == ASSUME MsgInv, RecvMore PROVE MsgInv'
<1>1. rest # <<>> /\ TakeFrame(rest) /\ UNCHANGED wire /\ UNCHANGED sendVars
  BY DEF RecvMore, TakeFrame
<1>2. TypeOK /\ SendInv /\ RecvInv
  BY DEF MsgInv
<1>3. UNCHANGED Troubled
  BY <1>1, <1>2, RecvKeepsSendInv
<1>4. OnTheWire' /\ wire' \in Seq(Seq(Frame)) /\ rest \in Seq(Frame)
  BY <1>1, <1>2, <1>3 DEF RecvInv, OnTheWire, TypeOK
<1>5. cut \/ Good(got \o rest, Troubled)
  BY <1>1, <1>2 DEF RecvInv, Receiving
<1>6. QED
  BY <1>1, <1>4, <1>5, StepTake

LEMMA StepRecvEnds == ASSUME MsgInv, RecvReturns \/ RecvRaises PROVE MsgInv'
<1>1. /\ got # <<>> /\ got' = <<>> /\ UNCHANGED sendVars /\ UNCHANGED <<wire, rest>>
      /\ \/ rest = <<>> /\ cut' = FALSE /\ result' = [frames |-> got, cut |-> cut]
         \/ cut' = (rest # <<>>) /\ UNCHANGED result
  BY DEF RecvReturns, RecvRaises
<1>2. TypeOK /\ SendInv /\ RecvInv
  BY DEF MsgInv
<1>3. SendInv' /\ UNCHANGED Troubled
  BY <1>1, <1>2, RecvKeepsSendInv
<1>4. TypeOK'
  <2>1. cut' \in BOOLEAN
    BY <1>1
  <2>2. result' \in [frames : Seq(Frame), cut : BOOLEAN]
    BY <1>1, <1>2 DEF TypeOK
  <2>3. QED
    BY <1>1, <1>2, <2>1, <2>2, EmptySeq DEF TypeOK, sendVars, callVars
<1>5. OnTheWire'
  BY <1>1, <1>2, <1>3 DEF RecvInv, OnTheWire
<1>6. rest = <<>> => got \o rest = got
  BY <1>2, ConcatEmptySeq DEF TypeOK
<1>7. Receiving'
  <2>1. ~cut' => got' = <<>> /\ rest' = <<>>
    BY <1>1
  <2>2. CASE UNCHANGED result
    BY <1>2, <1>3, <2>1, <2>2 DEF RecvInv, Receiving
  <2>3. CASE rest = <<>> /\ result' = [frames |-> got, cut |-> cut]
    <3>1. result'.frames = got /\ result'.cut = cut
      BY <2>3
    <3>2. cut \/ Good(got, Troubled)
      BY <1>1, <1>2, <1>6, <2>3 DEF RecvInv, Receiving
    <3>3. QED
      BY <1>3, <2>1, <3>1, <3>2 DEF Receiving
  <2>4. QED
    BY <1>1, <2>2, <2>3
<1>8. QED
  BY <1>3, <1>4, <1>5, <1>7 DEF MsgInv, RecvInv

-----------------------------------------------------------------------------
LEMMA MsgStep == MsgInv /\ [Next]_vars => MsgInv'
<1> SUFFICES ASSUME MsgInv, [Next]_vars PROVE MsgInv'
  OBVIOUS
<1>1. ASSUME NEW c \in Call, Begin(c) PROVE MsgInv'
  BY <1>1, StepBegin
<1>2. ASSUME NEW c \in Call, SendFrame(c) PROVE MsgInv'
  BY <1>2, StepSendFrame
<1>3. ASSUME NEW c \in Call, Raise(c) PROVE MsgInv'
  BY <1>3, RaisingKeepsInv DEF Raise, MsgInv
<1>4. ASSUME NEW c \in Call, SendStale(c) PROVE MsgInv'
  BY <1>4, RaisingKeepsInv DEF SendStale
<1>5. CASE Close
  BY <1>5, StepClose
<1>6. CASE RecvFirst
  BY <1>6, StepRecvFirst
<1>7. CASE RecvMore
  BY <1>7, StepRecvMore
<1>8. CASE RecvReturns \/ RecvRaises
  BY <1>8, StepRecvEnds
<1>9. CASE UNCHANGED vars
  <2>1. /\ UNCHANGED sendVars /\ UNCHANGED <<wire, rest, got, cut, result>>
    BY <1>9 DEF vars, recvVars
  <2>2. SendInv' /\ UNCHANGED Troubled
    BY <2>1, RecvKeepsSendInv DEF MsgInv
  <2>3. TypeOK'
    BY <2>1 DEF MsgInv, TypeOK, sendVars, callVars
  <2>4. RecvInv'
    BY <2>1, <2>2 DEF MsgInv, RecvInv, OnTheWire, Receiving
  <2>5. QED
    BY <2>2, <2>3, <2>4 DEF MsgInv
<1>10. QED
  BY <1>1, <1>2, <1>3, <1>4, <1>5, <1>6, <1>7, <1>8, <1>9 DEF Next

LEMMA MsgInvariant == Spec => []MsgInv
BY MsgInit, MsgStep, PTL DEF Spec

(* What recv returns is one call's message, or somebody was in trouble.    *)
THEOREM MessagesAreWhole == Spec => []WholeUnlessTroubled
<1>1. MsgInv => WholeUnlessTroubled
  BY DEF MsgInv, RecvInv, Receiving, Good, WholeUnlessTroubled
<1>2. QED
  BY <1>1, MsgInvariant, PTL

(* A call that fails half-way spoils one message at most.                  *)
THEOREM OneSpoiledMessage == Spec => []DamageBounded
<1>1. MsgInv => DamageBounded
  BY DEF MsgInv, SendInv, Damage, DamageBounded
<1>2. QED
  BY <1>1, MsgInvariant, PTL

(* Every variable keeps its type.                                          *)
THEOREM MultipartTyped == Spec => []TypeOK
<1>1. MsgInv => TypeOK
  BY DEF MsgInv
<1>2. QED
  BY <1>1, MsgInvariant, PTL

-----------------------------------------------------------------------------
(* A call that returns ends its message.                                   *)
LEMMA ReturnsAreSends ==
  ASSUME MsgInv, [Next]_vars, NEW c \in Call,
         fate[c] = "active", fate'[c] = "done"
  PROVE  SendFrame(c) /\ IsLast(c) /\ ~HasMore(c)
<1> USE DEF MsgInv, TypeOK
<1>1. ASSUME NEW d \in Call, Begin(d) PROVE FALSE
  BY <1>1 DEF Begin
<1>2. ASSUME NEW d \in Call, SendFrame(d), ~IsLast(d) PROVE FALSE
  BY <1>2 DEF SendFrame
<1>3. ASSUME NEW d \in Call, SendFrame(d), IsLast(d)
      PROVE  SendFrame(c) /\ IsLast(c) /\ ~HasMore(c)
  <2>1. fate' = [fate EXCEPT ![d] = "done"] /\ sent[d] \in Nat
    BY <1>3 DEF SendFrame, Leave
  <2>2. c = d
    BY <2>1
  <2>3. ~HasMore(d)
    BY <1>3, <2>1, FramesType DEF IsLast, HasMore
  <2>4. QED
    BY <1>3, <2>2, <2>3
<1>4. ASSUME NEW d \in Call, Raise(d) \/ SendStale(d) PROVE FALSE
  BY <1>4 DEF Raise, SendStale, Leave
<1>5. ASSUME UNCHANGED fate PROVE FALSE
  BY <1>5
<1>6. CASE Close \/ RecvFirst \/ RecvMore \/ RecvReturns \/ RecvRaises \/ UNCHANGED vars
  BY <1>5, <1>6 DEF Close, RecvFirst, RecvMore, RecvReturns, RecvRaises, TakeFrame,
                    vars, sendVars, callVars
<1>7. QED
  BY <1>1, <1>2, <1>3, <1>4, <1>6 DEF Next

(* What send has returned for is on the wire, whole.                       *)
THEOREM UndisturbedAreWhole == Spec => UndisturbedSendsWhole
<1>1. ASSUME MsgInv, [Next]_vars, NEW c \in Call \ disturbed,
             fate[c] = "active", fate'[c] = "done", Calls(pending) \subseteq {c}
      PROVE  wire' = Append(wire, Whole(c))
  <2>1. SendFrame(c) /\ IsLast(c) /\ ~HasMore(c)
    BY <1>1, ReturnsAreSends
  <2>2. c = top /\ open /\ wire' = Append(wire, Message(c))
    BY <2>1 DEF SendFrame
  <2>3. Message(c) = Whole(c)
    BY <1>1, <2>1, <2>2, OwnMessage, OthersFirst DEF MsgInv
  <2>4. QED
    BY <2>2, <2>3
<1>2. MsgInv /\ [Next]_vars =>
        [\A c \in Call \ disturbed :
           fate[c] = "active" /\ fate'[c] = "done" /\ Calls(pending) \subseteq {c}
             => wire' = Append(wire, Whole(c))]_vars
  BY <1>1
<1>3. QED
  BY <1>2, MsgInvariant, PTL DEF Spec, UndisturbedSendsWhole
=============================================================================
