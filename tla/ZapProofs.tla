------------------------------ MODULE ZapProofs ------------------------------
(***************************************************************************)
(* What the handler of Zap promises, for any number of clients.            *)
(***************************************************************************)
EXTENDS Zap, FiniteSetTheorems, TLAPS

(* What the authenticator said goes with the reply under way, and a client *)
(* that was answered 200 was let in by it.                                 *)
StatusMeans ==
  /\ pc = "reply" /\ status = "200" => now \in user
  /\ GrantedIsAuthenticated

(* A client is in one place of the handler's work at most: it has not      *)
(* asked, it waits in the Router, it is being handled, or it is done with. *)
Place ==
  /\ \A c \in inbox : client[c] # "quiet"
  /\ pc # "idle" => now \notin inbox /\ client[now] # "quiet"
  /\ \A c \in Client :
       answers[c] > 0 \/ c \in dropped \cup merged
         => client[c] # "quiet" /\ c \notin inbox /\ (pc # "idle" => now # c)

(* An unfinished message is for the client being handled or for one that   *)
(* was left without an answer, and that one has not got any yet.           *)
OpenMeans ==
  open # NONE =>
    /\ answers[open] = 0
    /\ client[open] # "quiet" /\ open \notin inbox
    /\ open \in dropped \/ (pc = "rescue" /\ open = now)

ZapInv == TypeOK /\ StatusMeans /\ Place /\ OpenMeans /\ OneAnswer /\ SilenceExplained

LEMMA InitZapInv == Init => ZapInv
<1> SUFFICES ASSUME Init PROVE ZapInv
  OBVIOUS
<1> USE DEF Init
<1>1. TypeOK
  BY DEF TypeOK, Status, Kind
<1>2. StatusMeans /\ OneAnswer /\ SilenceExplained
  BY DEF StatusMeans, GrantedIsAuthenticated, OneAnswer, SilenceExplained
<1>3. Place /\ OpenMeans
  BY DEF Place, OpenMeans
<1> QED
  BY <1>1, <1>2, <1>3 DEF ZapInv

(* Types.                                                                  *)
LEMMA StepTypes == TypeOK /\ [Next]_vars => TypeOK'
<1> SUFFICES ASSUME TypeOK, [Next]_vars PROVE TypeOK'
  OBVIOUS
<1> USE DEF TypeOK, handlerVars, replyVars, Status, Kind
<1>1. ASSUME NEW c \in Client, NEW k \in Kind, Ask(c, k) PROVE TypeOK'
  BY <1>1 DEF Ask
<1>2. ASSUME NEW c \in Client, GiveUp(c) PROVE TypeOK'
  BY <1>2 DEF GiveUp
<1>3. ASSUME NEW c \in Client, Receive(c) PROVE TypeOK'
  BY <1>3 DEF Receive
<1>4. CASE Authenticate
  BY <1>4 DEF Authenticate, Rescued, Abandon
<1>5. ASSUME NEW st \in Status, Complete(st), pc # "idle"
      PROVE /\ client' \in [Client -> {"quiet", "waiting", "gone", "malformed"} \cup Status]
            /\ answers' \in [Client -> Nat]
            /\ open' \in Client \cup {NONE} /\ merged' \subseteq Client
  BY <1>5 DEF Complete
<1>6. CASE Reply
  <2>1. CASE Complete(status) /\ pc' = "idle" /\ UNCHANGED dropped
    BY <1>5, <1>6, <2>1 DEF Reply
  <2>2. CASE BreakOff
    BY <1>6, <2>2 DEF Reply, BreakOff, Rescued, Abandon
  <2> QED
    BY <1>6, <2>1, <2>2 DEF Reply
<1>7. CASE RescueReply
  BY <1>5, <1>7 DEF RescueReply
<1>8. CASE RescueGivesUp
  BY <1>8 DEF RescueGivesUp, Abandon
<1>9. CASE UNCHANGED vars
  BY <1>9 DEF vars
<1> QED
  BY <1>1, <1>2, <1>3, <1>4, <1>6, <1>7, <1>8, <1>9 DEF Next, Handler

(* A complete message: what it does to the rest of the invariant.          *)
LEMMA CompleteKeeps ==
  ASSUME ZapInv, NEW st \in Status, Complete(st),
         pc # "idle", pc' = "idle", st = "200" => now \in user,
         UNCHANGED <<request, inbox, now, status, user, dropped>>
  PROVE  (StatusMeans /\ Place /\ OpenMeans /\ OneAnswer /\ SilenceExplained)'
<1> USE DEF ZapInv, TypeOK, Complete
<1> DEFINE to == IF open = NONE THEN now ELSE open
<1>1. /\ to \in Client /\ answers[to] = 0 /\ to \notin inbox /\ client[to] # "quiet"
      /\ now \in Client /\ now \notin inbox /\ client[now] # "quiet"
  <2>1. now \in Client /\ now \notin inbox /\ client[now] # "quiet" /\ answers[now] = 0
    BY DEF Place
  <2>2. open # NONE => answers[open] = 0 /\ open \notin inbox /\ client[open] # "quiet"
    BY DEF OpenMeans
  <2> QED
    BY <2>1, <2>2
<1>2. /\ answers' = [answers EXCEPT ![to] = 1]
      /\ \A c \in Client : client'[c] = "quiet" <=> client[c] = "quiet"
  BY <1>1 DEF Status
<1>3. StatusMeans'
  BY <1>1 DEF StatusMeans, GrantedIsAuthenticated
<1>4. Place'
  BY <1>1, <1>2 DEF Place
<1>5. OpenMeans'
  BY DEF OpenMeans
<1>6. OneAnswer'
  BY <1>2 DEF OneAnswer
<1>7. SilenceExplained'
  BY <1>1, <1>2 DEF SilenceExplained
<1> QED
  BY <1>3, <1>4, <1>5, <1>6, <1>7

LEMMA StepZapInv == ZapInv /\ [Next]_vars => ZapInv'
<1> SUFFICES ASSUME ZapInv, [Next]_vars PROVE ZapInv'
  OBVIOUS
<1>t. TypeOK /\ TypeOK'
  BY StepTypes DEF ZapInv
<1> DEFINE Rest == StatusMeans /\ Place /\ OpenMeans /\ OneAnswer /\ SilenceExplained
<1> SUFFICES Rest'
  BY <1>t DEF ZapInv
<1> USE <1>t, ZapAssumption DEF TypeOK, handlerVars, replyVars
<1>i. Rest
  BY DEF ZapInv
<1>1. ASSUME NEW c \in Client, NEW k \in Kind, Ask(c, k) PROVE Rest'
  <2> USE <1>1 DEF Ask
  <2>1. StatusMeans' /\ OneAnswer'
    BY <1>i DEF StatusMeans, GrantedIsAuthenticated, OneAnswer
  <2>2. Place' /\ OpenMeans'
    BY <1>i DEF Place, OpenMeans
  <2>3. SilenceExplained'
    BY <1>i DEF SilenceExplained
  <2> QED
    BY <2>1, <2>2, <2>3
<1>2. ASSUME NEW c \in Client, GiveUp(c) PROVE Rest'
  <2> USE <1>2 DEF GiveUp
  <2>1. StatusMeans' /\ OneAnswer'
    BY <1>i DEF StatusMeans, GrantedIsAuthenticated, OneAnswer
  <2>2. Place' /\ OpenMeans'
    BY <1>i DEF Place, OpenMeans
  <2>3. SilenceExplained'
    BY <1>i DEF SilenceExplained
  <2> QED
    BY <2>1, <2>2, <2>3
<1>3. ASSUME NEW c \in Client, Receive(c) PROVE Rest'
  <2> USE <1>3 DEF Receive
  <2>1. StatusMeans' /\ OneAnswer'
    BY <1>i DEF StatusMeans, GrantedIsAuthenticated, OneAnswer
  <2>2. Place' /\ OpenMeans'
    BY <1>i DEF Place, OpenMeans
  <2>3. SilenceExplained'
    BY <1>i DEF SilenceExplained
  <2> QED
    BY <2>1, <2>2, <2>3
<1>4. ASSUME pc # "idle", Abandon, pc = "rescue" \/ open = NONE \/ open \in dropped,
             UNCHANGED <<client, inbox, now, status, replyVars, user>>
      PROVE  Rest'
  <2> USE <1>4 DEF Abandon
  <2>1. StatusMeans' /\ OneAnswer'
    BY <1>i DEF StatusMeans, GrantedIsAuthenticated, OneAnswer
  <2>2. Place' /\ OpenMeans'
    BY <1>i DEF Place, OpenMeans
  <2>3. SilenceExplained'
    BY <1>i DEF SilenceExplained
  <2> QED
    BY <2>1, <2>2, <2>3
<1>5. CASE Authenticate
  <2>1. CASE Abandon /\ UNCHANGED <<status, user>>
    BY <1>4, <1>5, <1>i, <2>1 DEF Authenticate, OpenMeans
  <2>2. CASE pc' \in {"reply", "rescue"} /\ UNCHANGED dropped
    <3> USE <1>5, <2>2 DEF Authenticate, Rescued
    <3>1. StatusMeans' /\ OneAnswer'
      BY <1>i DEF StatusMeans, GrantedIsAuthenticated, OneAnswer, Abandon
    <3>2. Place' /\ OpenMeans'
      BY <1>i DEF Place, OpenMeans
    <3>3. SilenceExplained'
      BY <1>i DEF SilenceExplained
    <3> QED
      BY <3>1, <3>2, <3>3
  <2> QED
    BY <1>5, <2>1, <2>2 DEF Authenticate, Rescued
<1>6. CASE Reply
  <2>1. CASE Complete(status) /\ pc' = "idle" /\ UNCHANGED dropped
    BY <1>6, <1>i, <2>1, CompleteKeeps DEF Reply, StatusMeans
  <2>2. CASE BreakOff /\ (Rescued \/ Abandon)
    <3> USE <1>6, <2>2 DEF Reply, BreakOff, Rescued, Abandon
    <3>1. StatusMeans' /\ OneAnswer'
      BY <1>i DEF StatusMeans, GrantedIsAuthenticated, OneAnswer
    <3>2. Place'
      BY <1>i DEF Place
    <3>3. OpenMeans'
      BY <1>i DEF Place, OpenMeans
    <3>4. SilenceExplained'
      BY <1>i DEF SilenceExplained
    <3> QED
      BY <3>1, <3>2, <3>3, <3>4
  <2> QED
    BY <1>6, <2>1, <2>2 DEF Reply
<1>7. CASE RescueReply
  BY <1>7, CompleteKeeps DEF RescueReply, Status
<1>8. CASE RescueGivesUp
  BY <1>4, <1>8 DEF RescueGivesUp
<1>9. CASE UNCHANGED vars
  BY <1>9, <1>i DEF vars, StatusMeans, GrantedIsAuthenticated, Place, OpenMeans,
     OneAnswer, SilenceExplained
<1> QED
  BY <1>1, <1>2, <1>3, <1>5, <1>6, <1>7, <1>8, <1>9 DEF Next, Handler

LEMMA AlwaysZapInv == Spec => []ZapInv
<1>1. Init => ZapInv
  BY InitZapInv
<1>2. ZapInv /\ [Next]_vars => ZapInv'
  BY StepZapInv
<1> QED
  BY <1>1, <1>2, PTL DEF Spec

(* Nobody is let in whom the authenticator did not accept.                 *)
THEOREM NobodySlipsIn == Spec => []GrantedIsAuthenticated
<1>1. ZapInv => GrantedIsAuthenticated
  BY DEF ZapInv, StatusMeans
<1> QED
  BY <1>1, AlwaysZapInv, PTL

(* No request is answered twice.                                           *)
THEOREM AnsweredOnce == Spec => []OneAnswer
<1>1. ZapInv => OneAnswer
  BY DEF ZapInv
<1> QED
  BY <1>1, AlwaysZapInv, PTL

(* Every request that stays without an answer has one of three reasons.    *)
THEOREM SilenceHasReason == Spec => []SilenceExplained
<1>1. ZapInv => SilenceExplained
  BY DEF ZapInv
<1> QED
  BY <1>1, AlwaysZapInv, PTL

(* Every variable keeps its type.                                          *)
THEOREM ZapTyped == Spec => []TypeOK
<1>1. ZapInv => TypeOK
  BY DEF ZapInv
<1> QED
  BY <1>1, AlwaysZapInv, PTL

-----------------------------------------------------------------------------
(* Counting victims: an unfinished message left by an abandoned request    *)
(* is one victim that is still to come.                                    *)
ToCome    == IF open # NONE /\ open \in dropped THEN 1 ELSE 0
VictimInv == Cardinality(merged) + ToCome <= Cardinality(dropped)

LEMMA Finite ==
  ASSUME TypeOK
  PROVE  /\ IsFiniteSet(merged) /\ Cardinality(merged) \in Nat
         /\ IsFiniteSet(dropped) /\ Cardinality(dropped) \in Nat
BY ZapAssumption, FS_Subset, FS_CardinalityType DEF TypeOK

LEMMA StepVictimInv == ZapInv /\ VictimInv /\ [Next]_vars => VictimInv'
<1> SUFFICES ASSUME ZapInv, VictimInv, [Next]_vars PROVE VictimInv'
  OBVIOUS
<1> USE Finite DEF ZapInv, VictimInv, ToCome, handlerVars, replyVars
<1>1. ASSUME UNCHANGED <<open, merged, dropped>> PROVE VictimInv'
  BY <1>1
<1>2. pc # "idle" => now \in Client /\ now # NONE /\ now \notin dropped \cup merged
  BY ZapAssumption DEF TypeOK, Place
<1>3. ASSUME pc # "idle", UNCHANGED merged, dropped' = dropped \cup {now}
      PROVE  VictimInv'
  <2>1. Cardinality(dropped') = Cardinality(dropped) + 1
    BY <1>2, <1>3, FS_AddElement
  <2> QED
    BY <1>3, <2>1
<1>4. ASSUME NEW st, pc # "idle", Complete(st), UNCHANGED dropped PROVE VictimInv'
  <2>1. open' = NONE
    BY <1>4 DEF Complete
  <2>2. CASE open \in {NONE, now}
    BY <1>4, <2>1, <2>2 DEF Complete
  <2>3. CASE open \notin {NONE, now}
    <3>1. open \in dropped
      BY <2>3 DEF OpenMeans
    <3>2. Cardinality(merged') = Cardinality(merged) + 1
      BY <1>2, <1>4, <2>3, FS_AddElement DEF Complete
    <3> QED
      BY <1>4, <2>1, <2>3, <3>1, <3>2
  <2> QED
    BY <2>2, <2>3
<1>5. CASE Authenticate
  BY <1>1, <1>3, <1>5 DEF Authenticate, Rescued, Abandon
<1>6. CASE Reply
  <2>1. CASE Complete(status) /\ UNCHANGED dropped
    BY <1>4, <1>6, <2>1 DEF Reply
  <2>2. CASE BreakOff /\ Abandon
    BY <1>3, <1>6, <2>2 DEF Reply, BreakOff, Abandon
  <2>3. CASE BreakOff /\ Rescued
    BY <1>2, <1>6, <2>3 DEF Reply, BreakOff, Rescued
  <2> QED
    BY <1>6, <2>1, <2>2, <2>3 DEF Reply
<1>7. CASE RescueReply
  BY <1>4, <1>7 DEF RescueReply
<1>8. CASE RescueGivesUp
  BY <1>3, <1>8 DEF RescueGivesUp, Abandon
<1>9. ASSUME NEW c \in Client,
             GiveUp(c) \/ Receive(c) \/ \E k \in Kind : Ask(c, k)
      PROVE  VictimInv'
  BY <1>1, <1>9 DEF GiveUp, Receive, Ask
<1>10. CASE UNCHANGED vars
  BY <1>1, <1>10 DEF vars
<1> QED
  BY <1>5, <1>6, <1>7, <1>8, <1>9, <1>10 DEF Next, Handler

(* The damage of a request without an answer is one other client at most.  *)
THEOREM DamageIsBounded == Spec => []OneVictimEach
<1>1. Init => VictimInv
  BY FS_EmptySet DEF Init, VictimInv, ToCome
<1>2. ZapInv /\ VictimInv => OneVictimEach
  BY Finite DEF ZapInv, VictimInv, ToCome, OneVictimEach
<1> QED
  BY <1>1, <1>2, StepVictimInv, AlwaysZapInv, PTL DEF Spec

-----------------------------------------------------------------------------
(* What the answers say.                                                   *)

(* Every answer a client takes for one is about its own request, also when *)
(* other replies broke off before: 200 goes to a user, 400 to one the      *)
(* authenticator refused, 500 to one whose version is wrong, 300 to one    *)
(* whose request was in order.  What does not parse was begun for this     *)
(* client and broken off where send_reply converts something.              *)
RightAnswer(c) ==
  /\ client[c] = "200" => c \in user /\ request[c] = "good"
  /\ client[c] = "400" => c \notin user /\ request[c] = "good"
  /\ client[c] = "500" => request[c] = "version"
  /\ client[c] = "300" => request[c] = "good"
  /\ client[c] = "malformed" => c \in user \/ request[c] \in NoId
RightAnswers == \A c \in Client : RightAnswer(c)

(* A client that still waits is in the Router's queue or being handled,    *)
(* unless its request was left without an answer or its reply was appended *)
(* to the message for another: it cannot be forgotten in any other way.    *)
NobodyForgotten ==
  \A c \in Client :
    client[c] = "waiting" =>
      c \in inbox \/ (pc # "idle" /\ now = c) \/ c \in dropped \cup merged

(* What the handler knows of the request at each of its places.            *)
PlaceMeans ==
  /\ pc = "auth" => request[now] = "good" /\ now \notin user
  /\ pc = "reply" =>
       \/ status = "200" /\ request[now] = "good" /\ now \in user
       \/ status = "400" /\ request[now] = "good" /\ now \notin user
       \/ status = "500" /\ request[now] \in {"version", "stub"}
  /\ pc = "rescue" => request[now] # "version"

(* Only who asked can be a user, and an unfinished message was begun for a *)
(* user or for a request without an id.                                    *)
AnswerInv ==
  /\ PlaceMeans
  /\ \A c \in user : client[c] # "quiet" /\ c \notin inbox
  /\ open # NONE => open \in user \/ request[open] \in NoId
  /\ \A c \in Client :
       /\ answers[c] > 0 => client[c] # "waiting"
       /\ answers[c] = 0 => client[c] \in {"quiet", "waiting", "gone"}
  /\ RightAnswers

LEMMA InitAnswerInv == Init => AnswerInv
BY DEF Init, AnswerInv, PlaceMeans, RightAnswers, RightAnswer, Status

(* A complete reply goes to the client it names, which reads it as its     *)
(* answer only if nothing was sent before it in the same message.          *)
LEMMA CompleteAnswers ==
  ASSUME ZapInv, AnswerInv, NEW st \in Status, Complete(st),
         pc # "idle", pc' = "idle",
         st = "200" => now \in user /\ request[now] = "good",
         st = "400" => now \notin user /\ request[now] = "good",
         st = "500" => request[now] = "version",
         st = "300" => request[now] = "good",
         UNCHANGED <<request, inbox, now, status, user, dropped>>
  PROVE  AnswerInv'
<1> USE DEF ZapInv, TypeOK, Complete
<1> DEFINE to == IF open = NONE THEN now ELSE open
<1>1. /\ now \in Client /\ client[now] # "quiet"
      /\ to \in Client
      /\ open # NONE => to \in user \/ request[to] \in NoId
  BY DEF Place, AnswerInv
<1>2. \A c \in Client : c # to => client'[c] = client[c] /\ answers'[c] = answers[c]
  OBVIOUS
<1>3. \/ client'[to] = client[to] /\ client[to] # "waiting"
      \/ open = NONE /\ client'[to] = st
      \/ open # NONE /\ client'[to] = "malformed"
  BY <1>1
<1>4. RightAnswers'
  <2>1. \A c \in Client : c # to => RightAnswer(c)'
    BY <1>2 DEF AnswerInv, RightAnswers, RightAnswer
  <2>2. ASSUME NEW c \in Client, c = to PROVE RightAnswer(c)'
    <3>1. CASE client'[c] = client[c]
      BY <1>1, <2>2, <3>1 DEF AnswerInv, RightAnswers, RightAnswer
    <3>2. CASE open = NONE /\ client'[c] = st
      BY <2>2, <3>2 DEF RightAnswer, Status
    <3>3. CASE open # NONE /\ client'[c] = "malformed"
      BY <1>1, <2>2, <3>3 DEF RightAnswer
    <3> QED
      BY <1>3, <2>2, <3>1, <3>2, <3>3
  <2> QED
    BY <2>1, <2>2 DEF RightAnswers
<1>5. \A c \in user : client'[c] # "quiet"
  BY <1>1, <1>2, <1>3 DEF AnswerInv, Status
<1>6. \A c \in Client :
        /\ answers'[c] > 0 => client'[c] # "waiting"
        /\ answers'[c] = 0 => client'[c] \in {"quiet", "waiting", "gone"}
  BY <1>1, <1>2, <1>3 DEF AnswerInv, Status
<1> QED
  BY <1>4, <1>5, <1>6 DEF AnswerInv, PlaceMeans

LEMMA StepAnswerInv == ZapInv /\ AnswerInv /\ [Next]_vars => AnswerInv'
<1> SUFFICES ASSUME ZapInv, AnswerInv, [Next]_vars PROVE AnswerInv'
  OBVIOUS
<1> USE ZapAssumption DEF ZapInv, TypeOK, handlerVars, replyVars, NoId
<1>1. ASSUME NEW c \in Client, NEW k \in Kind, Ask(c, k) PROVE AnswerInv'
  <2> USE <1>1 DEF Ask
  <2>1. c \notin user /\ open # c /\ answers[c] = 0 /\ (pc # "idle" => now # c)
    BY DEF AnswerInv, OpenMeans, Place
  <2>2. RightAnswers'
    BY DEF AnswerInv, RightAnswers, RightAnswer
  <2> QED
    BY <2>1, <2>2 DEF AnswerInv, PlaceMeans
<1>2. ASSUME NEW c \in Client, GiveUp(c) PROVE AnswerInv'
  <2> USE <1>2 DEF GiveUp
  <2>1. RightAnswers'
    BY DEF AnswerInv, RightAnswers, RightAnswer
  <2> QED
    BY <2>1 DEF AnswerInv, PlaceMeans
<1>3. ASSUME NEW c \in Client, Receive(c) PROVE AnswerInv'
  <2> USE <1>3 DEF Receive
  <2>1. PlaceMeans'
    BY DEF AnswerInv, PlaceMeans
  <2> QED
    BY <2>1 DEF AnswerInv, RightAnswers, RightAnswer
<1>4. ASSUME pc # "idle", Abandon,
             UNCHANGED <<client, request, inbox, now, status, answers, user>>,
             open' = open \/ (open' = now /\ (now \in user \/ request[now] \in NoId))
      PROVE  AnswerInv'
  BY <1>4 DEF Abandon, AnswerInv, PlaceMeans, RightAnswers, RightAnswer
<1>5. CASE Authenticate
  <2>1. CASE Abandon /\ UNCHANGED <<status, user>>
    BY <1>4, <1>5, <2>1 DEF Authenticate
  <2>2. CASE pc' \in {"reply", "rescue"} /\ UNCHANGED dropped
    <3> USE <1>5, <2>2 DEF Authenticate, Rescued, Abandon
    <3>1. PlaceMeans'
      BY DEF AnswerInv, PlaceMeans
    <3>2. now \in Client /\ now \notin inbox /\ client[now] # "quiet"
          /\ client[now] \in {"waiting", "gone"}
      BY DEF Place, AnswerInv
    <3>3. RightAnswers'
      BY <3>2 DEF AnswerInv, RightAnswers, RightAnswer
    <3> QED
      BY <3>1, <3>2, <3>3 DEF AnswerInv
  <2> QED
    BY <1>5, <2>1, <2>2 DEF Authenticate, Rescued
<1>6. CASE Reply
  <2>1. CASE Complete(status) /\ pc' = "idle" /\ UNCHANGED dropped /\ request[now] \notin NoId
    <3>1. /\ status = "200" => now \in user /\ request[now] = "good"
          /\ status = "400" => now \notin user /\ request[now] = "good"
          /\ status = "500" => request[now] = "version"
          /\ status # "300"
      BY <1>6, <2>1 DEF Reply, AnswerInv, PlaceMeans
    <3> QED
      BY <1>6, <2>1, <3>1, CompleteAnswers DEF Reply
  <2>2. CASE /\ BreakOff /\ (Rescued \/ Abandon)
             /\ status = "200" \/ request[now] \in NoId
    <3>1. now \in user \/ request[now] \in NoId
      BY <1>6, <2>2 DEF Reply, AnswerInv, PlaceMeans
    <3>2. request[now] # "version"
      BY <1>6, <2>2 DEF Reply, AnswerInv, PlaceMeans
    <3>3. CASE Abandon
      BY <1>4, <1>6, <2>2, <3>1, <3>3 DEF Reply, BreakOff
    <3>4. CASE Rescued
      BY <1>6, <2>2, <3>1, <3>2, <3>4
         DEF Reply, BreakOff, Rescued, AnswerInv, PlaceMeans, RightAnswers, RightAnswer
    <3> QED
      BY <2>2, <3>3, <3>4
  <2> QED
    BY <1>6, <2>1, <2>2 DEF Reply
<1>7. CASE RescueReply
  <2>1. request[now] = "good"
    BY <1>7 DEF RescueReply, AnswerInv, PlaceMeans, Kind
  <2> QED
    BY <1>7, <2>1, CompleteAnswers DEF RescueReply, Status
<1>8. CASE RescueGivesUp
  BY <1>4, <1>8 DEF RescueGivesUp
<1>9. CASE UNCHANGED vars
  BY <1>9 DEF vars, AnswerInv, PlaceMeans, RightAnswers, RightAnswer
<1> QED
  BY <1>1, <1>2, <1>3, <1>5, <1>6, <1>7, <1>8, <1>9 DEF Next, Handler

LEMMA AlwaysAnswerInv == Spec => [](ZapInv /\ AnswerInv)
BY InitAnswerInv, StepAnswerInv, AlwaysZapInv, PTL DEF Spec

(* No client takes the reply to another for its own.                       *)
THEOREM AnswersAreRight == Spec => []RightAnswers
<1>1. AnswerInv => RightAnswers
  BY DEF AnswerInv
<1> QED
  BY <1>1, AlwaysAnswerInv, PTL

(* No client waits without a reason: what EveryoneHears needs of safety.   *)
THEOREM NobodyIsForgotten == Spec => []NobodyForgotten
<1>1. ZapInv /\ AnswerInv => NobodyForgotten
  BY DEF ZapInv, TypeOK, AnswerInv, SilenceExplained, NobodyForgotten
<1> QED
  BY <1>1, AlwaysAnswerInv, PTL
=============================================================================
