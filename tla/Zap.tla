--------------------------------- MODULE Zap ---------------------------------
(***************************************************************************)
(* ZMQ::Zap: a Ruby program answers the authentication requests of libzmq  *)
(* on a Router socket.  A reply is eight frames, sent one by one; the user *)
(* name and the metadata come from the authenticator and are converted     *)
(* only when the frames before them are sent already.  An exception there  *)
(* leaves an unfinished message in the Router, and whatever is sent next   *)
(* is appended to it.                                                      *)
(*                                                                         *)
(* A client asks once.  A context that is shut down is not modelled: from  *)
(* then on every send fails and nothing is delivered any more.             *)
(***************************************************************************)
EXTENDS Naturals, FiniteSets

CONSTANTS Client, NONE

ASSUME ZapAssumption == IsFiniteSet(Client) /\ NONE \notin Client

VARIABLES
  client,   \* what each client is doing, or the answer it got
  request,  \* the kind of its request
  inbox,    \* clients whose request waits in the Router
  pc,       \* where handle_zap is
  now,      \* the client whose request it handles
  status,   \* of the reply it is about to send
  open,     \* the client an unfinished message in the Router is for
  user,     \* clients for which the authenticator returned a user
  answers,  \* how many messages each client was sent
  dropped,  \* clients whose request handle_zap left without an answer
  merged    \* clients whose reply was appended to the message for another

vars == <<client, request, inbox, pc, now, status, open, user, answers,
          dropped, merged>>

(* OK, Invalid credentials, Version number not valid, Temporary Error      *)
Status == {"200", "400", "500", "300"}

(* "version": not ZAP 1.0; "short": the request id is missing; "stub":     *)
(* both.  libzmq itself sends none of them, another socket of the program  *)
(* may.                                                                    *)
Kind == {"good", "version", "short", "stub"}
NoId == {"short", "stub"}

TypeOK ==
  /\ client \in [Client -> {"quiet", "waiting", "gone", "malformed"} \cup Status]
  /\ request \in [Client -> Kind]
  /\ inbox \subseteq Client
  /\ pc \in {"idle", "auth", "reply", "rescue"}
  /\ now \in Client \cup {NONE} /\ (pc # "idle" => now \in Client)
  /\ status \in Status
  /\ open \in Client \cup {NONE}
  /\ user \subseteq Client
  /\ answers \in [Client -> Nat]
  /\ dropped \subseteq Client /\ merged \subseteq Client

Init ==
  /\ client = [c \in Client |-> "quiet"]
  /\ request = [c \in Client |-> "good"]
  /\ inbox = {}
  /\ pc = "idle" /\ now = NONE /\ status = "300" /\ open = NONE
  /\ user = {} /\ dropped = {} /\ merged = {}
  /\ answers = [c \in Client |-> 0]

handlerVars == <<pc, now, status>>
replyVars   == <<open, answers, merged>>

-----------------------------------------------------------------------------
(* The clients: connections that libzmq authenticates.                     *)
Ask(c, k) ==
  /\ client[c] = "quiet"
  /\ client' = [client EXCEPT ![c] = "waiting"]
  /\ request' = [request EXCEPT ![c] = k]
  /\ inbox' = inbox \cup {c}
  /\ UNCHANGED <<handlerVars, replyVars, user, dropped>>

(* The connection ends before it was answered.                             *)
GiveUp(c) ==
  /\ client[c] = "waiting"
  /\ client' = [client EXCEPT ![c] = "gone"]
  /\ UNCHANGED <<request, inbox, handlerVars, replyVars, user, dropped>>

-----------------------------------------------------------------------------
(* handle_zap                                                              *)

(* A slip to catch: the handler keeps the identity of an earlier request.  *)
ReceiveKeeps(c) ==
  /\ pc = "idle" /\ c \in inbox
  /\ inbox' = inbox \ {c}
  /\ pc' = "auth"
  /\ UNCHANGED <<client, request, now, status, replyVars, user, dropped>>

(* A missing version or domain raises NoMethodError.                       *)
Receive(c) ==
  /\ pc = "idle" /\ c \in inbox
  /\ inbox' = inbox \ {c}
  /\ now' = c
  /\ \/ request[c] = "good"    /\ pc' = "auth"   /\ UNCHANGED status
     \/ request[c] = "short"   /\ pc' = "rescue" /\ UNCHANGED status
     \/ request[c] \in {"version", "stub"} /\ pc' = "reply" /\ status' = "500"
  /\ UNCHANGED <<client, request, replyVars, user, dropped>>

(* handle_zap ends with no answer: an exception leaves it, because it is   *)
(* not a StandardError or is raised while ZMQ.logger.crash reports one.    *)
Abandon == pc' = "idle" /\ dropped' = dropped \cup {now}

(* A StandardError is rescued.                                             *)
Rescued == pc' = "rescue" /\ UNCHANGED dropped

(* A slip to catch: any result of the authenticator counts as a user.      *)
AuthenticateAny ==
  /\ pc = "auth"
  /\ pc' = "reply" /\ status' = "200"
  /\ user' \in {user, user \cup {now}}
  /\ UNCHANGED <<client, request, inbox, now, replyVars, dropped>>

Authenticate ==
  /\ pc = "auth"
  /\ \/ /\ pc' = "reply" /\ status' = "200"
        /\ user' = user \cup {now}
        /\ UNCHANGED dropped
     \/ /\ pc' = "reply" /\ status' = "400"
        /\ UNCHANGED <<user, dropped>>
     \/ /\ Rescued \/ Abandon
        /\ UNCHANGED <<status, user>>
  /\ UNCHANGED <<client, request, inbox, now, replyVars>>

(* A slip to catch: the last frame, too, is sent with SNDMORE.             *)
CompleteWithMore(st) ==
  /\ open' = IF open = NONE THEN now ELSE open
  /\ merged' = IF open \in {NONE, now} THEN merged ELSE merged \cup {now}
  /\ UNCHANGED <<client, answers>>

(* The last frame of a reply is sent.  The message goes to the client its  *)
(* first frame names, which takes no more than one reply in it for an      *)
(* answer; the Router drops it if that client is gone.                     *)
Complete(st) ==
  LET to == IF open = NONE THEN now ELSE open IN
  /\ client' = [client EXCEPT ![to] =
                  IF @ # "waiting" THEN @
                  ELSE IF open = NONE THEN st ELSE "malformed"]
  /\ answers' = [answers EXCEPT ![to] = @ + 1]
  /\ open' = NONE
  /\ merged' = IF open \in {NONE, now} THEN merged ELSE merged \cup {now}

(* send_reply.  What a reply with a user converts may raise: the name when *)
(* six frames are sent, the metadata when seven are.  A missing request id *)
(* raises after three.                                                     *)
BreakOff ==
  /\ open' = IF open = NONE THEN now ELSE open
  /\ UNCHANGED <<client, answers, merged>>

(* A slip to catch: something raises when the reply is complete.           *)
ReplyThenRaise ==
  /\ pc = "reply"
  /\ Complete(status)
  /\ Rescued \/ Abandon
  /\ UNCHANGED <<request, inbox, now, status, user>>

Reply ==
  /\ pc = "reply"
  /\ \/ /\ request[now] \notin NoId
        /\ Complete(status)
        /\ pc' = "idle" /\ UNCHANGED dropped
     \/ /\ status = "200"
        /\ BreakOff
        /\ Rescued \/ Abandon
     \/ /\ request[now] \in NoId
        /\ BreakOff
        /\ Rescued
  /\ UNCHANGED <<request, inbox, now, status, user>>

(* A slip to catch: the rescue clause only logs.                           *)
RescueLogsOnly ==
  /\ pc = "rescue" /\ pc' = "idle"
  /\ UNCHANGED <<client, request, inbox, now, status, replyVars, user, dropped>>

(* The rescue clause logs, then answers a request that has an id.          *)
RescueReply ==
  /\ pc = "rescue" /\ request[now] \notin NoId
  /\ Complete("300")
  /\ pc' = "idle"
  /\ UNCHANGED <<request, inbox, now, status, user, dropped>>

(* There is no id, or the logger raises.                                   *)
RescueGivesUp ==
  /\ pc = "rescue"
  /\ Abandon
  /\ UNCHANGED <<client, request, inbox, now, status, replyVars, user>>

-----------------------------------------------------------------------------
Handler ==
  \/ \E c \in Client : Receive(c)
  \/ Authenticate \/ Reply \/ RescueReply \/ RescueGivesUp

Next ==
  \/ \E c \in Client : GiveUp(c) \/ \E k \in Kind : Ask(c, k)
  \/ Handler

Spec == Init /\ [][Next]_vars

(* The program calls handle_zap whenever the Router has a request, as its  *)
(* poller tells it, and its authenticator returns.                         *)
FairSpec ==
  /\ Spec
  /\ \A c \in Client : WF_vars(Receive(c))
  /\ WF_vars(Authenticate \/ Reply \/ RescueReply \/ RescueGivesUp)

-----------------------------------------------------------------------------
(* A client is let in only if the authenticator returned a user for this   *)
(* very client, whatever exceptions broke replies off before.              *)
GrantedIsAuthenticated ==
  \A c \in Client : client[c] = "200" => c \in user

(* No request is answered twice, not by the rescue clause either.          *)
OneAnswer == \A c \in Client : answers[c] <= 1

(* A request that was taken from the Router is answered unless it has no   *)
(* id, an exception left handle_zap while it was handled, or an earlier    *)
(* request ended in such a way and left its message unfinished.            *)
SilenceExplained ==
  \A c \in Client :
    client[c] # "quiet" /\ c \notin inbox /\ (pc = "idle" \/ now # c)
      => answers[c] = 1 \/ c \in dropped \cup merged

(* A request that ends without an answer takes the answer from at most one *)
(* other client: handle_zap recovers by itself.                            *)
OneVictimEach == Cardinality(merged) <= Cardinality(dropped)

(* Every client hears something, with the same exceptions.                 *)
EveryoneHears ==
  \A c \in Client :
    client[c] = "waiting" ~> client[c] # "waiting" \/ c \in dropped \cup merged

(* zap.rb:25: when authenticating raises the client is answered 300,       *)
(* 'Temporary Error'.  After seven frames of another reply it is not.      *)
TemporaryErrorSent ==
  [][RescueReply /\ client[now] = "waiting" => client'[now] = "300"]_vars
=============================================================================
