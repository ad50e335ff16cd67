------------------------------- MODULE Options -------------------------------
(***************************************************************************)
(* What crosses the border between Ruby and libzmq: numbers that change    *)
(* their width, Strings that libzmq fills, and the options that            *)
(* Socket#curve_security sets one by one on a socket.                      *)
(*                                                                         *)
(* These do not touch each other, so what is followed is chosen at the     *)
(* start: a number of some kind, a String or the security of a socket.  A  *)
(* call that raises before it changes anything is not shown.               *)
(***************************************************************************)
EXTENDS Integers, Sequences

CONSTANTS
  IntMax,   \* of a C int
  LongMax,  \* of an int64_t
  Exact,    \* up to here a Float has every integer
  LenMax,   \* MRB_INT_MAX, which bounds the length of a String
  EmbedLen, \* RSTRING_EMBED_LEN_MAX, the room that every String has
  Asked,    \* numbers a program sets an option to
  Length    \* lengths it asks for or gives

ASSUME OptionsAssumption ==
  /\ IntMax \in Nat /\ LongMax \in Nat /\ Exact \in Nat /\ Exact <= LongMax
  /\ LenMax \in Nat /\ EmbedLen \in Nat /\ EmbedLen <= LenMax
  /\ Asked \subseteq Int /\ Length \subseteq 0 .. LenMax

VARIABLES
  kind,      \* what is followed
  asked,     \* what the program set it to
  value,     \* what libzmq has
  got,       \* what the program read back since then
  seen,      \* did it?
  room,      \* length of the String that libzmq was last given to fill
  filled,    \* how many bytes it wrote there
  mechanism, \* of the socket
  asServer,  \* its role for that mechanism
  keys,      \* the keys set
  role,      \* what curve_security was last called for
  todo,      \* what it has still to do
  secured    \* "no", "begun" or "done": how far it got, unless the program
             \* chose another mechanism since

numVars == <<kind, asked, value, got, seen>>
strVars == <<room, filled>>
sockVars == <<mechanism, asServer, keys>>
vars == <<numVars, strVars, sockVars, role, todo, secured>>

Long   == {"int64", "uint64"}
Number == {"int", "interval", "routing"} \cup Long
Key    == {"curve_serverkey", "curve_publickey", "curve_secretkey"}
Step   == Key \cup {"curve_server", "zap_domain", "mechanism"}

(* int, int64_t, size_t and uint64_t, uint32_t; mrb_int is an int64_t.     *)
CInt   == -IntMax - 1 .. IntMax
CInt64 == -LongMax - 1 .. LongMax
CSize  == 0 .. 2 * LongMax + 1
CUint  == 0 .. 2 * IntMax + 1

TypeOK ==
  /\ kind \in Number \cup {"string", "security"} /\ asked \in Int
  /\ value \in (CASE kind = "int"      -> CInt
                  [] kind = "int64"    -> CInt64
                  [] kind = "uint64"   -> CSize
                  [] kind = "interval" -> CSize
                  [] kind = "routing"  -> CUint
                  [] OTHER             -> {0})
  /\ got \in Int /\ seen \in BOOLEAN
  /\ room \in Nat /\ filled \in Nat
  /\ mechanism \in {"NULL", "PLAIN", "CURVE"} /\ asServer \in BOOLEAN
  /\ keys \subseteq Key /\ role \in {"server", "client"}
  /\ todo \in Seq(Step) /\ secured \in {"no", "begun", "done"}

Init ==
  /\ kind \in Number \cup {"string", "security"} /\ asked = 0 /\ value = 0
  /\ got = 0 /\ seen = FALSE
  /\ room = 0 /\ filled = 0
  /\ mechanism = "NULL" /\ asServer = FALSE /\ keys = {}
  /\ role = "client" /\ todo = <<>> /\ secured = "no"

-----------------------------------------------------------------------------
(* Numbers: options, the interval of a timer, the routing id of a Msg.  A  *)
(* cast to int or uint32_t drops the high bits, one to size_t or uint64_t  *)
(* adds 2^64 to a negative number, and one to int64_t takes it away again. *)
Narrow(v)   == ((v + IntMax + 1) % (2 * IntMax + 2)) - (IntMax + 1)
Unsigned(v) == v % (2 * LongMax + 2)
Signed(v)   == ((v + LongMax + 1) % (2 * LongMax + 2)) - (LongMax + 1)
Low(v)      == v % (2 * IntMax + 2)

(* Numeric#to_f: beyond Exact only some integers are Floats.               *)
Floats(v) ==
  IF v \in -Exact .. Exact THEN {v} ELSE {w \in {v - 1, v, v + 1} : w % 2 = 0}

(* The cast of a Float to int64_t is undefined when it does not fit.       *)
Cast(v) == IF Floats(v) \subseteq CInt64 THEN Floats(v) ELSE CInt64

(* Slips to catch: all are cast to int; an interval is not cast.           *)
PassesNarrow(v) == CASE kind \in {"int", "int64"}       -> {Narrow(v)}
                     [] kind \in {"uint64", "interval"} -> {Unsigned(Narrow(v))}
                     [] kind = "routing"                -> {Low(v)}

PassesUncast(v) == CASE kind = "int"      -> {Narrow(v)}
                     [] kind = "int64"    -> Cast(v)
                     [] kind = "uint64"   -> {Unsigned(w) : w \in Cast(v)}
                     [] kind = "interval" -> {v}
                     [] kind = "routing"  -> {Low(v)}

(* What libzmq may have when the program sets a number to v: maxmsgsize is *)
(* an int64_t and affinity a uint64_t, and both go through a Float.        *)
Passes(v) == CASE kind = "int"      -> {Narrow(v)}
               [] kind = "int64"    -> Cast(v)
               [] kind = "uint64"   -> {Unsigned(w) : w \in Cast(v)}
               [] kind = "interval" -> {Unsigned(v)}
               [] kind = "routing"  -> {Low(v)}

(* All but a Float are mrb_ints.  libzmq refuses the routing id 0.         *)
Set(v) ==
  /\ kind \in Number /\ (kind \notin Long => v \in CInt64)
  /\ asked' = v /\ value' \in Passes(v) /\ got' = 0 /\ seen' = FALSE
  /\ kind = "routing" => value' # 0
  /\ UNCHANGED <<kind, strVars, sockVars, role, todo, secured>>

(* A slip to catch: an affinity is read as it is.                          *)
GivesRaw(x) == x

(* getsockopt reads affinity, too, into an int64_t; no other conversion    *)
(* changes the number.                                                     *)
Gives(x) == IF kind = "uint64" THEN Signed(x) ELSE x

(* getsockopt, or routing_id of a Msg; an interval cannot be read.         *)
Get ==
  /\ kind \in Number \ {"interval"}
  /\ got' = Gives(value) /\ seen' = TRUE
  /\ UNCHANGED <<kind, asked, value, strVars, sockVars, role, todo, secured>>

(* zmq_timers_add and zmq_timers_set_interval add the interval to a clock  *)
(* of 64 bits.                                                             *)
DueAt(now) == (now + value) % (2 * LongMax + 2)

-----------------------------------------------------------------------------
(* Strings that libzmq fills.                                              *)
Fill(n, bytes) ==
  /\ kind = "string"
  /\ room' = n /\ filled' = bytes
  /\ UNCHANGED <<numVars, sockVars, role, todo, secured>>

(* getsockopt gives libzmq the capacity of a String of the length asked    *)
(* for; it fails when its value is longer.                                 *)
Capacity(n) == IF n <= EmbedLen THEN EmbedLen ELSE n

GetString(n, bytes) ==
  /\ n > 0 /\ bytes <= Capacity(n)
  /\ Fill(Capacity(n), bytes)

(* A slip to catch: the result may be longer than a String.                *)
EncodeAny(size) ==
  size % 4 = 0 /\ Fill((size \div 4) * 5, (size \div 4) * 5 + 1)

(* zmq_z85_encode writes five characters for four bytes, then a NUL.       *)
Encode(size) ==
  /\ size % 4 = 0 /\ size \div 4 <= LenMax \div 5
  /\ Fill((size \div 4) * 5, (size \div 4) * 5 + 1)

Decode(len) ==
  /\ len % 5 = 0 /\ len \div 5 <= LenMax \div 4
  /\ Fill((len \div 5) * 4, (len \div 5) * 4)

(* zmq_curve_keypair writes 40 characters and a NUL, twice.                *)
Keypair == LenMax >= 40 /\ Fill(40, 41)

-----------------------------------------------------------------------------
(* Options of a socket that select its security mechanism.                 *)
Apply(o) ==
  /\ kind = "security"
  /\ mechanism' = IF o = "zap_domain" THEN mechanism ELSE "CURVE"
  /\ asServer' = CASE o = "curve_server"    -> TRUE
                   [] o = "curve_serverkey" -> FALSE
                   [] OTHER                 -> asServer
  /\ keys' = keys \cup ({o} \cap Key)

(* One of its setters, called by the program.                              *)
SetCurve(o) ==
  /\ todo = <<>> /\ Apply(o)
  /\ secured' = IF secured = "no" THEN "no" ELSE "begun"
  /\ UNCHANGED <<numVars, strVars, role, todo>>

(* plain_server=, plain_username=, curve_server = false                    *)
SetOther ==
  /\ kind = "security" /\ todo = <<>>
  /\ mechanism' \in {"NULL", "PLAIN"} /\ asServer' \in BOOLEAN
  /\ secured' = "no"
  /\ UNCHANGED <<numVars, strVars, keys, role, todo>>

(* Socket#curve_security                                                   *)
Steps(r) ==
  IF r = "server"
    THEN <<"curve_server", "curve_secretkey", "zap_domain", "mechanism">>
    ELSE <<"curve_serverkey", "curve_publickey", "curve_secretkey",
           "mechanism">>

CurveSecurity(r) ==
  /\ kind = "security" /\ todo = <<>>
  /\ role' = r /\ todo' = Steps(r)
  /\ secured' = IF secured = "no" THEN "no" ELSE "begun"
  /\ UNCHANGED <<numVars, strVars, sockVars>>

CurveSets ==
  /\ Len(todo) > 1
  /\ Apply(Head(todo)) /\ todo' = Tail(todo) /\ secured' = "begun"
  /\ UNCHANGED <<numVars, strVars, role>>

CurveReturns ==
  /\ todo = <<"mechanism">> /\ mechanism = "CURVE"
  /\ todo' = <<>> /\ secured' = "done"
  /\ UNCHANGED <<numVars, strVars, sockVars, role>>

(* A slip to catch: what was set is taken back.                            *)
CurveResets ==
  /\ todo # <<>>
  /\ todo' = <<>> /\ mechanism' = "NULL" /\ asServer' = FALSE
  /\ UNCHANGED <<numVars, strVars, keys, role, secured>>

(* A key is missing, cannot be converted or is refused, or the mechanism   *)
(* cannot be read: what was set so far stays.                              *)
CurveRaises ==
  /\ todo # <<>>
  /\ todo' = <<>>
  /\ UNCHANGED <<numVars, strVars, sockVars, role, secured>>

Next ==
  \/ \E v \in Asked : Set(v)
  \/ Get
  \/ \E n, bytes \in Length : GetString(n, bytes)
  \/ \E n \in Length : Encode(n) \/ Decode(n)
  \/ Keypair
  \/ \E o \in Key \cup {"curve_server"} : SetCurve(o)
  \/ \E r \in {"server", "client"} : CurveSecurity(r)
  \/ SetOther \/ CurveSets \/ CurveReturns \/ CurveRaises

Spec == Init /\ [][Next]_vars

-----------------------------------------------------------------------------
(* The program reads back the number it set exactly if the C type can hold *)
(* it and, for an option that goes through a Float, a Float can: whatever  *)
(* is cut on the way is never put together again by the way back.  Only a  *)
(* Float whose cast is undefined may come back as anything.                *)
Kept == CASE kind = "int"     -> CInt
          [] kind = "routing" -> CUint
          [] kind \in Long    -> {v \in CInt64 : v \in Floats(v)}

ReadsBack ==
  seen /\ (kind \in Long => Floats(asked) \subseteq CInt64)
    => (got = asked <=> asked \in Kept)

(* A program that sets an option to what it read there changes nothing in  *)
(* libzmq, also when the number it first asked for had been cut; beyond    *)
(* 2^53 this holds for the numbers only that a Float has.                  *)
Restores ==
  [][seen /\ ~seen' /\ asked' = got
       => value' = value \/ (kind \in Long /\ got \notin Floats(got))]_vars

(* Whenever a timer is started it is due as much later as was asked, up to *)
(* the longest interval.  A negative interval is not an error: the timer   *)
(* is due at once, or never if that would be before the clock began.       *)
IntervalsKept ==
  kind = "interval" =>
    \A now \in 0 .. LongMax :
      IF asked >= 0 THEN DueAt(now) = now + asked
      ELSE IF now + asked >= 0 THEN DueAt(now) < now
      ELSE DueAt(now) > LongMax

(* libzmq writes no further than the NUL that mruby allocates behind a     *)
(* String, and no String is longer than mruby allows.                      *)
StringsHold == filled <= room + 1 /\ room <= LenMax

(* Once curve_security has set an option, the socket does not speak in     *)
(* clear, also when it raised half-way, until the program chooses another  *)
(* mechanism; once it returned, the socket has the role and the keys.      *)
Needed == IF role = "server" THEN {"curve_secretkey"} ELSE Key

CurveHolds ==
  /\ secured # "no" => mechanism = "CURVE"
  /\ secured = "done" => Needed \subseteq keys /\ asServer = (role = "server")
=============================================================================
