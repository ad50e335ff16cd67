---------------------------- MODULE OptionsProofs ----------------------------
(***************************************************************************)
(* What crosses the border to libzmq stays within its bounds, for every    *)
(* width of the types and every length of a String.                        *)
(***************************************************************************)
EXTENDS Options, TLAPS

(* A number that is not negative and below the divisor is its remainder.   *)
LEMMA SmallRemainder ==
  ASSUME NEW n \in Nat, NEW d \in Nat, n < d
  PROVE  n % d = n
  OBVIOUS

(* A remainder is below the divisor.                                       *)
LEMMA RemainderBelow ==
  ASSUME NEW n \in Int, NEW d \in Nat, d > 0
  PROVE  n % d \in Nat /\ n % d < d
  OBVIOUS

(* A cast to int yields an int, and leaves an int alone.                   *)
LEMMA NarrowIsInt ==
  ASSUME NEW v \in Int
  PROVE  Narrow(v) \in CInt /\ (v \in CInt => Narrow(v) = v)
<1> DEFINE w == v + IntMax + 1
           d == 2 * IntMax + 2
<1>1. IntMax \in Nat BY OptionsAssumption
<1>2. w \in Int /\ d \in Nat /\ d > 0 BY <1>1
<1>3. w % d \in Nat /\ w % d < d BY <1>2, RemainderBelow
<1>4. v \in CInt => w \in Nat /\ w < d BY <1>1 DEF CInt
<1>5. v \in CInt => w % d = w BY <1>2, <1>4, SmallRemainder
<1>6. Narrow(v) = (w % d) - (IntMax + 1) BY DEF Narrow
<1>7. Narrow(v) \in CInt
  <2> HIDE DEF w, d
  <2>1. d = 2 * IntMax + 2 BY DEF d
  <2> QED BY <1>1, <1>3, <1>6, <2>1 DEF CInt
<1>8. v \in CInt => Narrow(v) = v
  <2>1. ASSUME v \in CInt PROVE Narrow(v) = v
    <3>1. w % d = w BY <1>5, <2>1
    <3>2. Narrow(v) = w - (IntMax + 1) BY <1>6, <3>1
    <3> QED BY <1>1, <3>2
  <2> QED BY <2>1
<1> QED BY <1>7, <1>8

(* A cast to size_t yields a size_t, and leaves one alone.                 *)
LEMMA UnsignedIsSize ==
  ASSUME NEW v \in Int
  PROVE  Unsigned(v) \in CSize /\ (v \in CSize => Unsigned(v) = v)
<1> DEFINE d == 2 * LongMax + 2
<1>1. LongMax \in Nat BY OptionsAssumption
<1>2. d \in Nat /\ d > 0 BY <1>1
<1>3. v % d \in Nat /\ v % d < d BY <1>2, RemainderBelow
<1>4. v \in CSize => v \in Nat /\ v < d BY <1>1 DEF CSize
<1>5. v \in CSize => v % d = v BY <1>2, <1>4, SmallRemainder
<1>6. Unsigned(v) = v % d BY DEF Unsigned
<1>7. Unsigned(v) \in CSize
  <2> HIDE DEF d
  <2>1. d = 2 * LongMax + 2 BY DEF d
  <2> QED BY <1>1, <1>3, <1>6, <2>1 DEF CSize
<1> QED BY <1>5, <1>6, <1>7

(* A cast to uint32_t likewise.                                            *)
LEMMA LowIsUint ==
  ASSUME NEW v \in Int
  PROVE  Low(v) \in CUint /\ (v \in CUint => Low(v) = v)
<1> DEFINE d == 2 * IntMax + 2
<1>1. IntMax \in Nat BY OptionsAssumption
<1>2. d \in Nat /\ d > 0 BY <1>1
<1>3. v % d \in Nat /\ v % d < d BY <1>2, RemainderBelow
<1>4. v \in CUint => v \in Nat /\ v < d BY <1>1 DEF CUint
<1>5. v \in CUint => v % d = v BY <1>2, <1>4, SmallRemainder
<1>6. Low(v) = v % d BY DEF Low
<1>7. Low(v) \in CUint
  <2> HIDE DEF d
  <2>1. d = 2 * IntMax + 2 BY DEF d
  <2> QED BY <1>1, <1>3, <1>6, <2>1 DEF CUint
<1> QED BY <1>5, <1>6, <1>7

(* A remainder does not see the divisor.                                   *)
LEMMA ShiftedRemainder ==
  ASSUME NEW n \in Nat, NEW d \in Nat, n < d
  PROVE  (n + d) % d = n
  OBVIOUS

(* To uint64_t and back again.                                             *)
LEMMA SignedUnsigned ==
  ASSUME NEW w \in CInt64
  PROVE  Unsigned(w) \in CSize /\ Signed(Unsigned(w)) = w
<1> DEFINE d == 2 * LongMax + 2
           s == w + LongMax + 1
<1>1. LongMax \in Nat BY OptionsAssumption
<1>2. /\ d \in Nat /\ s \in Nat /\ s < d /\ w \in Int
      /\ w >= 0 => w \in CSize
      /\ w < 0 => w + d \in Nat /\ w + d < d
  BY <1>1 DEF CInt64, CSize
<1>3. Signed(Unsigned(w)) = ((Unsigned(w) + LongMax + 1) % d) - (LongMax + 1)
  BY DEF Signed
<1>4. CASE w >= 0
  <2>1. Unsigned(w) = w BY <1>2, <1>4, UnsignedIsSize
  <2>2. s % d = s BY <1>2, SmallRemainder
  <2>3. ((w + LongMax + 1) % d) - (LongMax + 1) = s - (LongMax + 1) BY <2>2
  <2>4. s - (LongMax + 1) = w BY <1>1, <1>2
  <2> QED BY <1>2, <1>3, <1>4, <2>1, <2>3, <2>4, UnsignedIsSize
<1>5. CASE w < 0
  <2>1. Unsigned(w) = w + d
    <3>1. w % d = w + d
      <4>1. w + d \in Nat /\ w + d < d /\ d \in Nat /\ w \in Int BY <1>2, <1>5
      <4> HIDE DEF d
      <4> QED BY <4>1
    <3> QED BY <3>1 DEF Unsigned
  <2>2. (s + d) % d = s BY <1>2, ShiftedRemainder
  <2>3. Unsigned(w) + LongMax + 1 = s + d BY <1>1, <1>2, <2>1
  <2>4. Signed(Unsigned(w)) = s - (LongMax + 1) BY <1>3, <2>2, <2>3
  <2>5. s - (LongMax + 1) = w BY <1>1, <1>2
  <2> QED BY <1>2, <2>4, <2>5, UnsignedIsSize
<1> QED BY <1>2, <1>4, <1>5

(* A cast of a Float yields an int64_t, and an integer that Floats have    *)
(* comes out as it went in.                                                *)
LEMMA CastIsInt64 ==
  ASSUME NEW v \in Int
  PROVE  /\ Cast(v) \subseteq CInt64
         /\ v \in Floats(v) => Floats(v) = {v}
         /\ v \in Floats(v) /\ v \in CInt64 => Cast(v) = {v}
<1>1. Cast(v) \subseteq CInt64 BY DEF Cast
<1>2. ASSUME v \in Floats(v) PROVE Floats(v) = {v}
  <2>1. CASE v \in -Exact .. Exact BY <2>1 DEF Floats
  <2>2. CASE v \notin -Exact .. Exact
    <3>1. v % 2 = 0 /\ (v + 1) % 2 # 0 /\ (v - 1) % 2 # 0 BY <1>2, <2>2 DEF Floats
    <3> QED BY <2>2, <3>1 DEF Floats
  <2> QED BY <2>1, <2>2
<1> QED BY <1>1, <1>2 DEF Cast

-----------------------------------------------------------------------------
(* Numbers, Strings and the security of a socket, each typed.              *)
Has(k) == CASE k = "int"      -> CInt
             [] k = "int64"    -> CInt64
             [] k = "uint64"   -> CSize
             [] k = "interval" -> CSize
             [] k = "routing"  -> CUint
             [] OTHER          -> {0}

NumOK ==
  /\ kind \in Number \cup {"string", "security"} /\ asked \in Int
  /\ value \in Has(kind)
  /\ got \in Int /\ seen \in BOOLEAN

(* What libzmq has comes from what the program asked for, and what the     *)
(* program read from what libzmq has.                                      *)
NumComes ==
  /\ kind \in Number => value \in Passes(asked)
  /\ kind \in Number \ Long => asked \in CInt64
  /\ seen => kind \in Number \ {"interval"} /\ got = Gives(value)

StrOK == room \in Nat /\ filled \in Nat
SockOK ==
  /\ mechanism \in {"NULL", "PLAIN", "CURVE"} /\ asServer \in BOOLEAN
  /\ keys \subseteq Key /\ role \in {"server", "client"}
  /\ todo \in Seq(Step) /\ secured \in {"no", "begun", "done"}

(* What the parts of a step leave alone.                                   *)
LEMMA NumKept ==
  NumOK /\ NumComes /\ UNCHANGED numVars => NumOK' /\ NumComes'
  BY DEF NumOK, NumComes, numVars, Number, Long, Passes, Narrow, Unsigned, Low,
         Cast, Floats, CInt64, Gives, Signed

LEMMA StrKept ==
  StrOK /\ UNCHANGED strVars => StrOK' /\ (StringsHold => StringsHold')
  BY DEF StrOK, strVars, StringsHold

(* Whatever number the program sets, libzmq gets one of the type that its  *)
(* option has.                                                             *)
LEMMA PassesTyped ==
  ASSUME NEW v \in Int
  PROVE  /\ kind = "int" => Passes(v) = {Narrow(v)} /\ Narrow(v) \in CInt
         /\ kind = "int64" => Passes(v) = Cast(v)
         /\ kind = "uint64" => /\ Passes(v) = {Unsigned(w) : w \in Cast(v)}
                              /\ Passes(v) \subseteq CSize
         /\ kind = "interval" => Passes(v) = {Unsigned(v)} /\ Unsigned(v) \in CSize
         /\ kind = "routing" => Passes(v) = {Low(v)} /\ Low(v) \in CUint
<1>1. Narrow(v) \in CInt BY NarrowIsInt
<1>2. Unsigned(v) \in CSize BY UnsignedIsSize
<1>3. Low(v) \in CUint BY LowIsUint
<1>4. {Unsigned(w) : w \in Cast(v)} \subseteq CSize BY CastIsInt64, SignedUnsigned
<1> QED BY <1>1, <1>2, <1>3, <1>4 DEF Passes

LEMMA SetTyped ==
  ASSUME NumOK, NEW v \in Asked, Set(v)
  PROVE  NumOK' /\ NumComes'
<1>1. v \in Int BY OptionsAssumption
<1>2. /\ kind \in Number /\ kind' = kind /\ asked' = v /\ value' \in Passes(v)
      /\ kind \notin Long => v \in CInt64
      /\ got' = 0 /\ seen' = FALSE
  BY DEF Set
<1>3. Passes(v) \subseteq Has(kind)
  BY <1>1, <1>2, PassesTyped, CastIsInt64 DEF Has, Number, Long
<1>4. NumOK'
  <2>1. seen' \in BOOLEAN BY <1>2
  <2>2. got' \in Int /\ value' \in Has(kind) BY <1>2, <1>3
  <2> QED BY <1>1, <1>2, <2>1, <2>2 DEF NumOK, Has
<1>5. NumComes'
  BY <1>2 DEF NumComes, Passes, Narrow, Unsigned, Low, Cast, Floats, CInt64
<1> QED BY <1>4, <1>5

LEMMA GetTyped ==
  ASSUME NumOK, NumComes, Get
  PROVE  NumOK' /\ NumComes'
<1>1. /\ kind \in Number \ {"interval"} /\ UNCHANGED <<kind, asked, value>>
      /\ got' = Gives(value) /\ seen' = TRUE
  BY DEF Get
<1>2. value \in Int
  BY <1>1, OptionsAssumption DEF NumOK, Has, Number, Long, CInt, CInt64, CSize, CUint
<1>3. Gives(value) \in Int BY <1>2, OptionsAssumption DEF Gives, Signed
<1>4. NumOK' BY <1>1, <1>3 DEF NumOK
<1>5. NumComes'
  BY <1>1 DEF NumComes, Passes, Narrow, Unsigned, Low, Cast, Floats, CInt64,
              Gives, Signed
<1> QED BY <1>4, <1>5

(* What comes back, kind by kind.                                          *)
LEMMA BackAgain ==
  ASSUME NumOK, NumComes
  PROVE  ReadsBack
<1> SUFFICES ASSUME seen, kind \in Long => Floats(asked) \subseteq CInt64
             PROVE  got = asked <=> asked \in Kept
  BY DEF ReadsBack
<1>1. /\ kind \in Number \ {"interval"} /\ got = Gives(value)
      /\ value \in Passes(asked) /\ asked \in Int
  BY DEF NumComes, NumOK
<1>2. CASE kind = "int"
  <2>1. got = Narrow(asked) BY <1>1, <1>2, PassesTyped DEF Gives
  <2>2. Kept = CInt BY <1>2 DEF Kept, Long
  <2> QED BY <1>1, <2>1, <2>2, NarrowIsInt
<1>3. CASE kind = "routing"
  <2>1. got = Low(asked) BY <1>1, <1>3, PassesTyped DEF Gives
  <2>2. Kept = CUint BY <1>3 DEF Kept, Long
  <2> QED BY <1>1, <2>1, <2>2, LowIsUint
<1>4. CASE kind \in Long
  <2>1. Cast(asked) = Floats(asked) BY <1>4 DEF Cast
  <2>2. got \in Floats(asked)
    <3>1. CASE kind = "int64" BY <1>1, <2>1, <3>1, PassesTyped DEF Gives
    <3>2. CASE kind = "uint64"
      <4>1. PICK w \in Cast(asked) : value = Unsigned(w)
        BY <1>1, <3>2, PassesTyped
      <4>2. Signed(value) = w BY <1>1, <4>1, CastIsInt64, SignedUnsigned
      <4> QED BY <1>1, <2>1, <3>2, <4>2 DEF Gives
    <3> QED BY <1>4, <3>1, <3>2 DEF Long
  <2>3. Kept = {v \in CInt64 : v \in Floats(v)} BY <1>4 DEF Kept, Long
  <2>4. asked \in Kept <=> asked \in Floats(asked) BY <1>4, <2>3
  <2> QED BY <1>1, <2>2, <2>4, CastIsInt64
<1> QED BY <1>1, <1>2, <1>3, <1>4 DEF Number

(* What is set to what was read stays what it is.                          *)
LEMMA SetAgain ==
  ASSUME NumOK, NumComes, NEW v \in Asked, Set(v), seen, v = got,
         kind \in Long => got \in Floats(got)
  PROVE  value' = value
<1>1. /\ kind \in Number \ {"interval"} /\ got = Gives(value)
      /\ value \in Passes(asked) /\ asked \in Int /\ got \in Int
      /\ value' \in Passes(got)
  BY DEF NumComes, NumOK, Set
<1>2. CASE kind = "int"
  <2>1. got = value /\ value \in CInt BY <1>1, <1>2, PassesTyped DEF Gives
  <2> QED BY <1>1, <1>2, <2>1, NarrowIsInt, PassesTyped
<1>3. CASE kind = "routing"
  <2>1. got = value /\ value \in CUint BY <1>1, <1>3, PassesTyped DEF Gives
  <2> QED BY <1>1, <1>3, <2>1, LowIsUint, PassesTyped
<1>4. CASE kind = "int64"
  <2>1. got = value /\ value \in CInt64
    BY <1>1, <1>4, PassesTyped, CastIsInt64 DEF Gives
  <2>2. Cast(got) = {got} BY <1>1, <1>4, <2>1, CastIsInt64 DEF Long
  <2> QED BY <1>1, <1>4, <2>1, <2>2, PassesTyped
<1>5. CASE kind = "uint64"
  <2>1. PICK w \in Cast(asked) : value = Unsigned(w)
    BY <1>1, <1>5, PassesTyped
  <2>2. got = w /\ w \in CInt64
    BY <1>1, <1>5, <2>1, CastIsInt64, SignedUnsigned DEF Gives
  <2>3. Cast(got) = {got} BY <1>1, <1>5, <2>2, CastIsInt64 DEF Long
  <2> QED BY <1>1, <1>5, <2>1, <2>2, <2>3, PassesTyped
<1> QED BY <1>1, <1>2, <1>3, <1>4, <1>5 DEF Number, Long

(* When a timer is due, whatever the clock shows.                          *)
LEMMA DueAsAsked ==
  ASSUME NumOK, NumComes
  PROVE  IntervalsKept
<1> DEFINE d == 2 * LongMax + 2
<1> SUFFICES ASSUME kind = "interval", NEW now \in 0 .. LongMax
             PROVE  IF asked >= 0 THEN DueAt(now) = now + asked
                    ELSE IF now + asked >= 0 THEN DueAt(now) < now
                    ELSE DueAt(now) > LongMax
  BY DEF IntervalsKept
<1>1. /\ LongMax \in Nat /\ d \in Nat /\ now \in Nat /\ now <= LongMax
      /\ asked \in Int /\ asked >= -LongMax - 1 /\ asked <= LongMax
      /\ value = Unsigned(asked) /\ DueAt(now) = (now + value) % d
  BY OptionsAssumption, PassesTyped
     DEF NumOK, NumComes, Number, Long, CInt64, DueAt
<1>2. CASE asked >= 0
  <2>1. value = asked BY <1>1, <1>2, UnsignedIsSize DEF CSize
  <2>2. now + asked \in Nat /\ now + asked < d BY <1>1, <1>2
  <2>3. (now + asked) % d = now + asked BY <1>1, <2>2, SmallRemainder
  <2> QED BY <1>1, <1>2, <2>1, <2>3
<1>3. CASE asked < 0
  <2>1. value = asked + d
    <3>1. asked + d \in Nat /\ asked + d < d BY <1>1, <1>3
    <3>2. asked % d = asked + d
      <4> HIDE DEF d
      <4> QED BY <1>1, <3>1
    <3> QED BY <1>1, <3>2 DEF Unsigned
  <2>2. CASE now + asked >= 0
    <3>1. now + asked \in Nat /\ now + asked < d BY <1>1, <1>3, <2>2
    <3>2. ((now + asked) + d) % d = now + asked BY <1>1, <3>1, ShiftedRemainder
    <3>3. now + value = (now + asked) + d BY <1>1, <2>1
    <3>4. DueAt(now) = now + asked BY <1>1, <3>2, <3>3
    <3> QED BY <1>1, <1>3, <2>2, <3>4
  <2>3. CASE now + asked < 0
    <3>1. now + value \in Nat /\ now + value < d /\ now + value > LongMax
      BY <1>1, <2>1, <2>3
    <3>2. (now + value) % d = now + value BY <1>1, <3>1, SmallRemainder
    <3> QED BY <1>1, <1>3, <2>3, <3>1, <3>2
  <2> QED BY <1>1, <2>2, <2>3
<1> QED BY <1>1, <1>2, <1>3

(* What libzmq writes for data of the size given has room.                 *)
LEMMA FillsFit ==
  ASSUME NEW n \in Length,
         \/ \E bytes \in Length : GetString(n, bytes)
         \/ Encode(n) \/ Decode(n)
  PROVE  StrOK' /\ StringsHold'
<1>1. n \in Nat /\ n <= LenMax /\ LenMax \in Nat /\ EmbedLen \in Nat /\ EmbedLen <= LenMax
  BY OptionsAssumption
<1>2. ASSUME NEW bytes \in Length, GetString(n, bytes)
      PROVE  StrOK' /\ StringsHold'
  <2>1. bytes \in Nat BY OptionsAssumption
  <2> QED BY <1>1, <1>2, <2>1
    DEF GetString, Fill, Capacity, StrOK, StringsHold
<1>3. CASE Encode(n)
  <2>1. n \div 4 \in Nat /\ LenMax \div 5 \in Nat /\ n \div 4 <= LenMax \div 5
    BY <1>1, <1>3 DEF Encode
  <2>2. (LenMax \div 5) * 5 <= LenMax BY <1>1
  <2>3. room' = (n \div 4) * 5 /\ filled' = (n \div 4) * 5 + 1
    BY <1>3 DEF Encode, Fill
  <2> QED BY <1>1, <2>1, <2>2, <2>3 DEF StrOK, StringsHold
<1>4. CASE Decode(n)
  <2>1. n \div 5 \in Nat /\ LenMax \div 4 \in Nat /\ n \div 5 <= LenMax \div 4
    BY <1>1, <1>4 DEF Decode
  <2>2. (LenMax \div 4) * 4 <= LenMax BY <1>1
  <2>3. room' = (n \div 5) * 4 /\ filled' = (n \div 5) * 4
    BY <1>4 DEF Decode, Fill
  <2> QED BY <1>1, <2>1, <2>2, <2>3 DEF StrOK, StringsHold
<1> QED BY <1>2, <1>3, <1>4

(* Every String that libzmq fills has room for what it writes.             *)
LEMMA StringStep ==
  ASSUME StrOK, StringsHold, [Next]_vars
  PROVE  StrOK' /\ StringsHold'
<1>1. ASSUME UNCHANGED strVars PROVE StrOK' /\ StringsHold' BY <1>1, StrKept
<1>2. CASE (\E v \in Asked : Set(v)) \/ Get BY <1>1, <1>2 DEF Set, Get
<1>3. CASE \E n, bytes \in Length : GetString(n, bytes) BY <1>3, FillsFit
<1>4. CASE \E n \in Length : Encode(n) \/ Decode(n) BY <1>4, FillsFit
<1>5. CASE Keypair
  BY <1>5, OptionsAssumption DEF Keypair, Fill, StrOK, StringsHold
<1>6. CASE \E o \in Key \cup {"curve_server"} : SetCurve(o) BY <1>1, <1>6 DEF SetCurve
<1>7. CASE \E r \in {"server", "client"} : CurveSecurity(r)
  BY <1>1, <1>7 DEF CurveSecurity
<1>8. CASE SetOther BY <1>1, <1>8 DEF SetOther
<1>9. CASE CurveSets \/ CurveReturns \/ CurveRaises
  BY <1>1, <1>9 DEF CurveSets, CurveReturns, CurveRaises
<1>10. CASE UNCHANGED vars BY <1>1, <1>10 DEF vars
<1> QED BY <1>2, <1>3, <1>4, <1>5, <1>6, <1>7, <1>8, <1>9, <1>10 DEF Next

(* Setting and reading are the only steps on numbers.                      *)
LEMMA NumberSteps ==
  ASSUME [Next]_vars
  PROVE  (\E v \in Asked : Set(v)) \/ Get \/ UNCHANGED numVars
<1>1. ASSUME UNCHANGED numVars
      PROVE  (\E v \in Asked : Set(v)) \/ Get \/ UNCHANGED numVars
  BY <1>1
<1>2. CASE (\E v \in Asked : Set(v)) \/ Get BY <1>2
<1>3. CASE \E n, bytes \in Length : GetString(n, bytes)
  BY <1>1, <1>3 DEF GetString, Fill
<1>4. CASE \E n \in Length : Encode(n) \/ Decode(n)
  BY <1>1, <1>4 DEF Encode, Decode, Fill
<1>5. CASE Keypair BY <1>1, <1>5 DEF Keypair, Fill
<1>6. CASE \E o \in Key \cup {"curve_server"} : SetCurve(o) BY <1>1, <1>6 DEF SetCurve
<1>7. CASE \E r \in {"server", "client"} : CurveSecurity(r)
  BY <1>1, <1>7 DEF CurveSecurity
<1>8. CASE SetOther BY <1>1, <1>8 DEF SetOther
<1>9. CASE CurveSets \/ CurveReturns \/ CurveRaises
  BY <1>1, <1>9 DEF CurveSets, CurveReturns, CurveRaises
<1>10. CASE UNCHANGED vars BY <1>1, <1>10 DEF vars
<1> QED BY <1>2, <1>3, <1>4, <1>5, <1>6, <1>7, <1>8, <1>9, <1>10 DEF Next

LEMMA NumberStep ==
  ASSUME NumOK, NumComes, [Next]_vars
  PROVE  NumOK' /\ NumComes'
BY NumberSteps, NumKept, SetTyped, GetTyped

-----------------------------------------------------------------------------
(* How far curve_security is, and what it has set by then.                 *)
Serving ==
  \/ todo = <<"curve_server", "curve_secretkey", "zap_domain", "mechanism">>
  \/ todo = <<"curve_secretkey", "zap_domain", "mechanism">> /\ asServer
  \/ /\ todo \in {<<"zap_domain", "mechanism">>, <<"mechanism">>}
     /\ asServer /\ "curve_secretkey" \in keys /\ secured # "no"

Connecting ==
  \/ todo = <<"curve_serverkey", "curve_publickey", "curve_secretkey", "mechanism">>
  \/ /\ todo = <<"curve_publickey", "curve_secretkey", "mechanism">>
     /\ ~asServer /\ "curve_serverkey" \in keys
  \/ /\ todo = <<"curve_secretkey", "mechanism">>
     /\ ~asServer /\ {"curve_serverkey", "curve_publickey"} \subseteq keys
  \/ todo = <<"mechanism">> /\ ~asServer /\ Key \subseteq keys

Halfway ==
  todo # <<>> => IF role = "server" THEN Serving ELSE Connecting

(* It sets the next option, and every option but the domain selects CURVE. *)
LEMMA SetsNext ==
  ASSUME SockOK, Halfway, CurveHolds, CurveSets
  PROVE  SockOK' /\ Halfway' /\ CurveHolds'
<1>1. Len(todo) > 1 /\ Apply(Head(todo)) /\ todo' = Tail(todo)
      /\ secured' = "begun" /\ role' = role
  BY DEF CurveSets
<1>2. todo # <<>> /\ todo' \in Seq(Step) BY <1>1 DEF SockOK
<1>3. SockOK'
  <2>1. Head(todo) \in Step BY <1>1 DEF SockOK
  <2>2. /\ mechanism' \in {"NULL", "PLAIN", "CURVE"} /\ asServer' \in BOOLEAN
        /\ keys' \subseteq Key
    BY <1>1, <2>1 DEF Apply, SockOK
  <2> QED BY <1>1, <1>2, <2>2 DEF SockOK
<1>4. ASSUME role = "server" PROVE Halfway' /\ CurveHolds'
  <2>1. CASE todo = <<"curve_server", "curve_secretkey", "zap_domain", "mechanism">>
    <3>1. Head(todo) = "curve_server"
          /\ todo' = <<"curve_secretkey", "zap_domain", "mechanism">>
      BY <1>1, <2>1
    <3>2. mechanism' = "CURVE" /\ asServer' = TRUE /\ keys' = keys
      BY <1>1, <3>1 DEF Apply, Key
    <3> QED BY <1>1, <1>4, <3>1, <3>2
      DEF Halfway, Serving, CurveHolds
  <2>2. CASE todo = <<"curve_secretkey", "zap_domain", "mechanism">> /\ asServer
    <3>1. Head(todo) = "curve_secretkey" /\ todo' = <<"zap_domain", "mechanism">>
      BY <1>1, <2>2
    <3>2. mechanism' = "CURVE" /\ asServer' = asServer
          /\ keys' = keys \cup {"curve_secretkey"}
      BY <1>1, <3>1 DEF Apply, Key
    <3> QED BY <1>1, <1>4, <2>2, <3>1, <3>2
      DEF Halfway, Serving, CurveHolds
  <2>3. CASE /\ todo = <<"zap_domain", "mechanism">>
             /\ asServer /\ "curve_secretkey" \in keys /\ secured # "no"
    <3>1. Head(todo) = "zap_domain" /\ todo' = <<"mechanism">>
      BY <1>1, <2>3
    <3>2. mechanism' = mechanism /\ asServer' = asServer /\ keys' = keys
      BY <1>1, <3>1 DEF Apply, Key
    <3> QED BY <1>1, <1>4, <2>3, <3>1, <3>2
      DEF Halfway, Serving, CurveHolds
  <2>4. todo # <<"mechanism">> BY <1>1
  <2> QED BY <1>2, <1>4, <2>1, <2>2, <2>3, <2>4 DEF Halfway, Serving
<1>5. ASSUME role = "client" PROVE Halfway' /\ CurveHolds'
  <2> DEFINE Sets(o) == /\ mechanism' = "CURVE" /\ keys' = keys \cup {o}
                        /\ asServer' = IF o = "curve_serverkey" THEN FALSE ELSE asServer
  <2>1. \A o \in Key : Apply(o) => Sets(o) BY DEF Apply, Key
  <2>2. CASE todo = <<"curve_serverkey", "curve_publickey", "curve_secretkey", "mechanism">>
    <3>1. Head(todo) = "curve_serverkey"
          /\ todo' = <<"curve_publickey", "curve_secretkey", "mechanism">>
      BY <1>1, <2>2
    <3>2. Sets("curve_serverkey") BY <1>1, <2>1, <3>1 DEF Key
    <3> QED BY <1>1, <1>5, <3>1, <3>2
      DEF Halfway, Connecting, CurveHolds, Key
  <2>3. CASE /\ todo = <<"curve_publickey", "curve_secretkey", "mechanism">>
             /\ ~asServer /\ "curve_serverkey" \in keys
    <3>1. Head(todo) = "curve_publickey" /\ todo' = <<"curve_secretkey", "mechanism">>
      BY <1>1, <2>3
    <3>2. Sets("curve_publickey") BY <1>1, <2>1, <3>1 DEF Key
    <3> QED BY <1>1, <1>5, <2>3, <3>1, <3>2
      DEF Halfway, Connecting, CurveHolds, Key
  <2>4. CASE /\ todo = <<"curve_secretkey", "mechanism">>
             /\ ~asServer /\ {"curve_serverkey", "curve_publickey"} \subseteq keys
    <3>1. Head(todo) = "curve_secretkey" /\ todo' = <<"mechanism">>
      BY <1>1, <2>4
    <3>2. Sets("curve_secretkey") BY <1>1, <2>1, <3>1 DEF Key
    <3> QED BY <1>1, <1>5, <2>4, <3>1, <3>2
      DEF Halfway, Connecting, CurveHolds, Key
  <2>5. todo # <<"mechanism">> BY <1>1
  <2> QED BY <1>2, <1>5, <2>2, <2>3, <2>4, <2>5 DEF Halfway, Connecting
<1> QED BY <1>4, <1>5, <1>3 DEF SockOK

(* A step of the program or of curve_security keeps what it promises.      *)
LEMMA SecurityStep ==
  ASSUME SockOK, Halfway, CurveHolds, [Next]_vars
  PROVE  SockOK' /\ Halfway' /\ CurveHolds'
<1>1. ASSUME UNCHANGED <<sockVars, role, todo, secured>>
      PROVE  SockOK' /\ Halfway' /\ CurveHolds'
  BY <1>1 DEF sockVars, SockOK, Halfway, Serving, Connecting, CurveHolds, Needed
<1>2. CASE (\E v \in Asked : Set(v)) \/ Get BY <1>1, <1>2 DEF Set, Get
<1>3. CASE \E n, bytes \in Length : GetString(n, bytes)
  BY <1>1, <1>3 DEF GetString, Fill
<1>4. CASE \E n \in Length : Encode(n) \/ Decode(n)
  BY <1>1, <1>4 DEF Encode, Decode, Fill
<1>5. CASE Keypair BY <1>1, <1>5 DEF Keypair, Fill
<1>6. ASSUME NEW o \in Key \cup {"curve_server"}, SetCurve(o)
      PROVE  SockOK' /\ Halfway' /\ CurveHolds'
  <2>1. todo' = <<>> /\ todo' = todo /\ role' = role
        /\ secured' = IF secured = "no" THEN "no" ELSE "begun"
    BY <1>6 DEF SetCurve
  <2>2. mechanism' = "CURVE" /\ keys' \subseteq Key /\ asServer' \in BOOLEAN
    BY <1>6 DEF SetCurve, Apply, SockOK, Key
  <2> QED BY <2>1, <2>2 DEF SockOK, Halfway, CurveHolds
<1>7. ASSUME NEW r \in {"server", "client"}, CurveSecurity(r)
      PROVE  SockOK' /\ Halfway' /\ CurveHolds'
  <2>1. role' = r /\ todo' = Steps(r) /\ UNCHANGED sockVars
        /\ secured' = IF secured = "no" THEN "no" ELSE "begun"
    BY <1>7 DEF CurveSecurity
  <2>2. Steps(r) \in Seq(Step)
    <3>1. CASE r = "server"
      <4>1. Steps(r) = <<"curve_server", "curve_secretkey", "zap_domain", "mechanism">>
        BY <3>1 DEF Steps
      <4> QED BY <4>1 DEF Step, Key
    <3>2. CASE r = "client"
      <4>1. Steps(r) = <<"curve_serverkey", "curve_publickey", "curve_secretkey",
                         "mechanism">>
        BY <3>2 DEF Steps
      <4> QED BY <4>1 DEF Step, Key
    <3> QED BY <3>1, <3>2
  <2>3. SockOK' BY <2>1, <2>2 DEF SockOK, sockVars
  <2>4. Halfway' BY <2>1 DEF Halfway, Serving, Connecting, Steps
  <2>5. CurveHolds' BY <2>1 DEF CurveHolds, sockVars, SockOK
  <2> QED BY <2>3, <2>4, <2>5
<1>8. CASE SetOther
  BY <1>8 DEF SetOther, SockOK, Halfway, CurveHolds
<1>9. CASE CurveSets BY <1>9, SetsNext
<1>10. CASE CurveReturns
  <2>1. todo = <<"mechanism">> /\ mechanism = "CURVE" /\ todo' = <<>>
        /\ secured' = "done" /\ UNCHANGED <<sockVars, role>>
    BY <1>10 DEF CurveReturns
  <2>2. IF role = "server" THEN Serving ELSE Connecting BY <2>1 DEF Halfway
  <2>3. Needed \subseteq keys /\ asServer = (role = "server")
    BY <2>1, <2>2 DEF Serving, Connecting, Needed, SockOK
  <2> QED BY <2>1, <2>3 DEF sockVars, SockOK, Halfway, CurveHolds, Needed
<1>11. CASE CurveRaises
  BY <1>11 DEF CurveRaises, sockVars, SockOK, Halfway, CurveHolds, Needed
<1>12. CASE UNCHANGED vars BY <1>1, <1>12 DEF vars
<1> QED BY <1>2, <1>3, <1>4, <1>5, <1>6, <1>7, <1>8, <1>9, <1>10, <1>11, <1>12
  DEF Next

-----------------------------------------------------------------------------
(* The inductive invariant; the three parts do not depend on each other.   *)
IInv == /\ NumOK /\ NumComes
        /\ StrOK /\ StringsHold
        /\ SockOK /\ Halfway /\ CurveHolds

LEMMA Inductive == Spec => []IInv
<1>1. Init => IInv
  <2> SUFFICES ASSUME Init PROVE IInv OBVIOUS
  <2>1. NumOK
    <3>1. 0 \in CInt /\ 0 \in CInt64 /\ 0 \in CSize /\ 0 \in CUint
      BY OptionsAssumption DEF CInt, CInt64, CSize, CUint
    <3>2. 0 \in Has(kind) BY <3>1 DEF Has
    <3>3. seen \in BOOLEAN BY DEF Init
    <3>4. got \in Int /\ asked \in Int /\ value = 0 BY DEF Init
    <3> QED BY <3>2, <3>3, <3>4 DEF Init, NumOK
  <2>2. NumComes
    <3>1. /\ asked = 0 /\ value = 0 /\ seen = FALSE /\ LongMax \in Nat
          /\ 0 \in CInt /\ 0 \in CUint /\ 0 \in CSize /\ 0 \in CInt64
      BY OptionsAssumption DEF Init, CInt, CUint, CSize, CInt64
    <3>2. Narrow(0) = 0 /\ Low(0) = 0 /\ Unsigned(0) = 0
      BY <3>1, NarrowIsInt, LowIsUint, UnsignedIsSize
    <3>3. 0 \in Floats(0) BY OptionsAssumption DEF Floats
    <3>4. Cast(0) = {0} BY <3>1, <3>3, CastIsInt64
    <3> QED BY <3>1, <3>2, <3>4 DEF NumComes, Passes, Number, Long
  <2>3. StrOK /\ StringsHold BY OptionsAssumption DEF Init, StrOK, StringsHold
  <2>4. <<>> \in Seq(Step) OBVIOUS
  <2>5. SockOK /\ Halfway /\ CurveHolds
    BY <2>4 DEF Init, SockOK, Halfway, CurveHolds
  <2> QED BY <2>1, <2>2, <2>3, <2>5 DEF IInv
<1>2. IInv /\ [Next]_vars => IInv'
  BY NumberStep, StringStep, SecurityStep DEF IInv
<1> QED BY <1>1, <1>2, PTL DEF Spec

(* What libzmq gets has the C type that the option has: no cast but the    *)
(* one from a Float depends on the compiler, and that one yields an        *)
(* int64_t.                                                                *)
THEOREM OptionsTyped == Spec => []TypeOK
<1>1. IInv => TypeOK BY DEF IInv, TypeOK, NumOK, Has, StrOK, SockOK
<1> QED BY <1>1, Inductive, PTL

(* A number comes back as it was set exactly if the C type and a Float can *)
(* hold it, however wide the types are.                                    *)
THEOREM NumbersReadBack == Spec => []ReadsBack
<1>1. IInv => ReadsBack BY BackAgain DEF IInv
<1> QED BY <1>1, Inductive, PTL

(* An option set to what was read from it stays as it is in libzmq.        *)
THEOREM ReadingRestores == Spec => Restores
<1>1. IInv /\ [Next]_vars =>
        (seen /\ ~seen' /\ asked' = got
           => value' = value \/ (kind \in Long /\ got \notin Floats(got)))
  <2> SUFFICES ASSUME IInv, [Next]_vars, seen, ~seen', asked' = got,
                      ~(kind \in Long /\ got \notin Floats(got))
               PROVE  value' = value
    OBVIOUS
  <2>1. PICK v \in Asked : Set(v) BY NumberSteps DEF Get, numVars
  <2>2. v = got BY <2>1 DEF Set
  <2> QED BY <2>1, <2>2, SetAgain DEF IInv
<1> QED BY <1>1, Inductive, PTL DEF Spec, Restores

(* A timer waits as long as it was asked to, or not at all.                *)
THEOREM TimersWait == Spec => []IntervalsKept
<1>1. IInv => IntervalsKept BY DueAsAsked DEF IInv
<1> QED BY <1>1, Inductive, PTL

(* libzmq writes inside the Strings it gets, whatever length is asked for. *)
THEOREM StringsHaveRoom == Spec => []StringsHold
<1>1. IInv => StringsHold BY DEF IInv
<1> QED BY <1>1, Inductive, PTL

(* A socket on which curve_security began does not speak in clear, and one *)
(* on which it returned has its role and its keys.                         *)
THEOREM CurveSecured == Spec => []CurveHolds
<1>1. IInv => CurveHolds BY DEF IInv
<1> QED BY <1>1, Inductive, PTL
=============================================================================
