--------------------------- MODULE RpcServerProofs ---------------------------
(***************************************************************************)
(* getPriorityFeeEstimate, for every request, every node and every         *)
(* estimate of the tracker: what the coordinator asks of the tracker, and  *)
(* that what it answers is what was asked of it.                           *)
(***************************************************************************)
EXTENDS RpcServer, SequenceTheorems, FiniteSetTheorems, WellFoundedInduction, TLAPS

(***************************************************************************)
(* What a request has passed by the time it is at each step: it was valid, *)
(* its accounts were taken, its lookback was in range, and the calculation *)
(* was asked for with all of that.                                         *)
(***************************************************************************)
Taken ==
  /\ request.account_keys # None => accounts = Asked
  /\ request.transaction # None /\ HasClient => fetched

Passed ==
  /\ phase \in {"accounts", "lookback", "calculate", "respond"} => ~ Invalid(request)
  /\ phase \in {"lookback", "calculate", "respond"} => Taken
  /\ phase \in {"calculate", "respond"} => Lookback \in Option(1..MaxLookbackSlots)
  /\ phase = "respond" =>
       calc = [algorithm |-> algorithm, accounts |-> accounts,
               include_vote |-> IncludeVote,
               include_empty_slots |-> IncludeEmptySlots,
               lookback |-> Lookback]

RInv == TypeOK /\ Passed /\ CalculationServable /\ AnswersAsAsked

-----------------------------------------------------------------------------
(***************************************************************************)
(* The keys of a list that parse: nothing else, and each as many times as  *)
(* the list has it.  The list is defined by a recursive function over the  *)
(* prefixes of keys, which exists; any such function gives it.             *)
(***************************************************************************)
IsParsed(f, n, keys) ==
  \A i \in 0..n :
    f[i] = IF i = 0 THEN <<>>
           ELSE IF keys[i] \in Key THEN Append(f[i - 1], keys[i]) ELSE f[i - 1]

LEMMA ParsedExists ==
  ASSUME NEW keys, NEW n \in Nat
  PROVE  \E f \in [0..n -> Seq(Key)] : IsParsed(f, n, keys)
<1> DEFINE Missing == {m \in Nat : ~ \E f \in [0..m -> Seq(Key)] : IsParsed(f, m, keys)}
<1> SUFFICES ASSUME Missing # {} PROVE FALSE
  OBVIOUS
<1>1. PICK m \in Missing : \A k \in Missing : <<k, m>> \notin OpToRel(<, Nat)
  <2>1. Missing \subseteq Nat
    OBVIOUS
  <2> QED BY <2>1, WFMin, NatLessThanWellFounded, Zenon
<1>2. \A k \in Missing : ~ (k < m)
  BY <1>1, Zenon DEF OpToRel
<1>3. CASE m = 0
  <2> DEFINE g == [i \in 0..m |-> <<>>]
  <2>1. g \in [0..m -> Seq(Key)] /\ IsParsed(g, m, keys)
    BY <1>3, SMT DEF IsParsed
  <2> QED BY <2>1
<1>4. CASE m # 0
  <2>1. m - 1 \in Nat /\ m - 1 < m
    BY <1>4, SMT
  <2>2. PICK f \in [0..(m - 1) -> Seq(Key)] : IsParsed(f, m - 1, keys)
    BY <1>2, <2>1, Zenon
  <2> DEFINE last == IF keys[m] \in Key THEN Append(f[m - 1], keys[m]) ELSE f[m - 1]
             g == [i \in 0..m |-> IF i = m THEN last ELSE f[i]]
  <2>3. f[m - 1] \in Seq(Key)
    BY <2>1, SMT
  <2>4. last \in Seq(Key)
    BY <2>3
  <2>5. \A i \in 0..m : i # m => i \in 0..(m - 1)
    BY SMT
  <2>6. g \in [0..m -> Seq(Key)]
    <3> HIDE DEF last
    <3> QED BY <2>4, <2>5
  <2>7. IsParsed(g, m, keys)
    <3>1. ASSUME NEW i \in 0..m
          PROVE  g[i] = IF i = 0 THEN <<>>
                        ELSE IF keys[i] \in Key THEN Append(g[i - 1], keys[i]) ELSE g[i - 1]
      <4>1. i # 0 => i - 1 \in 0..m /\ i - 1 # m
        BY SMT
      <4>2. CASE i = m
        BY <1>4, <4>1, <4>2
      <4>3. CASE i # m
        BY <2>2, <2>5, <4>1, <4>3 DEF IsParsed
      <4> QED BY <4>2, <4>3
    <3> QED BY <3>1, Zenon DEF IsParsed
  <2> QED BY <2>6, <2>7
<1> QED BY <1>3, <1>4

LEMMA CopiesOfAppended ==
  ASSUME NEW S, NEW s \in Seq(S), NEW x \in S, NEW k
  PROVE  Copies(Append(s, x), k) = IF x = k THEN Copies(s, k) + 1 ELSE Copies(s, k)
<1> DEFINE n == Len(s)
           P == {i \in DOMAIN s : s[i] = k}
<1>1. /\ n \in Nat /\ DOMAIN s = 1..n
      /\ DOMAIN Append(s, x) = 1..(n + 1)
      /\ \A i \in 1..n : Append(s, x)[i] = s[i]
      /\ Append(s, x)[n + 1] = x
  OBVIOUS
<1>2. IsFiniteSet(P) /\ n + 1 \notin P
  <2>1. IsFiniteSet(1..n)
    <3> HIDE DEF n
    <3> QED BY <1>1, FS_Interval
  <2> QED BY <1>1, <2>1, FS_Subset
<1>3. {i \in DOMAIN Append(s, x) : Append(s, x)[i] = k}
        = IF x = k THEN P \cup {n + 1} ELSE P
  BY <1>1
<1> QED BY <1>2, <1>3, FS_AddElement DEF Copies

\* What has been read of keys by the time the first n are.
CopiesAmong(keys, n, k) == Cardinality({i \in 1..n : keys[i] = k})

LEMMA CopiesGrow ==
  ASSUME NEW keys, NEW n \in Nat \ {0}, NEW k
  PROVE  /\ CopiesAmong(keys, 0, k) = 0
         /\ CopiesAmong(keys, n, k) = IF keys[n] = k THEN CopiesAmong(keys, n - 1, k) + 1
                                      ELSE CopiesAmong(keys, n - 1, k)
<1> DEFINE P == {i \in 1..(n - 1) : keys[i] = k}
<1>1. CopiesAmong(keys, 0, k) = 0
  <2>1. {i \in 1..0 : keys[i] = k} = {}
    BY SMT
  <2> QED BY <2>1, FS_EmptySet DEF CopiesAmong
<1>2. IsFiniteSet(P) /\ n \notin P
  <2>1. IsFiniteSet(1..(n - 1))
    BY FS_Interval
  <2> QED BY <2>1, FS_Subset
<1>3. {i \in 1..n : keys[i] = k} = IF keys[n] = k THEN P \cup {n} ELSE P
  OBVIOUS
<1> QED BY <1>1, <1>2, <1>3, FS_AddElement DEF CopiesAmong

LEMMA ParsedFacts ==
  ASSUME NEW S, NEW keys \in Seq(S)
  PROVE  /\ Parsed(keys) \in Seq(Key)
         /\ \A k \in Key : Copies(Parsed(keys), k) = Copies(keys, k)
<1> DEFINE n == Len(keys)
           Eq(f) == f = [i \in 0..n |->
                           IF i = 0 THEN <<>>
                           ELSE IF keys[i] \in Key THEN Append(f[i - 1], keys[i]) ELSE f[i - 1]]
           c == CHOOSE f : Eq(f)
<1>1. n \in Nat
  OBVIOUS
<1>2. Eq(c)
  <2>1. PICK f \in [0..n -> Seq(Key)] : IsParsed(f, n, keys)
    BY <1>1, ParsedExists
  <2>2. f = [i \in 0..n |-> f[i]]
    OBVIOUS
  <2>3. Eq(f)
    BY <2>1, <2>2 DEF IsParsed
  <2> QED BY <2>3
<1>3. Parsed(keys) = c[n]
  BY DEF Parsed
<1> HIDE DEF c
<1>4. IsParsed(c, n, keys)
  BY <1>2 DEF IsParsed
<1> DEFINE Good(i) == /\ c[i] \in Seq(Key)
                      /\ \A k \in Key : Copies(c[i], k) = CopiesAmong(keys, i, k)
           Bad == {i \in 0..n : ~ Good(i)}
<1>5. ASSUME Bad # {} PROVE FALSE
  <2>1. PICK i \in Bad : \A j \in Bad : <<j, i>> \notin OpToRel(<, Nat)
    <3>1. Bad \subseteq Nat
      BY SMT
    <3> QED BY <1>5, <3>1, WFMin, NatLessThanWellFounded, Zenon
  <2>2. \A j \in Bad : ~ (j < i)
    <3>1. Bad \subseteq Nat
      BY SMT
    <3> QED BY <2>1, <3>1, Zenon DEF OpToRel
  <2>3. i \in 0..n
    OBVIOUS
  <2>4. CASE i = 0
    <3>1. c[i] = <<>>
      BY <1>4, <2>3, <2>4 DEF IsParsed
    <3>2. \A k : Copies(<<>>, k) = 0 /\ CopiesAmong(keys, 0, k) = 0
      <4>1. \A k : {j \in DOMAIN <<>> : <<>>[j] = k} = {} /\ {j \in 1..0 : keys[j] = k} = {}
        BY SMT
      <4> QED BY <4>1, FS_EmptySet DEF Copies, CopiesAmong
    <3>3. c[i] \in Seq(Key)
      BY <3>1
    <3> QED BY <2>4, <3>1, <3>2, <3>3
  <2>5. CASE i # 0
    <3>1. i \in Nat \ {0} /\ i - 1 \in 0..n /\ i - 1 < i
      BY <1>1, <2>3, <2>5, SMT
    <3>2. Good(i - 1)
      BY <2>2, <3>1, Zenon
    <3>3. c[i] = IF keys[i] \in Key THEN Append(c[i - 1], keys[i]) ELSE c[i - 1]
      BY <1>4, <2>3, <2>5, Zenon DEF IsParsed
    <3>4. c[i] \in Seq(Key)
      BY <3>2, <3>3
    <3>5. ASSUME NEW k \in Key PROVE Copies(c[i], k) = CopiesAmong(keys, i, k)
      <4>1. Copies(c[i - 1], k) = CopiesAmong(keys, i - 1, k)
        BY <3>2
      <4>2. CASE keys[i] \in Key
        <5>1. Copies(c[i], k) = IF keys[i] = k THEN Copies(c[i - 1], k) + 1
                                ELSE Copies(c[i - 1], k)
          BY <3>2, <3>3, <4>2, CopiesOfAppended
        <5> QED BY <3>1, <4>1, <5>1, CopiesGrow
      <4>3. CASE keys[i] \notin Key
        <5>1. c[i] = c[i - 1] /\ keys[i] # k
          BY <3>3, <4>3
        <5> QED BY <3>1, <4>1, <5>1, CopiesGrow
      <4> QED BY <4>2, <4>3
    <3> QED BY <3>4, <3>5
  <2> QED BY <2>4, <2>5
<1>6. Good(n)
  <2>1. n \in 0..n
    BY <1>1, SMT
  <2> QED BY <1>5, <2>1
<1>7. \A k : CopiesAmong(keys, n, k) = Copies(keys, k)
  <2>1. DOMAIN keys = 1..n
    OBVIOUS
  <2> HIDE DEF n
  <2> QED BY <2>1, Zenon DEF CopiesAmong, Copies
<1> QED BY <1>3, <1>6, <1>7

-----------------------------------------------------------------------------
(***************************************************************************)
(* What a request and its options may say.                                 *)
(***************************************************************************)
LEMMA RequestFields ==
  ASSUME NEW r \in Requests
  PROVE  /\ r.transaction \in Option({"valid", "garbage"})
         /\ r.account_keys \in Option(Seq(Key \cup {BadKey}))
         /\ r.options \in Option(Options)
BY RpcAssumption DEF Request

LEMMA OptionFields ==
  ASSUME NEW o \in Options
  PROVE  /\ o.priority_level \in Option(Level \cup {"Default"})
         /\ o.include_all_priority_fee_levels \in Option(BOOLEAN)
         /\ o.lookback_slots \in Option(Nat)
         /\ o.include_vote \in Option(BOOLEAN)
         /\ o.recommended \in Option(BOOLEAN)
         /\ o.evaluate_empty_slot_as_zero \in Option(BOOLEAN)
         /\ o.include_details \in Option(BOOLEAN)
BY DEF Options

LEMMA ReplyTypes ==
  ASSUME NEW fees \in Estimates, request \in Requests
  PROVE  /\ \A reason \in Failure : Error(reason) \in Response /\ Error(reason).error # None
         /\ \A fee \in Nat : Fee(fee) \in Response
         /\ AllLevels(fees) \in Response
         /\ fees \in [Level -> Nat] /\ \A l \in Level : fees[l] \in Nat
         /\ RecommendedFee(fees) \in Nat
         /\ RecommendedFee(fees) >= MinRecommendedFee
         /\ RecommendedFee(fees) >= fees["Medium"]
<1>1. IncludeDetails \in BOOLEAN
  BY DEF IncludeDetails
<1>2. fees \in [Level -> Nat] /\ \A l \in Level : fees[l] \in Nat
  BY RpcAssumption
<1>3. \A reason \in Failure : Error(reason) \in Response /\ Error(reason).error # None
  BY RpcAssumption DEF Error, Response, Option
<1>4. (\A fee \in Nat : Fee(fee) \in Response) /\ AllLevels(fees) \in Response
  BY <1>1, <1>2 DEF Fee, AllLevels, Response, Option
<1>5. /\ RecommendedFee(fees) \in Nat /\ RecommendedFee(fees) >= MinRecommendedFee
      /\ RecommendedFee(fees) >= fees["Medium"]
  BY <1>2, RpcAssumption DEF RecommendedFee, Level
<1> QED BY <1>2, <1>3, <1>4, <1>5

LEMMA ReplyFields ==
  /\ \A fee : /\ Fee(fee).error = None /\ Fee(fee).details = IncludeDetails
              /\ Fee(fee).priority_fee_estimate = fee /\ Fee(fee).priority_fee_levels = None
  /\ \A fees : /\ AllLevels(fees).error = None
                 /\ AllLevels(fees).details = IncludeDetails
                 /\ AllLevels(fees).priority_fee_estimate = None
                 /\ AllLevels(fees).priority_fee_levels = fees
BY DEF Fee, AllLevels

LEMMA NoKeys == <<>> \in Seq(Key)
OBVIOUS

LEMMA InitRInv == Init => RInv
BY NoKeys DEF Init, RInv, TypeOK, Passed, CalculationServable, AnswersAsAsked, Answered

LEMMA ReceiveKeeps ==
  ASSUME RInv, NEW r \in Requests, NEW version \in {"v1", "v2"}, Receive(r, version)
  PROVE  RInv'
BY DEF Receive, RInv, TypeOK, Passed, CalculationServable, AnswersAsAsked, Answered

LEMMA CloseKeeps == ASSUME RInv, Close PROVE RInv'
BY NoKeys DEF Close, RInv, TypeOK, Passed, CalculationServable, AnswersAsAsked, Answered

LEMMA ValidateKeeps == ASSUME RInv, Validate PROVE RInv'
<1>0. TypeOK /\ Passed /\ CalculationServable /\ AnswersAsAsked
  BY DEF RInv
<1>1. /\ phase = "validate" /\ calc = None /\ response = None
      /\ UNCHANGED <<request, algorithm, calc, accounts, fetched, levels>>
  BY <1>0 DEF Validate, TypeOK
<1>2. CASE Invalid(request)
  <2>1. phase' = "reply" /\ response' = Error("request")
    BY <1>2 DEF Validate, Reply
  <2>2. Error("request") \in Response /\ Error("request").error # None
    BY RpcAssumption DEF Error, Response, Option, Failure
  <2> QED BY <1>0, <1>1, <2>1, <2>2
       DEF RInv, TypeOK, Passed, CalculationServable, AnswersAsAsked, Answered, Option
<1>3. CASE ~ Invalid(request)
  <2>1. phase' = "accounts" /\ response' = None
    BY <1>1, <1>3 DEF Validate
  <2> QED BY <1>0, <1>1, <1>3, <2>1
       DEF RInv, TypeOK, Passed, CalculationServable, AnswersAsAsked, Answered, Invalid
<1> QED BY <1>2, <1>3

(***************************************************************************)
(* Of a valid request the keys and the transaction are not both there.     *)
(***************************************************************************)
LEMMA AccountsKeep ==
  ASSUME RInv, FromKeys \/ FromNothing \/ \E found \in Found : FromTransaction(found)
  PROVE  RInv'
<1>0. TypeOK /\ Passed /\ CalculationServable /\ AnswersAsAsked
  BY DEF RInv
<1>1. /\ phase = "accounts" /\ calc = None /\ response = None /\ ~ Invalid(request)
      /\ UNCHANGED <<request, algorithm, calc, levels>>
  BY <1>0 DEF FromKeys, FromNothing, FromTransaction, TypeOK, Passed
<1>2. Invalid(request)' = Invalid(request) /\ Asked' = Asked
  BY <1>1 DEF Invalid, CustomControls, Asked
<1>3. ASSUME phase' = "lookback", Taken', accounts' \in Seq(Key), fetched' \in BOOLEAN,
             response' = response
      PROVE  RInv'
  BY <1>0, <1>1, <1>2, <1>3
     DEF RInv, TypeOK, Passed, CalculationServable, AnswersAsAsked, Answered
<1>4. CASE FromKeys
  <2>1. request.transaction = None
    BY <1>1, <1>4 DEF FromKeys, Invalid
  <2>2. accounts' = Asked /\ Asked \in Seq(Key)
    <3>1. request.account_keys \in Seq(Key \cup {BadKey})
      BY <1>0, <1>1, <1>4, RequestFields DEF FromKeys, TypeOK, Option
    <3> QED BY <1>4, <3>1, ParsedFacts DEF FromKeys, Asked
  <2>3. Taken'
    BY <1>1, <1>2, <2>1, <2>2 DEF Taken
  <2> QED BY <1>0, <1>3, <1>4, <2>2, <2>3 DEF FromKeys, TypeOK
<1>5. CASE FromNothing
  BY <1>0, <1>1, <1>3, <1>5 DEF FromNothing, Taken, TypeOK
<1>6. ASSUME NEW found \in Found, FromTransaction(found)
      PROVE  RInv'
  <2>1. CASE Decodable
    BY <1>0, <1>1, <1>3, <1>6, <2>1, RpcAssumption DEF FromTransaction, Taken, TypeOK
  <2>2. CASE ~ Decodable
    <3>1. phase' = "reply" /\ response' = Error("transaction")
          /\ UNCHANGED <<accounts, fetched>>
      BY <1>6, <2>2 DEF FromTransaction, Reply
    <3>2. Error("transaction") \in Response /\ Error("transaction").error # None
      BY RpcAssumption DEF Error, Response, Option, Failure
    <3> QED BY <1>0, <1>1, <3>1, <3>2
         DEF RInv, TypeOK, Passed, CalculationServable, AnswersAsAsked, Answered, Option
  <2> QED BY <2>1, <2>2
<1> QED BY <1>4, <1>5, <1>6

LEMMA CheckLookbackKeeps == ASSUME RInv, CheckLookback PROVE RInv'
<1>0. TypeOK /\ Passed /\ CalculationServable /\ AnswersAsAsked
  BY DEF RInv
<1>1. /\ phase = "lookback" /\ calc = None /\ response = None /\ ~ Invalid(request)
      /\ Taken /\ request \in Requests
      /\ UNCHANGED <<request, algorithm, calc, accounts, fetched, levels>>
  BY <1>0 DEF CheckLookback, TypeOK, Passed
<1>2. /\ Invalid(request)' = Invalid(request) /\ Taken' = Taken /\ Lookback' = Lookback
  BY <1>1 DEF Invalid, CustomControls, Taken, Asked, Lookback
<1>3. Lookback \in Option(Nat)
  BY <1>1, RequestFields, OptionFields DEF Lookback, Option
<1>4. CASE Lookback # None /\ OutOfRange(Lookback)
  <2>1. phase' = "reply" /\ response' = Error("lookback")
    BY <1>4 DEF CheckLookback, Reply
  <2>2. Error("lookback") \in Response /\ Error("lookback").error # None
    BY RpcAssumption DEF Error, Response, Option, Failure
  <2> QED BY <1>0, <1>1, <2>1, <2>2
       DEF RInv, TypeOK, Passed, CalculationServable, AnswersAsAsked, Answered, Option
<1>5. CASE ~ (Lookback # None /\ OutOfRange(Lookback))
  <2>1. phase' = "calculate" /\ response' = None
    BY <1>1, <1>5 DEF CheckLookback
  <2>2. Lookback \in Option(1..MaxLookbackSlots)
    BY <1>3, <1>5, RpcAssumption DEF Option, OutOfRange
  <2> QED BY <1>0, <1>1, <1>2, <2>1, <2>2
       DEF RInv, TypeOK, Passed, CalculationServable, AnswersAsAsked, Answered, Option
<1> QED BY <1>4, <1>5

(***************************************************************************)
(* A recommended fee is not asked for together with votes.                 *)
(***************************************************************************)
LEMMA CalculateKeeps == ASSUME RInv, Calculate PROVE RInv'
<1>0. TypeOK /\ Passed /\ CalculationServable /\ AnswersAsAsked
  BY DEF RInv
<1>1. /\ phase = "calculate" /\ phase' = "respond" /\ response = None
      /\ ~ Invalid(request) /\ Taken /\ request \in Requests
      /\ Lookback \in Option(1..MaxLookbackSlots)
      /\ UNCHANGED <<request, algorithm, accounts, fetched, levels, response>>
      /\ calc' = [algorithm |-> algorithm, accounts |-> accounts,
                  include_vote |-> IncludeVote,
                  include_empty_slots |-> IncludeEmptySlots,
                  lookback |-> Lookback]
  BY <1>0 DEF Calculate, TypeOK, Passed
<1>2. /\ Invalid(request)' = Invalid(request) /\ Taken' = Taken /\ Lookback' = Lookback
      /\ IncludeVote' = IncludeVote /\ IncludeEmptySlots' = IncludeEmptySlots
  BY <1>1 DEF Invalid, CustomControls, Taken, Asked, Lookback, IncludeVote,
              IncludeEmptySlots, Given
<1>3. TypeOK'
  BY <1>0, <1>1 DEF TypeOK
<1>4. Passed'
  BY <1>1, <1>2 DEF Passed
<1>5. CalculationServable'
  <2>1. ASSUME request.options # None, request.options.recommended = TRUE
        PROVE  IncludeVote = FALSE
    <3>1. request.options.include_vote = None
      BY <1>1, <2>1, RpcAssumption DEF Invalid, CustomControls
    <3> QED BY <2>1, <3>1 DEF IncludeVote, Given
  <2> QED BY <1>1, <2>1 DEF CalculationServable
<1>6. AnswersAsAsked'
  BY <1>1 DEF AnswersAsAsked, Answered
<1> QED BY <1>3, <1>4, <1>5, <1>6 DEF RInv

(***************************************************************************)
(* Whichever branch makes the answer to a valid request, it has the shape  *)
(* the options ask for and the fee of the level they ask for.              *)
(***************************************************************************)
Shaped(c, o, fees) ==
  /\ c \in Response /\ c.details = IncludeDetails
  /\ o.include_all_priority_fee_levels = TRUE =>
       c.priority_fee_levels = fees /\ c.priority_fee_estimate = None
  /\ o.include_all_priority_fee_levels # TRUE =>
       /\ c.priority_fee_levels = None /\ c.priority_fee_estimate # None
       /\ o.priority_level = "Default" => c.priority_fee_estimate = fees["Medium"]
       /\ o.priority_level \in Level => c.priority_fee_estimate = fees[o.priority_level]
  /\ o.recommended = TRUE =>
       /\ o.include_all_priority_fee_levels # TRUE
       /\ c.priority_fee_estimate >= MinRecommendedFee
       /\ c.priority_fee_estimate >= fees["Medium"]

LEMMA ContentShape ==
  ASSUME NEW fees \in Estimates, request \in Requests, ~ Invalid(request),
         NEW o, o = request.options, o # None
  PROVE  Shaped(Content(o, fees), o, fees)
<1> DEFINE c == Content(o, fees)
<1>1. /\ o \in Options
      /\ o.priority_level \in Option(Level \cup {"Default"})
  BY RequestFields, OptionFields DEF Option
<1>2. CASE o.include_all_priority_fee_levels = TRUE
  <2>1. c = AllLevels(fees)
    BY <1>2 DEF Content
  <2>2. o.recommended # TRUE
    BY <1>2, RpcAssumption DEF Invalid, CustomControls
  <2>3. AllLevels(fees) \in Response
    BY ReplyTypes
  <2>4. /\ c.priority_fee_levels = fees /\ c.priority_fee_estimate = None
        /\ c.details = IncludeDetails
    BY <2>1, ReplyFields
  <2> QED BY <1>2, <2>1, <2>2, <2>3, <2>4 DEF Shaped
<1>3. CASE o.include_all_priority_fee_levels # TRUE
  <2>1. PICK fee \in Nat :
          /\ c = Fee(fee)
          /\ o.priority_level = "Default" => fee = fees["Medium"]
          /\ o.priority_level \in Level => fee = fees[o.priority_level]
          /\ o.recommended = TRUE => fee >= MinRecommendedFee /\ fee >= fees["Medium"]
    <3>0. "Medium" \in Level /\ "Default" \notin Level
      BY DEF Level
    <3>1. CASE o.priority_level \in Level
      <4>1. c = Fee(fees[o.priority_level])
        BY <1>3, <3>1 DEF Content
      <4>2. o.recommended # TRUE
        BY <3>1, RpcAssumption DEF Invalid, CustomControls
      <4> QED BY <3>0, <3>1, <4>1, <4>2, ReplyTypes
    <3>2. CASE o.priority_level = "Default"
      <4>1. c = Fee(fees["Medium"])
        BY <1>3, <3>0, <3>2 DEF Content
      <4>2. o.recommended # TRUE
        BY <3>2, RpcAssumption DEF Invalid, CustomControls
      <4> QED BY <3>0, <3>2, <4>1, <4>2, ReplyTypes
    <3>3. CASE o.priority_level \notin Level \cup {"Default"}
      <4>1. c = Fee(IF o.recommended = TRUE THEN RecommendedFee(fees)
                                            ELSE fees["Medium"])
        BY <1>3, <3>3 DEF Content
      <4> QED BY <3>0, <3>3, <4>1, ReplyTypes
    <3> QED BY <3>1, <3>2, <3>3
  <2>2. Fee(fee) \in Response /\ fee # None
    BY ReplyTypes, RpcAssumption
  <2>3. /\ c.priority_fee_estimate = fee /\ c.priority_fee_levels = None
        /\ c.details = IncludeDetails
    BY <2>1, ReplyFields
  <2> HIDE DEF c
  <2>4. Shaped(c, o, fees)
    BY <1>3, <2>1, <2>2, <2>3 DEF Shaped
  <2> QED BY <2>4 DEF c
<1> QED BY <1>2, <1>3

LEMMA RespondKeeps == ASSUME RInv, NEW fees \in Estimates, Respond(fees) PROVE RInv'
<1>0. TypeOK /\ Passed /\ CalculationServable /\ AnswersAsAsked
  BY DEF RInv
<1>1. /\ phase = "respond" /\ phase' = "reply"
      /\ ~ Invalid(request) /\ Taken /\ request \in Requests
      /\ calc = [algorithm |-> algorithm, accounts |-> accounts,
                 include_vote |-> IncludeVote,
                 include_empty_slots |-> IncludeEmptySlots,
                 lookback |-> Lookback]
      /\ UNCHANGED <<request, algorithm, calc, accounts, fetched>>
      /\ levels' = fees
      /\ response' = IF request.options = None THEN Fee(fees["Medium"])
                     ELSE Content(request.options, fees)
  BY <1>0 DEF Respond, Reply, TypeOK, Passed
<1>2. \A option : Wish(option)' = Wish(option)
  BY <1>1 DEF Wish
<1>3. /\ response' \in Response /\ fees \in [Level -> Nat] /\ fees # None
      /\ ShapedAsAsked'
  <2>0. fees \in [Level -> Nat] /\ fees # None
    BY ReplyTypes, <1>1, RpcAssumption
  <2>1. CASE request.options = None
    <3>1. "Medium" \in Level
      BY DEF Level
    <3>2. fees["Medium"] \in Nat /\ Fee(fees["Medium"]) \in Response
      BY <1>1, <3>1, ReplyTypes
    <3>3. fees["Medium"] # None
      BY <3>2, RpcAssumption
    <3>4. ~ IncludeDetails /\ \A option : Wish(option) = None
      BY <2>1 DEF Wish, IncludeDetails
    <3>5. response' = Fee(fees["Medium"])
      BY <1>1, <2>1
    <3>6. /\ response'.priority_fee_estimate = fees["Medium"]
          /\ response'.priority_fee_levels = None /\ response'.details = IncludeDetails
      BY <3>5, ReplyFields
    <3>7. ShapedAsAsked'
      BY <1>2, <3>3, <3>4, <3>6, RpcAssumption DEF ShapedAsAsked
    <3> QED BY <2>0, <3>2, <3>5, <3>7
  <2>2. CASE request.options # None
    <3> DEFINE o == request.options
    <3>1. o \in Options
      BY <1>1, <2>2, RequestFields DEF Option
    <3>2. /\ \A option : Wish(option)' = o[option]
          /\ o.include_details = TRUE <=> IncludeDetails
      BY <1>2, <2>2, <3>1, OptionFields, RpcAssumption DEF Wish, IncludeDetails, Given, Option
    <3>3. response' = Content(o, fees)
      BY <1>1, <2>2
    <3>4. Shaped(response', o, fees)
      BY <1>1, <2>2, <3>3, ContentShape
    <3>5. o.priority_level \in Option(Level \cup {"Default"})
      BY <3>1, OptionFields
    <3>6. LevelWished' = IF o.priority_level = "Default" THEN "Medium" ELSE o.priority_level
      BY <3>2 DEF LevelWished
    <3> HIDE DEF o
    <3>7. ShapedAsAsked'
      BY <1>1, <2>0, <3>2, <3>4, <3>5, <3>6 DEF Shaped, ShapedAsAsked, Option
    <3> QED BY <2>0, <3>4, <3>7 DEF Shaped
  <2> QED BY <2>1, <2>2
<1>4. TypeOK'
  <2>1. response' \in Response
    BY <1>3
  <2> QED BY <1>0, <1>1, <2>1 DEF TypeOK, Option
<1>5. Passed' /\ CalculationServable'
  BY <1>0, <1>1 DEF Passed, CalculationServable
<1>6. AccountsAsAsked'
  <2>1. ASSUME request.account_keys # None, NEW k \in Key
        PROVE  Copies(calc.accounts, k) = Copies(request.account_keys, k)
    <3>1. request.account_keys \in Seq(Key \cup {BadKey})
      BY <1>1, <2>1, RequestFields DEF Option
    <3>2. calc.accounts = Parsed(request.account_keys)
      BY <1>1, <2>1 DEF Taken, Asked
    <3> QED BY <3>1, <3>2, ParsedFacts
  <2>2. request.transaction # None /\ HasClient => fetched
    BY <1>1 DEF Taken
  <2>3. AccountsAsAsked
    BY <2>1, <2>2 DEF AccountsAsAsked
  <2> QED BY <1>1, <2>3 DEF AccountsAsAsked, Copies
<1>7. CalculatedAsAsked' /\ RecommendedAsAsked'
  <2>1. CASE request.options = None
    <3>1. \A option : Wish(option)' = None
      BY <1>2, <2>1 DEF Wish
    <3> QED BY <3>1, RpcAssumption DEF CalculatedAsAsked, RecommendedAsAsked
  <2>2. CASE request.options # None
    <3> DEFINE o == request.options
    <3>1. o \in Options /\ \A option : Wish(option)' = o[option]
      BY <1>1, <1>2, <2>2, RequestFields DEF Option, Wish
    <3>2. /\ calc'.lookback = o.lookback_slots
          /\ calc'.include_vote = Given(o.include_vote, FALSE)
          /\ calc'.include_empty_slots = Given(o.evaluate_empty_slot_as_zero, TRUE)
      <4>1. /\ calc'.lookback = Lookback /\ calc'.include_vote = IncludeVote
            /\ calc'.include_empty_slots = IncludeEmptySlots
        BY <1>1
      <4>2. Lookback = o.lookback_slots
        BY <2>2 DEF Lookback
      <4>3. IncludeVote = Given(o.include_vote, FALSE)
        BY <2>2, <3>1, OptionFields DEF IncludeVote, Given, Option
      <4>4. IncludeEmptySlots = Given(o.evaluate_empty_slot_as_zero, TRUE)
        BY <2>2, <3>1, OptionFields DEF IncludeEmptySlots, Given, Option
      <4> QED BY <4>1, <4>2, <4>3, <4>4
    <3>3. CalculatedAsAsked'
      BY <3>1, <3>2 DEF CalculatedAsAsked, Given
    <3>4. ASSUME o.recommended = TRUE
          PROVE  o.lookback_slots = None /\ o.include_vote = None
      BY <1>1, <2>2, <3>4, RpcAssumption DEF Invalid, CustomControls
    <3>5. Shaped(response', o, fees)
      BY <1>1, <2>2, ContentShape
    <3> HIDE DEF o
    <3>6. RecommendedAsAsked'
      BY <1>1, <3>1, <3>2, <3>4, <3>5 DEF RecommendedAsAsked, Shaped, Given
    <3> QED BY <3>3, <3>6
  <2> QED BY <2>1, <2>2
<1> QED BY <1>3, <1>4, <1>5, <1>6, <1>7 DEF RInv, AnswersAsAsked

LEMMA StepRInv == RInv /\ [Next]_vars => RInv'
<1> SUFFICES ASSUME RInv, [Next]_vars PROVE RInv'
  OBVIOUS
<1>1. CASE Next
  BY <1>1, ReceiveKeeps, ValidateKeeps, AccountsKeep, CheckLookbackKeeps, CalculateKeeps,
     RespondKeeps, CloseKeeps DEF Next
<1>2. CASE UNCHANGED vars
  <2>1. TypeOK /\ Passed /\ CalculationServable /\ AnswersAsAsked
    BY DEF RInv
  <2>2. TypeOK'
    BY <1>2, <2>1 DEF vars, TypeOK
  <2>3. Passed'
    BY <1>2, <2>1 DEF vars, Passed, Taken, Asked, Invalid, CustomControls, Lookback,
       IncludeVote, IncludeEmptySlots
  <2>4. CalculationServable'
    BY <1>2, <2>1 DEF vars, CalculationServable
  <2>5. AnswersAsAsked'
    BY <1>2, <2>1 DEF vars, AnswersAsAsked, Answered, AccountsAsAsked, Copies,
       CalculatedAsAsked, ShapedAsAsked, RecommendedAsAsked, LevelWished, Wish
  <2> QED BY <2>2, <2>3, <2>4, <2>5 DEF RInv
<1> QED BY <1>1, <1>2

-----------------------------------------------------------------------------
(***************************************************************************)
(* What a request has passed by each step of the coordinator               *)
(* (execute_priority_fee_estimate_coordinator, rpc_server.rs:331).         *)
(***************************************************************************)
THEOREM CoordinatorInvariant == Spec => []RInv
BY InitRInv, StepRInv, PTL DEF Spec

(***************************************************************************)
(* The states are those TypeOK names; an error or a content is all the     *)
(* client ever gets.                                                       *)
(***************************************************************************)
THEOREM CoordinatorTypes == Spec => []TypeOK
<1>1. RInv => TypeOK
  BY DEF RInv
<1> QED BY <1>1, CoordinatorInvariant, PTL

(***************************************************************************)
(* The tracker is never asked for more slots than it keeps, nor for a      *)
(* recommended fee with the votes in it, whatever a request combines       *)
(* (rpc_server.rs:73).                                                     *)
(***************************************************************************)
THEOREM TrackerCanServe == Spec => []CalculationServable
<1>1. RInv => CalculationServable
  BY DEF RInv
<1> QED BY <1>1, CoordinatorInvariant, PTL

(***************************************************************************)
(* Whatever a request combines, its answer is the answer to what it asked: *)
(* the estimate is of the accounts it names, each as often as it names it, *)
(* with the lookback, the votes and the empty slots it asks for; the level *)
(* or the levels it wishes are in the answer, with the details if it       *)
(* wishes them; and a recommended fee is one fee, above the floor and the  *)
(* medium level, of no votes (rpc_server.rs:331-431).                      *)
(***************************************************************************)
THEOREM RequestsAreHonoured == Spec => []AnswersAsAsked
<1>1. RInv => AnswersAsAsked
  BY DEF RInv
<1> QED BY <1>1, CoordinatorInvariant, PTL
=============================================================================
