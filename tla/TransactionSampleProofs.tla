----------------------- MODULE TransactionSampleProofs -----------------------
(***************************************************************************)
(* The walk over the transactions of a block, for every block, every limit *)
(* of the runtime and every key: which accounts and which rate a sample    *)
(* is recorded with, and that every transaction is accounted for.          *)
(***************************************************************************)
EXTENDS TransactionSample, SequenceTheorems, FiniteSetTheorems, TLAPS

-----------------------------------------------------------------------------
(***************************************************************************)
(* construct_writable_accounts undoes the order a message is compiled in:  *)
(* what it keeps are the accounts compiled as writable.                    *)
(***************************************************************************)
LEMMA RolesInOrder ==
  ASSUME NEW S, NEW a \in Seq(S), NEW b \in Seq(S), NEW c \in Seq(S), NEW d \in Seq(S),
         NEW k, k = a \o b \o c \o d
  PROVE  /\ k \in Seq(S) /\ Len(k) = Len(a) + Len(b) + Len(c) + Len(d)
         /\ \A i \in 1..Len(a) : k[i] = a[i]
         /\ \A i \in 1..Len(c) : k[Len(a) + Len(b) + i] = c[i]
<1> DEFINE ab == a \o b
           abc == ab \o c
<1>1. /\ ab \in Seq(S) /\ Len(ab) = Len(a) + Len(b)
      /\ \A i \in 1..(Len(a) + Len(b)) : ab[i] = IF i <= Len(a) THEN a[i] ELSE b[i - Len(a)]
      /\ Len(a) \in Nat /\ Len(b) \in Nat /\ Len(c) \in Nat /\ Len(d) \in Nat
  BY ConcatProperties, LenProperties
<1> HIDE DEF ab
<1>2. /\ abc \in Seq(S) /\ Len(abc) = Len(ab) + Len(c)
      /\ \A i \in 1..(Len(ab) + Len(c)) :
           abc[i] = IF i <= Len(ab) THEN ab[i] ELSE c[i - Len(ab)]
  <2>1. ab \in Seq(S)
    BY <1>1
  <2> QED BY <2>1, ConcatProperties
<1>3. k = abc \o d
  BY DEF ab
<1> HIDE DEF abc
<1>4. /\ k \in Seq(S) /\ Len(k) = Len(abc) + Len(d)
      /\ \A i \in 1..(Len(abc) + Len(d)) :
           k[i] = IF i <= Len(abc) THEN abc[i] ELSE d[i - Len(abc)]
  BY <1>2, <1>3, ConcatProperties
<1>5. ASSUME NEW i \in 1..Len(a) PROVE k[i] = a[i]
  <2>1. k[i] = abc[i]
    BY <1>1, <1>2, <1>4
  <2>2. abc[i] = ab[i] /\ ab[i] = a[i]
    BY <1>1, <1>2
  <2> QED BY <2>1, <2>2
<1>6. ASSUME NEW i \in 1..Len(c) PROVE k[Len(a) + Len(b) + i] = c[i]
  <2> DEFINE j == Len(a) + Len(b) + i
  <2>1. /\ j \in 1..(Len(abc) + Len(d)) /\ j <= Len(abc)
        /\ j \in 1..(Len(ab) + Len(c)) /\ ~ (j <= Len(ab)) /\ j - Len(ab) = i
    BY <1>1, <1>2
  <2> HIDE DEF j
  <2>2. k[j] = abc[j] /\ abc[j] = c[i]
    BY <1>2, <1>4, <2>1
  <2> QED BY <2>2 DEF j
<1> QED BY <1>1, <1>2, <1>4, <1>5, <1>6

LEMMA WritableOfRoles ==
  ASSUME NEW S, NEW roles \in Roles(Seq(S))
  PROVE  /\ KeysOf(roles) \in Seq(S)
         /\ HeaderOf(roles) # None
         /\ Writable(KeysOf(roles), HeaderOf(roles))
              = roles.writable_signers \o roles.writable
<1> DEFINE a == roles.writable_signers
           b == roles.readonly_signers
           c == roles.writable
           d == roles.readonly
           k == KeysOf(roles)
           h == HeaderOf(roles)
<1>1. /\ a \in Seq(S) /\ b \in Seq(S) /\ c \in Seq(S) /\ d \in Seq(S)
      /\ k = a \o b \o c \o d
  BY DEF Roles, KeysOf
<1>2. /\ h.num_required_signatures = Len(a) + Len(b)
      /\ h.num_readonly_signed_accounts = Len(b)
      /\ h.num_readonly_unsigned_accounts = Len(d)
      /\ Len(a) \in Nat /\ Len(b) \in Nat /\ Len(c) \in Nat /\ Len(d) \in Nat
  BY <1>1, LenProperties DEF HeaderOf
<1>2a. /\ Len(a) \in Nat /\ Len(b) \in Nat /\ Len(d) \in Nat
  BY <1>1, LenProperties
<1> HIDE DEF a, b, c, d, k, h
<1>3. h # None
  <2>1. Len(a) + Len(b) \in Nat
    BY <1>2a
  <2>2. h = [num_required_signatures |-> Len(a) + Len(b),
             num_readonly_signed_accounts |-> Len(b),
             num_readonly_unsigned_accounts |-> Len(d)]
    BY DEF h, HeaderOf, a, b, d
  <2>3. h \in MessageHeader
    BY <1>2a, <2>1, <2>2 DEF MessageHeader
  <2> QED BY <2>3, HeaderAssumption
<1>4. /\ k \in Seq(S) /\ Len(k) = Len(a) + Len(b) + Len(c) + Len(d)
      /\ \A i \in 1..Len(a) : k[i] = a[i]
      /\ \A i \in 1..Len(c) : k[Len(a) + Len(b) + i] = c[i]
  BY <1>1, RolesInOrder
<1>5. Writable(k, h) = SubSeq(k, 1, Len(a))
                         \o SubSeq(k, Len(a) + Len(b) + 1, Len(a) + Len(b) + Len(c))
  <2>1. SaturatingSub(Len(a) + Len(b), Len(b)) = Len(a)
    BY <1>2 DEF SaturatingSub
  <2>2. (IF Len(a) < Len(k) THEN Len(a) ELSE Len(k)) = Len(a)
    BY <1>2, <1>4
  <2>3. (IF Len(d) > Len(k) THEN Len(k) ELSE Len(k) - Len(d)) = Len(a) + Len(b) + Len(c)
    BY <1>2, <1>4
  <2> QED BY <1>2, <1>3, <2>1, <2>2, <2>3 DEF Writable
<1>6. SubSeq(k, 1, Len(a)) = a
  <2>1. \A i \in 1..Len(a) : k[i] \in S
    BY <1>1, <1>4, ElementOfSeq
  <2>2. /\ SubSeq(k, 1, Len(a)) \in Seq(S) /\ Len(SubSeq(k, 1, Len(a))) = Len(a)
        /\ \A i \in 1..Len(a) : SubSeq(k, 1, Len(a))[i] = a[i]
    BY <1>2, <1>4, <2>1, SubSeqProperties
  <2> QED BY <1>1, <2>2, SeqEqual
<1>7. SubSeq(k, Len(a) + Len(b) + 1, Len(a) + Len(b) + Len(c)) = c
  <2> DEFINE m == Len(a) + Len(b) + 1
             n == Len(a) + Len(b) + Len(c)
             s == SubSeq(k, m, n)
  <2>1. m \in Int /\ n \in Int /\ n - m + 1 = Len(c)
        /\ Len(c) = (IF m <= n THEN n - m + 1 ELSE 0)
    BY <1>2
  <2>2. \A i \in m..n : k[i] \in S
    <3>1. \A i \in m..n : i \in 1..Len(k)
      BY <1>2, <1>4
    <3> QED BY <1>4, <3>1, ElementOfSeq
  <2>3. \A i \in 1..Len(c) : k[m + i - 1] = c[i]
    <3>1. \A i \in 1..Len(c) : m + i - 1 = Len(a) + Len(b) + i
      BY <1>2
    <3> QED BY <1>4, <3>1
  <2> HIDE DEF m, n
  <2>4. s \in Seq(S) /\ Len(s) = Len(c) /\ \A i \in 1..Len(c) : s[i] = c[i]
    BY <2>1, <2>2, <2>3, SubSeqProperties
  <2> HIDE DEF s
  <2>5. s = c
    BY <1>1, <2>4, SeqEqual
  <2> QED BY <2>5 DEF s, m, n
<1> QED BY <1>3, <1>4, <1>5, <1>6, <1>7 DEF a, b, c, d, k, h

-----------------------------------------------------------------------------
(***************************************************************************)
(* Whole numbers: division rounds down, products keep the order.           *)
(***************************************************************************)
LEMMA Division ==
  ASSUME NEW a \in Nat, NEW b \in Nat \ {0}
  PROVE  /\ a \div b \in Nat
         /\ (a \div b) * b <= a /\ a < (a \div b) * b + b
OBVIOUS

LEMMA Product == ASSUME NEW a \in Nat, NEW b \in Nat PROVE a * b \in Nat
OBVIOUS

LEMMA Successor == ASSUME NEW a \in Nat, NEW b \in Nat PROVE (a + 1) * b = a * b + b
OBVIOUS

LEMMA Monotone ==
  ASSUME NEW a \in Nat, NEW b \in Nat, NEW c \in Nat, a <= b
  PROVE  a * c <= b * c
OBVIOUS

(***************************************************************************)
(* The quotient is the largest number that still fits.                     *)
(***************************************************************************)
LEMMA Quotient ==
  ASSUME NEW a \in Nat, NEW b \in Nat \ {0}, NEW n \in Nat
  PROVE  n * b <= a <=> n <= a \div b
<1> DEFINE q == a \div b
<1>1. q \in Nat /\ q * b <= a /\ a < q * b + b
  BY Division
<1> HIDE DEF q
<1>2. q * b \in Nat /\ n * b \in Nat /\ (q + 1) * b = q * b + b
  BY <1>1, Product, Successor
<1>3. n <= q => n * b <= q * b
  BY <1>1, Monotone
<1>4. n > q => (q + 1) * b <= n * b
  <2>1. q + 1 \in Nat /\ (n > q => q + 1 <= n)
    BY <1>1
  <2> QED BY <2>1, Monotone
<1> QED BY <1>1, <1>2, <1>3, <1>4 DEF q

-----------------------------------------------------------------------------
(***************************************************************************)
(* The rates.                                                              *)
(***************************************************************************)
LEMMA TransactionFields ==
  ASSUME NEW t \in Transaction
  PROVE  /\ t.meta \in {"none", "failed", "ok"}
         /\ t.transaction \in {"none", "no_message", "message"}
         /\ t.loaded_writable_addresses \in Seq(Key \cup {BadKey})
         /\ t.roles \in Roles(Seq(Key \cup {BadKey}))
         /\ t.instructions \in Seq(Instruction)
         /\ t.has_header \in BOOLEAN
         /\ t.config # None => t.config \in TransactionConfig
BY DEF Transaction, Option

LEMMA SettingFields ==
  ASSUME NEW t \in Transaction, NEW i \in Settings(t)
  PROVE  t.instructions[i] \in Instruction /\ t.instructions[i].to \in 0..MaxU64
<1>1. t.instructions \in Seq(Instruction) /\ i \in DOMAIN t.instructions
  BY TransactionFields DEF Settings
<1>2. t.instructions[i] \in Instruction
  BY <1>1, LenProperties, ElementOfSeq
<1> QED BY <1>2 DEF Instruction

(***************************************************************************)
(* Of instructions without an error the price is what each that sets one   *)
(* sets it to.                                                             *)
(***************************************************************************)
LEMMA SetFacts ==
  ASSUME NEW t \in Transaction, NEW what
  PROVE  /\ Set(t, what, 0) \in 0..MaxU64
         /\ ~ DetailsError(t) =>
              \A i \in Settings(t) : t.instructions[i].sets = what =>
                t.instructions[i].to = Set(t, what, 0)
<1> DEFINE set == {i \in Settings(t) : t.instructions[i].sets = what}
<1>1. CASE set = {}
  <2>1. Set(t, what, 0) = 0
    BY <1>1 DEF Set
  <2>2. 0 \in 0..MaxU64
    BY SampleAssumption
  <2> QED BY <1>1, <2>1, <2>2
<1>2. CASE set # {}
  <2> DEFINE j == CHOOSE i \in set : TRUE
  <2>1. j \in set
    BY <1>2
  <2>2. Set(t, what, 0) = t.instructions[j].to
    BY <1>2 DEF Set
  <2>3. j \in Settings(t) /\ t.instructions[j].sets = what
    BY <2>1
  <2> HIDE DEF j, set
  <2>4. t.instructions[j].to \in 0..MaxU64
    BY <2>3, SettingFields
  <2>5. ASSUME ~ DetailsError(t), NEW i \in Settings(t), t.instructions[i].sets = what
        PROVE  i = j
    BY <2>3, <2>5 DEF DetailsError
  <2> QED BY <2>2, <2>4, <2>5
<1> QED BY <1>1, <1>2

LEMMA UnitsOfLimit ==
  ASSUME NEW limit \in Nat, limit # 0
  PROVE  AtMost(limit, MaxCuLimit) \in Nat \ {0}
BY SampleAssumption DEF AtMost

LEMMA V1RateFacts ==
  ASSUME NEW config \in TransactionConfig,
         NEW fee, fee = IF config.priority_fee = None THEN 0 ELSE config.priority_fee,
         NEW units, units = AtMost(config.compute_unit_limit, MaxCuLimit)
  PROVE  /\ fee \in Nat
         /\ V1Rate(config) = None <=> config.compute_unit_limit \in {None, 0}
         /\ config.compute_unit_limit \notin {None, 0} =>
              /\ units \in Nat \ {0} /\ V1Rate(config) \in 0..MaxU64
              /\ V1Rate(config) = IF (fee * Micro) \div units <= MaxU64
                                  THEN (fee * Micro) \div units ELSE 0
<1>1. fee \in Nat
  BY SampleAssumption DEF TransactionConfig, Option
<1>2. CASE config.compute_unit_limit \in {None, 0}
  BY <1>1, <1>2 DEF V1Rate
<1>3. CASE config.compute_unit_limit \notin {None, 0}
  <2>1. units \in Nat \ {0}
    <3>1. config.compute_unit_limit \in Nat /\ config.compute_unit_limit # 0
      BY <1>3 DEF TransactionConfig, Option
    <3> QED BY <3>1, UnitsOfLimit
  <2> DEFINE rate == (fee * Micro) \div units
  <2>2. rate \in Nat
    <3>1. Micro \in Nat /\ fee * Micro \in Nat
      BY <1>1, SampleAssumption, Product
    <3> QED BY <2>1, <3>1, Division
  <2>3. V1Rate(config) = IF rate <= MaxU64 THEN rate ELSE 0
    BY <1>3 DEF V1Rate
  <2> HIDE DEF rate
  <2>4. V1Rate(config) \in 0..MaxU64 /\ V1Rate(config) # None
    BY <2>2, <2>3, SampleAssumption
  <2> QED BY <1>1, <1>3, <2>1, <2>3, <2>4 DEF rate
<1> QED BY <1>2, <1>3

(***************************************************************************)
(* The transactions that become samples.                                   *)
(***************************************************************************)
Priced == {t \in Transaction : Skip(t) = None /\ Rate(t) # None}

LEMMA RateType == ASSUME NEW t \in Priced PROVE Rate(t) \in 0..MaxU64
<1>1. t \in Transaction /\ Rate(t) # None
  BY DEF Priced
<1>2. CASE t.config = None
  <2>1. Rate(t) = Set(t, "price", 0)
    BY <1>1, <1>2 DEF Rate, RatePerUnit
  <2> QED BY <1>1, <2>1, SetFacts
<1>3. CASE t.config # None
  <2>1. Rate(t) = V1Rate(t.config) /\ t.config \in TransactionConfig
    BY <1>1, <1>3, TransactionFields DEF Rate
  <2> QED BY <1>1, <2>1, V1RateFacts
<1> QED BY <1>2, <1>3

(***************************************************************************)
(* A rate is what the transaction pays for a unit, rounded down by less    *)
(* than a lamport in all (priority_fee.rs:142-144).                        *)
(***************************************************************************)
LEMMA RateBounds ==
  ASSUME NEW t \in Priced, Limit(t) # 0,
         NEW rate, rate = Rate(t), NEW paid, paid = Paid(t),
         NEW units, units = Units(t)
  PROVE  /\ paid \in Nat /\ units \in Nat \ {0} /\ rate \in Nat
         /\ rate * units <= paid * Micro
         /\ Fits(t) => \A n \in Nat : n * units <= paid * Micro =>
                                     n * units < rate * units + Micro
<1>1. t \in Transaction /\ Rate(t) # None /\ rate \in Nat
  BY RateType DEF Priced
<1>2. Micro \in Nat \ {0} /\ MaxU64 \in Nat
  BY SampleAssumption
<1>3. CASE t.config = None
  <2>1. rate = RatePerUnit(t)
    BY <1>3 DEF Rate
  <2>2. units \in Nat \ {0}
    <3>1. Limit(t) = Set(t, "limit", 0) /\ Set(t, "limit", 0) \in 0..MaxU64
      BY <1>1, <1>3, SetFacts DEF Limit
    <3>2. Limit(t) \in Nat
      BY <1>2, <3>1
    <3> QED BY <3>2, UnitsOfLimit DEF Units
  <2>3. rate * units \in Nat
    BY <1>1, <2>2, Product
  <2>4. paid = (rate * units + Micro - 1) \div Micro
    BY <1>3, <2>1 DEF Paid
  <2>5. rate * units + Micro - 1 \in Nat
    BY <1>2, <2>3
  <2>6. /\ paid \in Nat /\ paid * Micro <= rate * units + Micro - 1
        /\ rate * units + Micro - 1 < paid * Micro + Micro
    BY <1>2, <2>4, <2>5, Division
  <2>7. paid * Micro \in Nat
    BY <1>2, <2>6, Product
  <2>8. rate * units <= paid * Micro
    BY <1>2, <2>3, <2>6, <2>7
  <2>9. ASSUME NEW n \in Nat, n * units <= paid * Micro
        PROVE  n * units < rate * units + Micro
    <3>1. n * units \in Nat
      BY <2>2, Product
    <3> QED BY <1>2, <2>3, <2>6, <2>7, <2>9, <3>1
  <2> QED BY <1>1, <2>2, <2>6, <2>8, <2>9
<1>4. CASE t.config # None
  <2>1. /\ t.config \in TransactionConfig /\ rate = V1Rate(t.config)
        /\ paid = IF t.config.priority_fee = None THEN 0 ELSE t.config.priority_fee
        /\ units = AtMost(t.config.compute_unit_limit, MaxCuLimit)
    BY <1>1, <1>4, TransactionFields DEF Rate, Paid, Units, Limit
  <2>2. /\ paid \in Nat /\ units \in Nat \ {0}
        /\ rate = IF (paid * Micro) \div units <= MaxU64
                  THEN (paid * Micro) \div units ELSE 0
    <3>1. t.config.compute_unit_limit \notin {None, 0}
      BY <1>1, <2>1, V1RateFacts
    <3> QED BY <2>1, <3>1, V1RateFacts
  <2> DEFINE q == (paid * Micro) \div units
  <2>3. /\ paid * Micro \in Nat /\ q \in Nat
        /\ \A n \in Nat : n * units <= paid * Micro <=> n <= q
    <3>1. paid * Micro \in Nat
      BY <1>2, <2>2, Product
    <3> QED BY <2>2, <3>1, Division, Quotient
  <2>4. rate = IF q <= MaxU64 THEN q ELSE 0
    BY <2>2
  <2> HIDE DEF q
  <2>5. rate <= q
    BY <2>3, <2>4
  <2>6. rate * units <= paid * Micro
    BY <1>1, <2>3, <2>5
  <2>7. ASSUME Fits(t), NEW n \in Nat, n * units <= paid * Micro
        PROVE  n * units < rate * units + Micro
    <3>1. q <= MaxU64
      <4>1. paid * Micro <= MaxU64 * units
        BY <2>7 DEF Fits
      <4>2. q * units <= paid * Micro
        BY <2>3
      <4>3. q * units \in Nat /\ MaxU64 * units \in Nat
        BY <1>2, <2>2, <2>3, Product
      <4>4. q * units <= MaxU64 * units
        BY <2>3, <4>1, <4>2, <4>3
      <4>5. (MaxU64 + 1) * units = MaxU64 * units + units
        BY <1>2, <2>2, Successor
      <4>6. q > MaxU64 => (MaxU64 + 1) * units <= q * units
        <5>1. q > MaxU64 => MaxU64 + 1 <= q
          BY <1>2, <2>3
        <5>2. MaxU64 + 1 \in Nat /\ units \in Nat
          BY <1>2, <2>2
        <5> QED BY <2>3, <5>1, <5>2, Monotone
      <4> QED BY <1>2, <2>2, <2>3, <4>3, <4>4, <4>5, <4>6
    <3>2. n <= rate
      BY <2>3, <2>4, <2>7, <3>1
    <3>3. n * units <= rate * units
      BY <1>1, <2>2, <3>2, Monotone
    <3>4. n * units \in Nat /\ rate * units \in Nat
      BY <1>1, <2>2, Product
    <3> QED BY <1>2, <3>3, <3>4
  <2> QED BY <1>1, <2>2, <2>6, <2>7
<1> QED BY <1>3, <1>4

LEMMA Difference ==
  ASSUME NEW a \in Nat, NEW b \in Nat, NEW c \in Nat
  PROVE  (a - b) * c = a * c - b * c
OBVIOUS

LEMMA ScaleOfTwo ==
  ASSUME NEW s \in Priced, NEW t \in Priced,
         Limit(s) # 0, Units(s) = Units(t), Paid(s) <= Paid(t), Fits(t)
  PROVE  (Rate(s) - Rate(t)) * Units(s) < Micro
<1> DEFINE u == Units(s)
<1>1. /\ Paid(s) \in Nat /\ u \in Nat \ {0} /\ Rate(s) \in Nat
      /\ Rate(s) * u <= Paid(s) * Micro
  BY RateBounds
<1>1a. Limit(t) # 0
  BY <1>1, SampleAssumption DEF Units, AtMost
<1>2. /\ Paid(t) \in Nat /\ Rate(t) \in Nat
      /\ \A n \in Nat : n * u <= Paid(t) * Micro => n * u < Rate(t) * u + Micro
  BY <1>1a, RateBounds
<1> HIDE DEF u
<1>3. Micro \in Nat
  BY SampleAssumption
<1>4. /\ Rate(s) * u \in Nat /\ Rate(t) * u \in Nat
      /\ Paid(s) * Micro \in Nat /\ Paid(t) * Micro \in Nat
  BY <1>1, <1>2, <1>3, Product
<1>5. Paid(s) * Micro <= Paid(t) * Micro
  BY <1>1, <1>2, <1>3, Monotone
<1>6. Rate(s) * u <= Paid(t) * Micro
  BY <1>1, <1>4, <1>5
<1>7. Rate(s) * u < Rate(t) * u + Micro
  BY <1>1, <1>2, <1>6
<1>8. (Rate(s) - Rate(t)) * u = Rate(s) * u - Rate(t) * u
  BY <1>1, <1>2, Difference
<1>9. (Rate(s) - Rate(t)) * u < Micro
  BY <1>3, <1>4, <1>7, <1>8
<1> QED BY <1>9 DEF u

(***************************************************************************)
(* A rate of 0.                                                            *)
(***************************************************************************)
LEMMA ZeroRate ==
  ASSUME NEW t \in Priced, Rate(t) = 0
  PROVE  IF t.config = None
         THEN \A i \in Settings(t) :
                t.instructions[i].sets # "garbage"
                  /\ (t.instructions[i].sets = "price" => t.instructions[i].to = 0)
         ELSE Limit(t) \notin {None, 0}
                /\ (Paid(t) * Micro < Units(t) \/ ~ Fits(t))
<1>1. t \in Transaction /\ Rate(t) # None
  BY DEF Priced
<1>2. CASE t.config = None
  <2>1. ~ DetailsError(t) /\ Set(t, "price", 0) = 0
    BY <1>1, <1>2 DEF Rate, RatePerUnit
  <2>2. \A i \in Settings(t) : t.instructions[i].sets # "garbage"
    BY <2>1 DEF DetailsError
  <2> QED BY <1>1, <1>2, <2>1, <2>2, SetFacts
<1>3. CASE t.config # None
  <2>1. t.config \in TransactionConfig /\ Limit(t) = t.config.compute_unit_limit
    BY <1>1, <1>3, TransactionFields DEF Limit
  <2>2. Limit(t) \notin {None, 0}
    BY <1>1, <1>3, <2>1, V1RateFacts DEF Rate
  <2>3. ASSUME Fits(t) PROVE Paid(t) * Micro < Units(t)
    <3>1. /\ Paid(t) \in Nat /\ Units(t) \in Nat \ {0}
          /\ \A n \in Nat : n * Units(t) <= Paid(t) * Micro <=>
                            n <= (Paid(t) * Micro) \div Units(t)
          /\ (Paid(t) * Micro) \div Units(t) \in Nat
          /\ Rate(t) = IF (Paid(t) * Micro) \div Units(t) <= MaxU64
                       THEN (Paid(t) * Micro) \div Units(t) ELSE 0
      <4>1. /\ Paid(t) \in Nat /\ Units(t) \in Nat \ {0}
            /\ Rate(t) = IF (Paid(t) * Micro) \div Units(t) <= MaxU64
                         THEN (Paid(t) * Micro) \div Units(t) ELSE 0
        BY <1>3, <2>1, <2>2, V1RateFacts DEF Rate, Paid, Units
      <4>2. Paid(t) * Micro \in Nat
        BY <4>1, SampleAssumption, Product
      <4> QED BY <4>1, <4>2, Division, Quotient
    <3> DEFINE q == (Paid(t) * Micro) \div Units(t)
    <3> HIDE DEF q
    <3>2. /\ q \in Nat /\ Rate(t) = IF q <= MaxU64 THEN q ELSE 0
          /\ \A n \in Nat : n * Units(t) <= Paid(t) * Micro <=> n <= q
      BY <3>1 DEF q
    <3>2a. Micro \in Nat /\ MaxU64 \in Nat
      BY SampleAssumption
    <3>2b. Paid(t) * Micro \in Nat
      BY <3>1, <3>2a, Product
    <3>3. Paid(t) * Micro \in Nat /\ 1 * Units(t) = Units(t) /\ MaxU64 \in Nat
      BY <3>1, <3>2a, <3>2b
    <3>4. CASE q = 0
      <4>1. ~ (1 * Units(t) <= Paid(t) * Micro)
        BY <3>2, <3>4
      <4> QED BY <3>1, <3>3, <4>1
    <3>5. CASE q # 0
      <4>1. MaxU64 + 1 <= q /\ MaxU64 + 1 \in Nat
        BY <3>2, <3>3, <3>5
      <4>2. (MaxU64 + 1) * Units(t) <= Paid(t) * Micro
        BY <3>2, <4>1
      <4>3. (MaxU64 + 1) * Units(t) = MaxU64 * Units(t) + Units(t)
        BY <3>1, <3>3, Successor
      <4>4. Paid(t) * Micro <= MaxU64 * Units(t) /\ MaxU64 * Units(t) \in Nat
        BY <2>3, <3>1, <3>3, Product DEF Fits
      <4> QED BY <3>1, <3>3, <4>2, <4>3, <4>4
    <3> QED BY <3>4, <3>5
  <2> QED BY <1>3, <2>2, <2>3
<1> QED BY <1>2, <1>3

(***************************************************************************)
(* The accounts.                                                           *)
(***************************************************************************)
LEMMA ConcatRange ==
  ASSUME NEW S, NEW s \in Seq(S), NEW t \in Seq(S)
  PROVE  Range(s \o t) = Range(s) \cup Range(t)
<1>1. /\ DOMAIN s = 1..Len(s) /\ DOMAIN t = 1..Len(t)
      /\ Len(s) \in Nat /\ Len(t) \in Nat
      /\ DOMAIN (s \o t) = 1..(Len(s) + Len(t))
      /\ \A i \in 1..(Len(s) + Len(t)) : (s \o t)[i] = IF i <= Len(s) THEN s[i] ELSE t[i - Len(s)]
  BY LenProperties, ConcatProperties
<1>2. ASSUME NEW i \in DOMAIN s PROVE s[i] \in Range(s \o t)
  <2>1. i \in DOMAIN (s \o t) /\ (s \o t)[i] = s[i]
    BY <1>1
  <2> QED BY <2>1 DEF Range
<1>3. ASSUME NEW i \in DOMAIN t PROVE t[i] \in Range(s \o t)
  <2>1. /\ Len(s) + i \in DOMAIN (s \o t) /\ (s \o t)[Len(s) + i] = t[i]
    BY <1>1
  <2> QED BY <2>1 DEF Range
<1>4. ASSUME NEW i \in DOMAIN (s \o t) PROVE (s \o t)[i] \in Range(s) \cup Range(t)
  <2>1. CASE i <= Len(s)
    BY <1>1, <2>1 DEF Range
  <2>2. CASE ~ (i <= Len(s))
    <3>1. i - Len(s) \in DOMAIN t /\ (s \o t)[i] = t[i - Len(s)]
      BY <1>1, <2>2
    <3> QED BY <3>1 DEF Range
  <2> QED BY <2>1, <2>2
<1> QED BY <1>2, <1>3, <1>4 DEF Range

LEMMA KeyRange ==
  ASSUME NEW S, NEW roles \in Roles(Seq(S))
  PROVE  /\ Range(roles.writable_signers \o roles.writable) \subseteq Range(KeysOf(roles))
         /\ Range(KeysOf(roles)) \subseteq S
<1> DEFINE a == roles.writable_signers
           b == roles.readonly_signers
           c == roles.writable
           d == roles.readonly
<1>1. /\ a \in Seq(S) /\ b \in Seq(S) /\ c \in Seq(S) /\ d \in Seq(S)
      /\ KeysOf(roles) = a \o b \o c \o d
  BY DEF Roles, KeysOf
<1> HIDE DEF a, b, c, d
<1> DEFINE ab == a \o b
           abc == ab \o c
<1>2. ab \in Seq(S) /\ Range(ab) = Range(a) \cup Range(b)
  BY <1>1, ConcatProperties, ConcatRange
<1> HIDE DEF ab
<1>2a. abc \in Seq(S) /\ Range(abc) = Range(ab) \cup Range(c)
  BY <1>1, <1>2, ConcatProperties, ConcatRange
<1> HIDE DEF abc
<1>2b. KeysOf(roles) = abc \o d
  BY <1>1 DEF ab, abc
<1>3. Range(KeysOf(roles)) = Range(a) \cup Range(b) \cup Range(c) \cup Range(d)
  <2>1. Range(abc \o d) = Range(abc) \cup Range(d)
    BY <1>1, <1>2a, ConcatRange
  <2> QED BY <1>2, <1>2a, <1>2b, <2>1
<1>4. \A s \in Seq(S) : Range(s) \subseteq S
  BY LenProperties, ElementOfSeq DEF Range
<1>5. Range(a \o c) = Range(a) \cup Range(c)
  BY <1>1, ConcatRange
<1> QED BY <1>1, <1>3, <1>4, <1>5 DEF a, c

LEMMA SampleAccounts ==
  ASSUME NEW t \in Priced
  PROVE  /\ Sample(t).accounts \subseteq Key
         /\ Sample(t).accounts =
              (IF t.has_header THEN Range(t.roles.writable_signers \o t.roles.writable)
                               ELSE Range(Keys(t)))
              \cup IF t.meta = "ok" THEN Range(t.loaded_writable_addresses) \ {BadKey} ELSE {}
<1>1. t \in Transaction /\ Skip(t) = None
  BY DEF Priced
<1>2. t.meta # "failed" /\ BadKey \notin Range(Keys(t))
  <2>1. /\ "txn_failed" \in Counter /\ "txn_missing" \in Counter
        /\ "message_missing" \in Counter /\ "invalid_pubkey" \in Counter
        /\ None \notin Counter
    BY SampleAssumption DEF Counter
  <2> QED BY <1>1, <2>1 DEF Skip
<1>3. /\ t.roles \in Roles(Seq(Key \cup {BadKey}))
      /\ t.loaded_writable_addresses \in Seq(Key \cup {BadKey})
      /\ t.meta \in {"none", "failed", "ok"}
  BY <1>1, TransactionFields
<1> DEFINE W == Writable(Keys(t), IF t.has_header THEN HeaderOf(t.roles) ELSE None)
<1>4. Range(W) = IF t.has_header THEN Range(t.roles.writable_signers \o t.roles.writable)
                                 ELSE Range(Keys(t))
  <2>1. CASE t.has_header
    <3>1. W = t.roles.writable_signers \o t.roles.writable
      BY <1>3, <2>1, WritableOfRoles DEF Keys
    <3> QED BY <2>1, <3>1
  <2>2. CASE ~ t.has_header
    <3>1. W = Keys(t)
      BY <2>2 DEF Writable
    <3> QED BY <2>2, <3>1
  <2> QED BY <2>1, <2>2
<1>5. Range(W) \subseteq Key
  <2>1. Range(t.roles.writable_signers \o t.roles.writable) \subseteq Range(Keys(t))
        /\ Range(Keys(t)) \subseteq Key \cup {BadKey}
    BY <1>3, KeyRange DEF Keys
  <2> QED BY <1>2, <1>4, <2>1
<1>6. Range(t.loaded_writable_addresses) \subseteq Key \cup {BadKey}
  BY <1>3, LenProperties, ElementOfSeq DEF Range
<1>7. Sample(t).accounts =
        Range(W) \cup IF t.meta = "none" THEN {}
                      ELSE Range(t.loaded_writable_addresses) \ {BadKey}
  BY DEF Sample, RecordedAccounts
<1> HIDE DEF W
<1>8. (IF t.meta = "none" THEN {} ELSE Range(t.loaded_writable_addresses) \ {BadKey})
        = IF t.meta = "ok" THEN Range(t.loaded_writable_addresses) \ {BadKey} ELSE {}
  BY <1>2, <1>3
<1> QED BY <1>4, <1>5, <1>6, <1>7, <1>8

-----------------------------------------------------------------------------
(***************************************************************************)
(* The invariant: the samples are those of priced transactions, and the    *)
(* counters tell how many there were of each kind.                         *)
(***************************************************************************)
Samples == {[of |-> t, as |-> Sample(t)] : t \in Priced}

SInv ==
  /\ transactions \in Seq(Transaction)
  /\ counters \in [Counter -> Nat] /\ buckets \in [Bucket -> Nat]
  /\ pushed \in Seq(Samples)
  /\ Accounted

LEMMA SampleFacts ==
  ASSUME NEW p \in Samples
  PROVE  p.of \in Priced /\ p.as = Sample(p.of) /\ p.as.rate = Rate(p.of)
BY DEF Samples, Sample

LEMMA PushedFacts == SInv => \A p \in Range(pushed) : p \in Samples
BY LenProperties, ElementOfSeq DEF SInv, Range

LEMMA SInvTypeOK == SInv => TypeOK
<1> SUFFICES ASSUME SInv PROVE TypeOK
  OBVIOUS
<1>1. ASSUME NEW p \in Range(pushed)
      PROVE  p.as.rate \in 0..MaxU64 /\ p.as.accounts \subseteq Key
  <2>1. p.of \in Priced /\ p.as = Sample(p.of) /\ p.as.rate = Rate(p.of)
    BY PushedFacts, SampleFacts
  <2> QED BY <2>1, RateType, SampleAccounts
<1> QED BY <1>1 DEF SInv, TypeOK

LEMMA SInvOneScale == SInv => OneScale
<1> SUFFICES ASSUME SInv, NEW x \in Range(pushed), NEW y \in Range(pushed),
                    Limit(x.of) # 0, Units(x.of) = Units(y.of),
                    Paid(x.of) <= Paid(y.of), Fits(y.of)
             PROVE  (x.as.rate - y.as.rate) * Units(x.of) < Micro
  BY DEF OneScale
<1>1. /\ x.of \in Priced /\ x.as.rate = Rate(x.of)
      /\ y.of \in Priced /\ y.as.rate = Rate(y.of)
  BY PushedFacts, SampleFacts
<1> QED BY <1>1, ScaleOfTwo

LEMMA SInvZeroOnlyIfUnpaid == SInv => ZeroOnlyIfUnpaid
<1> SUFFICES ASSUME SInv, NEW p \in Range(pushed), p.as.rate = 0
             PROVE  IF p.of.config = None
                    THEN \A i \in Settings(p.of) :
                           p.of.instructions[i].sets # "garbage"
                             /\ (p.of.instructions[i].sets = "price" =>
                                   p.of.instructions[i].to = 0)
                    ELSE Limit(p.of) \notin {None, 0}
                           /\ (Paid(p.of) * Micro < Units(p.of) \/ ~ Fits(p.of))
  BY DEF ZeroOnlyIfUnpaid
<1>1. p.of \in Priced /\ p.as.rate = Rate(p.of)
  BY PushedFacts, SampleFacts
<1> QED BY <1>1, ZeroRate

LEMMA SInvRecordedForWritable == SInv => RecordedForWritable
<1> SUFFICES ASSUME SInv, NEW p \in Range(pushed)
             PROVE  p.as.accounts =
                      (IF p.of.has_header
                       THEN Range(p.of.roles.writable_signers \o p.of.roles.writable)
                       ELSE Range(Keys(p.of)))
                      \cup IF p.of.meta = "ok"
                           THEN Range(p.of.loaded_writable_addresses) \ {BadKey} ELSE {}
  BY DEF RecordedForWritable
<1>1. p.of \in Priced /\ p.as = Sample(p.of)
  BY PushedFacts, SampleFacts
<1> QED BY <1>1, SampleAccounts

-----------------------------------------------------------------------------
(***************************************************************************)
(* The steps.                                                              *)
(***************************************************************************)
LEMMA InitSInv == Init => SInv
<1> SUFFICES ASSUME Init PROVE SInv
  OBVIOUS
<1>1. /\ transactions = <<>> /\ pushed = <<>>
      /\ counters = [c \in Counter |-> 0] /\ buckets = [b \in Bucket |-> 0]
  BY DEF Init
<1>2. <<>> \in Seq(Transaction) /\ <<>> \in Seq(Samples) /\ Len(<<>>) = 0
  BY EmptySeq
<1>3. Cardinality({i \in DOMAIN pushed : pushed[i].as.version = "V1"}) = 0
  <2>1. {i \in DOMAIN pushed : pushed[i].as.version = "V1"} = {}
    BY <1>1
  <2> QED BY <2>1, FS_EmptySet
<1> QED BY <1>1, <1>2, <1>3 DEF SInv, Accounted, Counter, Bucket

LEMMA CountFacts ==
  ASSUME counters \in [Counter -> Nat], NEW names \in SUBSET Counter
  PROVE  /\ Count(names) \in [Counter -> Nat]
         /\ \A c \in Counter : Count(names)[c] = IF c \in names THEN counters[c] + 1
                                                               ELSE counters[c]
BY DEF Count

LEMMA SixNumbers ==
  ASSUME NEW a \in Nat, NEW b \in Nat, NEW c \in Nat, NEW d \in Nat, NEW e \in Nat,
         NEW n \in Nat, NEW r, r = a + b + c + d + e
  PROVE  r + n = n + a + b + c + d + e
OBVIOUS

LEMMA ConsumeKeeps ==
  ASSUME SInv, NEW block \in Blocks, Consume(block)
  PROVE  SInv'
<1>1. /\ counters \in [Counter -> Nat] /\ transactions = <<>> /\ transactions' = block
      /\ UNCHANGED <<buckets, pushed>>
      /\ counters' = [Count({"blocks_processed"}) EXCEPT !["txns_received"] = @ + Len(block)]
  BY DEF SInv, Consume
<1>2. block \in Seq(Transaction) /\ Len(block) \in Nat
  BY SampleAssumption, LenProperties
<1>3. /\ {"blocks_processed"} \in SUBSET Counter /\ "txns_received" \in Counter
  BY DEF Counter
<1>4. /\ Count({"blocks_processed"}) \in [Counter -> Nat]
      /\ \A c \in Counter : Count({"blocks_processed"})[c] =
           IF c = "blocks_processed" THEN counters[c] + 1 ELSE counters[c]
  BY <1>1, <1>3, CountFacts
<1>5. /\ counters' \in [Counter -> Nat]
      /\ counters'["txns_received"] = counters["txns_received"] + Len(block)
      /\ \A c \in Counter \ {"blocks_processed", "txns_received"} : counters'[c] = counters[c]
  <2> DEFINE new == Count({"blocks_processed"})
  <2> HIDE DEF new
  <2>1. /\ new \in [Counter -> Nat]
        /\ \A c \in Counter : new[c] = IF c = "blocks_processed" THEN counters[c] + 1
                                                              ELSE counters[c]
        /\ counters' = [new EXCEPT !["txns_received"] = @ + Len(block)]
    BY <1>1, <1>4 DEF new
  <2>2. new["txns_received"] = counters["txns_received"]
    BY <1>3, <2>1
  <2>3. new["txns_received"] + Len(block) \in Nat
    BY <1>2, <1>3, <2>1
  <2> QED BY <1>3, <2>1, <2>2, <2>3
<1>6. Accounted'
  <2>1. /\ Accounted /\ Len(transactions) = 0
    BY <1>1, EmptySeq DEF SInv
  <2>2. /\ UNCHANGED <<counters["txn_failed"], counters["txn_missing"],
                       counters["message_missing"], counters["invalid_pubkey"],
                       counters["txns_processed"],
                       counters["priority_fee_details_error"],
                       counters["v1_txn_unpriceable"],
                       counters["txns_priced_from_v1_config"]>>
    BY <1>5 DEF Counter
  <2>3. /\ counters["txn_failed"] \in Nat /\ counters["txn_missing"] \in Nat
        /\ counters["message_missing"] \in Nat /\ counters["invalid_pubkey"] \in Nat
        /\ counters["txns_processed"] \in Nat
    BY <1>1 DEF Counter
  <2>4. counters'["txns_received"] =
          Len(transactions') + counters'["txn_failed"] + counters'["txn_missing"]
            + counters'["message_missing"] + counters'["invalid_pubkey"]
            + counters'["txns_processed"]
    <3>1. counters["txns_received"] =
            counters["txn_failed"] + counters["txn_missing"]
              + counters["message_missing"] + counters["invalid_pubkey"]
              + counters["txns_processed"]
      BY <2>1, <2>3 DEF Accounted
    <3>2. /\ counters'["txns_received"] = counters["txns_received"] + Len(transactions')
          /\ Len(transactions') \in Nat
      BY <1>1, <1>2, <1>5
    <3> QED BY <2>2, <2>3, <3>1, <3>2, SixNumbers
  <2> QED BY <1>1, <2>1, <2>2, <2>4 DEF Accounted
<1> QED BY <1>1, <1>2, <1>5, <1>6 DEF SInv

(***************************************************************************)
(* Of the transaction at the head one fewer is left.                       *)
(***************************************************************************)
LEMMA WalkFacts ==
  ASSUME SInv, transactions # <<>>
  PROVE  /\ Head(transactions) \in Transaction /\ Tail(transactions) \in Seq(Transaction)
         /\ Len(transactions) \in Nat /\ Len(Tail(transactions)) \in Nat
         /\ Len(transactions) = Len(Tail(transactions)) + 1
<1>1. transactions \in Seq(Transaction)
  BY DEF SInv
<1> QED BY <1>1, HeadTailProperties, LenProperties

LEMMA SkipNames ==
  ASSUME NEW t \in Transaction, Skip(t) # None
  PROVE  Skip(t) \in {"txn_failed", "txn_missing", "message_missing", "invalid_pubkey"}
BY TransactionFields DEF Skip

LEMMA SkipKeeps == ASSUME SInv, SkipTransaction PROVE SInv'
<1>1. /\ counters \in [Counter -> Nat] /\ transactions # <<>>
      /\ transactions' = Tail(transactions) /\ UNCHANGED <<buckets, pushed>>
      /\ Skip(Head(transactions)) # None
      /\ counters' = Count({Skip(Head(transactions))})
      /\ buckets \in [Bucket -> Nat] /\ pushed \in Seq(Samples) /\ Accounted
  BY DEF SInv, SkipTransaction
<1>2. PICK why \in {"txn_failed", "txn_missing", "message_missing", "invalid_pubkey"} :
        why = Skip(Head(transactions))
  BY <1>1, WalkFacts, SkipNames
<1>3. /\ counters' \in [Counter -> Nat]
      /\ \A c \in Counter : counters'[c] = IF c = why THEN counters[c] + 1 ELSE counters[c]
  <2>1. {why} \in SUBSET Counter
    BY DEF Counter
  <2> QED BY <1>1, <1>2, <2>1, CountFacts
<1>4. /\ counters'["txn_failed"] = IF why = "txn_failed" THEN counters["txn_failed"] + 1
                                                        ELSE counters["txn_failed"]
      /\ counters'["txn_missing"] = IF why = "txn_missing" THEN counters["txn_missing"] + 1
                                                          ELSE counters["txn_missing"]
      /\ counters'["message_missing"] =
           IF why = "message_missing" THEN counters["message_missing"] + 1
                                      ELSE counters["message_missing"]
      /\ counters'["invalid_pubkey"] =
           IF why = "invalid_pubkey" THEN counters["invalid_pubkey"] + 1
                                     ELSE counters["invalid_pubkey"]
      /\ UNCHANGED <<counters["txns_received"], counters["txns_processed"],
                     counters["priority_fee_details_error"],
                     counters["v1_txn_unpriceable"],
                     counters["txns_priced_from_v1_config"]>>
  BY <1>3 DEF Counter
<1>5. /\ counters["txn_failed"] \in Nat /\ counters["txn_missing"] \in Nat
      /\ counters["message_missing"] \in Nat /\ counters["invalid_pubkey"] \in Nat
      /\ counters["txns_processed"] \in Nat
  BY <1>1 DEF Counter
<1>6. counters'["txns_received"] =
        Len(transactions') + counters'["txn_failed"] + counters'["txn_missing"]
          + counters'["message_missing"] + counters'["invalid_pubkey"]
          + counters'["txns_processed"]
  <2>1. counters["txns_received"] =
          Len(transactions) + counters["txn_failed"] + counters["txn_missing"]
            + counters["message_missing"] + counters["invalid_pubkey"]
            + counters["txns_processed"]
    BY <1>1 DEF Accounted
  <2>2. Len(transactions) = Len(transactions') + 1 /\ Len(transactions') \in Nat
    BY <1>1, WalkFacts
  <2> DEFINE a == counters["txn_failed"]
             b == counters["txn_missing"]
             c == counters["message_missing"]
             d == counters["invalid_pubkey"]
             e == counters["txns_processed"]
             n == Len(transactions')
  <2>3. /\ a \in Nat /\ b \in Nat /\ c \in Nat /\ d \in Nat /\ e \in Nat /\ n \in Nat
        /\ counters'["txns_received"] = n + 1 + a + b + c + d + e
    BY <1>4, <1>5, <2>1, <2>2
  <2>4. /\ a' = IF why = "txn_failed" THEN a + 1 ELSE a
        /\ b' = IF why = "txn_missing" THEN b + 1 ELSE b
        /\ c' = IF why = "message_missing" THEN c + 1 ELSE c
        /\ d' = IF why = "invalid_pubkey" THEN d + 1 ELSE d
        /\ e' = e
    BY <1>4
  <2> HIDE DEF a, b, c, d, e, n
  <2>5. counters'["txns_received"] = n + a' + b' + c' + d' + e'
    BY <1>2, <2>3, <2>4
  <2> QED BY <2>5 DEF a, b, c, d, e, n
<1>7. Accounted'
  BY <1>1, <1>4, <1>6 DEF Accounted
<1> QED BY <1>1, <1>3, <1>7, WalkFacts DEF SInv

(***************************************************************************)
(* The samples of V1 transactions, counted as they are pushed.             *)
(***************************************************************************)
OfV1(samples) == {i \in DOMAIN samples : samples[i].as.version = "V1"}

LEMMA CountFinite ==
  ASSUME NEW q \in Seq(Samples)
  PROVE  IsFiniteSet(OfV1(q)) /\ Cardinality(OfV1(q)) \in Nat
<1>1. OfV1(q) \subseteq 1..Len(q) /\ Len(q) \in Nat
  BY LenProperties DEF OfV1
<1>2. IsFiniteSet(OfV1(q))
  <2>1. IsFiniteSet(1..Len(q))
    BY <1>1, FS_Interval
  <2> QED BY <1>1, <2>1, FS_Subset
<1> QED BY <1>2, FS_CardinalityType

LEMMA CountOfV1 ==
  ASSUME NEW q \in Seq(Samples), NEW e \in Samples
  PROVE  /\ Cardinality(OfV1(q)) \in Nat
         /\ Cardinality(OfV1(Append(q, e))) =
              IF e.as.version = "V1" THEN Cardinality(OfV1(q)) + 1 ELSE Cardinality(OfV1(q))
<1>1. /\ Len(q) \in Nat /\ DOMAIN q = 1..Len(q)
      /\ DOMAIN Append(q, e) = 1..(Len(q) + 1)
      /\ \A i \in 1..Len(q) : Append(q, e)[i] = q[i]
      /\ Append(q, e)[Len(q) + 1] = e
  BY AppendProperties, LenProperties
<1>2. IsFiniteSet(OfV1(q))
  BY CountFinite
<1>3. Len(q) + 1 \notin OfV1(q) /\ 1..(Len(q) + 1) = (1..Len(q)) \cup {Len(q) + 1}
  BY <1>1 DEF OfV1
<1>4. OfV1(Append(q, e)) = IF e.as.version = "V1" THEN OfV1(q) \cup {Len(q) + 1} ELSE OfV1(q)
  <2>1. OfV1(Append(q, e)) = {i \in (1..Len(q)) \cup {Len(q) + 1} :
                                Append(q, e)[i].as.version = "V1"}
    BY <1>1, <1>3 DEF OfV1
  <2> QED BY <1>1, <2>1 DEF OfV1
<1> QED BY <1>2, <1>3, <1>4, FS_AddElement, FS_CardinalityType

LEMMA BucketOf ==
  ASSUME NEW limit \in Option(Nat)
  PROVE  /\ LimitBucket(limit) \in Bucket
         /\ LimitBucket(limit) = "missing" <=> limit = None
         /\ LimitBucket(limit) = "zero" <=> limit = 0
BY SampleAssumption DEF Option, LimitBucket, Bucket

(***************************************************************************)
(* A transaction that is not skipped: what became of it.                   *)
(***************************************************************************)
LEMMA ProcessKeeps == ASSUME SInv, Process PROVE SInv'
<1> DEFINE t == Head(transactions)
           unrated == Rate(t) = None
           legacy == t.config = None
           what == IF unrated
                   THEN IF legacy THEN {"priority_fee_details_error"}
                                  ELSE {"v1_txn_unpriceable"}
                   ELSE IF legacy THEN {} ELSE {"txns_priced_from_v1_config"}
<1>1. /\ transactions # <<>> /\ transactions' = Tail(transactions)
      /\ Skip(t) = None
      /\ counters' = Count({"txns_processed"} \cup what)
      /\ buckets' = IF legacy THEN buckets
           ELSE [buckets EXCEPT ![LimitBucket(t.config.compute_unit_limit)] = @ + 1]
      /\ pushed' = IF unrated THEN pushed ELSE Append(pushed, [of |-> t, as |-> Sample(t)])
  BY DEF Process
<1>2. /\ counters \in [Counter -> Nat] /\ buckets \in [Bucket -> Nat]
      /\ pushed \in Seq(Samples) /\ Accounted
  BY DEF SInv
<1>3. /\ t \in Transaction /\ Tail(transactions) \in Seq(Transaction)
      /\ Len(transactions) = Len(Tail(transactions)) + 1 /\ Len(Tail(transactions)) \in Nat
  BY <1>1, WalkFacts
<1>4. /\ counters' \in [Counter -> Nat]
      /\ counters'["txns_processed"] = counters["txns_processed"] + 1
      /\ counters'["priority_fee_details_error"] =
           IF unrated /\ legacy THEN counters["priority_fee_details_error"] + 1
                                ELSE counters["priority_fee_details_error"]
      /\ counters'["v1_txn_unpriceable"] =
           IF unrated /\ ~ legacy THEN counters["v1_txn_unpriceable"] + 1
                                  ELSE counters["v1_txn_unpriceable"]
      /\ counters'["txns_priced_from_v1_config"] =
           IF ~ unrated /\ ~ legacy THEN counters["txns_priced_from_v1_config"] + 1
                                    ELSE counters["txns_priced_from_v1_config"]
      /\ UNCHANGED <<counters["txns_received"], counters["txn_failed"],
                     counters["txn_missing"], counters["message_missing"],
                     counters["invalid_pubkey"]>>
  <2> DEFINE names == {"txns_processed"} \cup what
  <2>1. names \in SUBSET Counter
    BY DEF Counter
  <2>2. /\ "txns_processed" \in names
        /\ "priority_fee_details_error" \in names <=> unrated /\ legacy
        /\ "v1_txn_unpriceable" \in names <=> unrated /\ ~ legacy
        /\ "txns_priced_from_v1_config" \in names <=> ~ unrated /\ ~ legacy
        /\ "txns_received" \notin names /\ "txn_failed" \notin names
        /\ "txn_missing" \notin names /\ "message_missing" \notin names
        /\ "invalid_pubkey" \notin names
    OBVIOUS
  <2>3. counters' = Count(names)
    BY <1>1
  <2> HIDE DEF names, unrated, legacy
  <2>4. /\ counters' \in [Counter -> Nat]
        /\ \A c \in Counter : counters'[c] = IF c \in names THEN counters[c] + 1
                                                           ELSE counters[c]
    BY <1>2, <2>1, <2>3, CountFacts
  <2> QED BY <2>2, <2>4 DEF Counter
<1>5. /\ buckets' \in [Bucket -> Nat]
      /\ buckets'["missing"] + buckets'["zero"] =
           IF unrated /\ ~ legacy THEN buckets["missing"] + buckets["zero"] + 1
                                  ELSE buckets["missing"] + buckets["zero"]
  <2>1. CASE legacy
    BY <1>1, <1>2, <2>1
  <2>2. CASE ~ legacy
    <3> DEFINE limit == t.config.compute_unit_limit
               b == LimitBucket(limit)
    <3>1. t.config \in TransactionConfig /\ Rate(t) = V1Rate(t.config)
      BY <1>3, <2>2, TransactionFields DEF Rate
    <3>2. limit \in Option(Nat) /\ (unrated <=> limit = None \/ limit = 0)
      BY <3>1, V1RateFacts DEF TransactionConfig
    <3> HIDE DEF limit
    <3>3. /\ b \in Bucket /\ (b = "missing" <=> limit = None) /\ (b = "zero" <=> limit = 0)
      BY <3>2, BucketOf
    <3>4. buckets' = [buckets EXCEPT ![b] = @ + 1]
      BY <1>1, <2>2 DEF limit
    <3> HIDE DEF b, unrated, legacy
    <3>5. /\ buckets' \in [Bucket -> Nat]
          /\ \A c \in Bucket : buckets'[c] = IF c = b THEN buckets[c] + 1 ELSE buckets[c]
      BY <1>2, <3>3, <3>4
    <3>6. /\ buckets["missing"] \in Nat /\ buckets["zero"] \in Nat
          /\ buckets'["missing"] = IF b = "missing" THEN buckets["missing"] + 1
                                                  ELSE buckets["missing"]
          /\ buckets'["zero"] = IF b = "zero" THEN buckets["zero"] + 1 ELSE buckets["zero"]
      BY <1>2, <3>5 DEF Bucket
    <3>7. unrated <=> b = "missing" \/ b = "zero"
      BY <3>2, <3>3
    <3> QED BY <2>2, <3>5, <3>6, <3>7
  <2> QED BY <2>1, <2>2
<1>6. /\ pushed' \in Seq(Samples) /\ Len(pushed) \in Nat
      /\ Cardinality(OfV1(pushed)) \in Nat
      /\ Len(pushed') = IF unrated THEN Len(pushed) ELSE Len(pushed) + 1
      /\ Cardinality(OfV1(pushed')) =
           IF ~ unrated /\ ~ legacy THEN Cardinality(OfV1(pushed)) + 1
                                    ELSE Cardinality(OfV1(pushed))
  <2> DEFINE e == [of |-> t, as |-> Sample(t)]
  <2>1. Len(pushed) \in Nat
    BY <1>2, LenProperties
  <2>2. CASE unrated
    <3>1. pushed' = pushed
      BY <1>1, <2>2
    <3>2. Cardinality(OfV1(pushed)) \in Nat
      BY <1>2, CountFinite
    <3> QED BY <1>2, <2>1, <2>2, <3>1, <3>2
  <2>3. CASE ~ unrated
    <3>1. t \in Priced
      BY <1>1, <1>3, <2>3 DEF Priced
    <3>2. e \in Samples /\ (e.as.version = "V1" <=> ~ legacy)
      BY <3>1 DEF Samples, Sample
    <3>3. pushed' = Append(pushed, e)
      BY <1>1, <2>3
    <3> HIDE DEF e, unrated, legacy
    <3>4. pushed' \in Seq(Samples) /\ Len(pushed') = Len(pushed) + 1
      BY <1>2, <3>2, <3>3, AppendProperties
    <3>5. /\ Cardinality(OfV1(pushed)) \in Nat
          /\ Cardinality(OfV1(pushed')) =
               IF ~ legacy THEN Cardinality(OfV1(pushed)) + 1 ELSE Cardinality(OfV1(pushed))
      BY <1>2, <3>2, <3>3, CountOfV1
    <3> QED BY <2>1, <2>3, <3>4, <3>5
  <2> QED BY <2>2, <2>3
<1>7. Accounted'
  <2> HIDE DEF unrated, legacy
  <2>1. counters'["txns_received"] =
          Len(transactions') + counters'["txn_failed"] + counters'["txn_missing"]
            + counters'["message_missing"] + counters'["invalid_pubkey"]
            + counters'["txns_processed"]
    <3> DEFINE a == counters["txn_failed"]
               b == counters["txn_missing"]
               c == counters["message_missing"]
               d == counters["invalid_pubkey"]
               e == counters["txns_processed"]
               n == Len(transactions')
    <3>1. /\ a \in Nat /\ b \in Nat /\ c \in Nat /\ d \in Nat /\ e \in Nat /\ n \in Nat
          /\ a' = a /\ b' = b /\ c' = c /\ d' = d /\ e' = e + 1
      BY <1>1, <1>2, <1>3, <1>4 DEF Counter
    <3>2. counters'["txns_received"] = n + 1 + a + b + c + d + e
      BY <1>1, <1>2, <1>3, <1>4 DEF Accounted
    <3> HIDE DEF a, b, c, d, e, n
    <3>3. counters'["txns_received"] = n + a' + b' + c' + d' + e'
      BY <3>1, <3>2
    <3> QED BY <3>3 DEF a, b, c, d, e, n
  <2>2. counters'["txns_processed"] =
          Len(pushed') + counters'["priority_fee_details_error"]
            + counters'["v1_txn_unpriceable"]
    <3> DEFINE a == counters["priority_fee_details_error"]
               b == counters["v1_txn_unpriceable"]
               e == counters["txns_processed"]
               n == Len(pushed)
    <3>1. a \in Nat /\ b \in Nat /\ n \in Nat /\ e = n + a + b
      BY <1>2, <1>6 DEF Counter, Accounted
    <3>2. /\ a' = IF unrated /\ legacy THEN a + 1 ELSE a
          /\ b' = IF unrated /\ ~ legacy THEN b + 1 ELSE b
          /\ e' = e + 1 /\ n' = IF unrated THEN n ELSE n + 1
      BY <1>4, <1>6
    <3> HIDE DEF a, b, e, n
    <3>3. e' = n' + a' + b'
      BY <3>1, <3>2
    <3> QED BY <3>3 DEF a, b, e, n
  <2>3. /\ counters'["txns_priced_from_v1_config"] = Cardinality(OfV1(pushed'))
        /\ counters'["v1_txn_unpriceable"] = buckets'["missing"] + buckets'["zero"]
    <3>1. /\ counters["txns_priced_from_v1_config"] = Cardinality(OfV1(pushed))
          /\ counters["v1_txn_unpriceable"] = buckets["missing"] + buckets["zero"]
      BY <1>2 DEF Accounted, OfV1
    <3> QED BY <1>4, <1>5, <1>6, <3>1
  <2> QED BY <2>1, <2>2, <2>3 DEF Accounted, OfV1
<1> QED BY <1>1, <1>3, <1>4, <1>5, <1>6, <1>7 DEF SInv

LEMMA StepSInv == ASSUME SInv, [Next]_vars PROVE SInv'
<1>1. ASSUME NEW block \in Blocks, Consume(block) PROVE SInv'
  BY <1>1, ConsumeKeeps
<1>2. CASE SkipTransaction
  BY <1>2, SkipKeeps
<1>3. CASE Process
  BY <1>3, ProcessKeeps
<1>4. CASE UNCHANGED vars
  BY <1>4 DEF vars, SInv, Accounted
<1> QED BY <1>1, <1>2, <1>3, <1>4 DEF Next

-----------------------------------------------------------------------------
(***************************************************************************)
(* Every sample pushed by consume() is that of a transaction it has        *)
(* received, that was not skipped and has a rate, and the counters tell    *)
(* what became of each of the others, whatever blocks arrive.              *)
(***************************************************************************)
THEOREM SampleInvariant == Spec => []SInv
<1>1. Init => SInv
  BY InitSInv
<1>2. SInv /\ [Next]_vars => SInv'
  BY StepSInv
<1> QED BY <1>1, <1>2, PTL DEF Spec

(***************************************************************************)
(* What is pushed has a rate of 64 bits and accounts that are keys: the    *)
(* bytes that are not a key are left out or stop the transaction.          *)
(***************************************************************************)
THEOREM SampleTypes == Spec => []TypeOK
BY SampleInvariant, SInvTypeOK, PTL

(***************************************************************************)
(* At every moment of the walk each transaction received is still to come, *)
(* recorded, or counted under one reason why not.                          *)
(***************************************************************************)
THEOREM NothingGoesMissing == Spec => []Accounted
<1>1. SInv => Accounted
  BY DEF SInv
<1> QED BY <1>1, SampleInvariant, PTL

(***************************************************************************)
(* The rate of a V1 transaction, its fee over its units, compares with the *)
(* price per unit of a legacy one (priority_fee.rs:142-144), for every fee *)
(* and limit that fit in 64 bits.                                          *)
(***************************************************************************)
THEOREM VersionsShareAScale == Spec => []OneScale
BY SampleInvariant, SInvOneScale, PTL

(***************************************************************************)
(* No transaction that bids 1 a unit or more, within what the runtime      *)
(* takes, is recorded as a free one (priority_fee.rs:177-178).             *)
(***************************************************************************)
THEOREM OnlyTheUnpaidAreFree == Spec => []ZeroOnlyIfUnpaid
BY SampleInvariant, SInvZeroOnlyIfUnpaid, PTL

(***************************************************************************)
(* construct_writable_accounts reads back, from the keys and the header    *)
(* alone, the accounts the message was compiled to write.                  *)
(***************************************************************************)
THEOREM WritersAreRecorded == Spec => []RecordedForWritable
BY SampleInvariant, SInvRecordedForWritable, PTL
=============================================================================
