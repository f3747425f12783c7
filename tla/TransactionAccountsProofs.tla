---------------------- MODULE TransactionAccountsProofs ----------------------
(***************************************************************************)
(* The accounts of a transaction a client sends, for every limit on its    *)
(* size, every set of tables and whatever happens to them, and every       *)
(* answer of the node.                                                     *)
(***************************************************************************)
EXTENDS TransactionAccounts, WellFoundedInduction, TLAPS

-----------------------------------------------------------------------------
(***************************************************************************)
(* Of the positions of a sequence there is a last one.                     *)
(***************************************************************************)
LEMMA LastPosition ==
  ASSUME NEW n \in Nat, NEW S \in SUBSET (1..n), S # {}
  PROVE  Max(S) \in S
<1> DEFINE T == {n - i : i \in S}
           Less == OpToRel(<, Nat)
<1>1. T \subseteq Nat /\ T # {}
  <2>1. \A i \in S : i \in Int /\ n - i \in Nat
    OBVIOUS
  <2> QED BY <2>1
<1>2. \A x, y \in Nat : <<x, y>> \in Less <=> x < y
  BY DEF OpToRel
<1> HIDE DEF T
<1>3. PICK x \in T : \A y \in T : <<y, x>> \notin Less
  <2>1. IsWellFoundedOn(Less, Nat)
    BY NatLessThanWellFounded
  <2> HIDE DEF Less
  <2> QED BY <1>1, <2>1, WFMin
<1>4. \A y \in T : x <= y
  <2>1. \A y \in T : x \in Nat /\ y \in Nat /\ ~ (y < x)
    BY <1>1, <1>2, <1>3
  <2> QED BY <2>1
<1>5. PICK m \in S : x = n - m
  BY DEF T
<1>6. ASSUME NEW i \in S PROVE m >= i
  <2>1. n - i \in T
    BY DEF T
  <2>2. n - m <= n - i /\ m \in 1..n /\ i \in 1..n
    BY <1>4, <1>5, <2>1
  <2> QED BY <2>2
<1> QED BY <1>5, <1>6 DEF Max

-----------------------------------------------------------------------------
(***************************************************************************)
(* The two tests of the size agree with the one on what is sent: a text    *)
(* within the limit of its encoding is what a transaction within the limit *)
(* takes (solana_rpc.rs:97-98).                                            *)
(***************************************************************************)
LEMMA EncodingKeepsTheLimit ==
  ASSUME NEW encoding \in {"base58", "base64"}, NEW wire \in Nat,
         NEW length \in Lengths(encoding, wire), wire <= MaxTransactionSize
  PROVE  ~ (length > MaxEncoded(encoding))
<1>1. MaxTransactionSize \in Nat /\ MaxTransactionSize >= 2
  BY AccountsAssumption
<1>2. CASE encoding = "base64"
  <2>1. /\ length = Groups(wire) * 4 /\ MaxEncoded(encoding) = Groups(MaxTransactionSize) * 4
    BY <1>2 DEF Lengths, MaxEncoded
  <2>2. Groups(wire) <= Groups(MaxTransactionSize) /\ Groups(wire) \in Nat
          /\ Groups(MaxTransactionSize) \in Nat
    BY <1>1 DEF Groups
  <2> QED BY <2>1, <2>2
<1>3. CASE encoding = "base58"
  <2>1. /\ length \in wire..((wire * 138) \div 100 + 1)
        /\ MaxEncoded(encoding) = MaxTransactionSize * 2
    BY <1>3 DEF Lengths, MaxEncoded
  <2>2. (wire * 138) \div 100 + 1 <= MaxTransactionSize * 2
    BY <1>1
  <2> QED BY <1>1, <2>1, <2>2
<1> QED BY <1>2, <1>3

(***************************************************************************)
(* What was sent, until it is answered.                                    *)
(***************************************************************************)
SentOK ==
  /\ sent.message \in Messages /\ sent.wire \in WireSizes
  /\ sent.encoding \in {"base58", "base64"}
  /\ sent.content \in {"valid", "garbage", "undecodable"}
  /\ sent.length \in Lengths(sent.encoding, sent.wire)

LEMMA GateOfErrors ==
  ASSUME SentOK, sent.content # "undecodable"
  PROVE  DecodeError(sent) \in {"encoded too large", "decoded too large"}
           <=> sent.wire > MaxTransactionSize
<1>1. /\ sent.wire \in Nat /\ MaxTransactionSize \in Nat /\ None \notin Failure
      /\ sent.encoding \in {"base58", "base64"}
      /\ sent.length \in Lengths(sent.encoding, sent.wire)
  BY AccountsAssumption DEF SentOK
<1>2. sent.wire <= MaxTransactionSize => ~ (sent.length > MaxEncoded(sent.encoding))
  BY <1>1, EncodingKeepsTheLimit
<1>3. CASE sent.wire > MaxTransactionSize
  BY <1>1, <1>3 DEF DecodeError
<1>4. CASE ~ (sent.wire > MaxTransactionSize)
  <2>1. sent.wire <= MaxTransactionSize
    BY <1>1, <1>4
  <2> QED BY <1>1, <1>2, <1>4, <2>1 DEF DecodeError, Failure
<1> QED BY <1>3, <1>4

-----------------------------------------------------------------------------
(***************************************************************************)
(* While a transaction is on its way, the addresses it looked up are still *)
(* at their positions in every table that is not closed, since a table     *)
(* only grows.                                                             *)
(***************************************************************************)
LooksUp(l, j, k) ==
  tables[l.table] # None =>
    j + 1 \in DOMAIN tables[l.table] /\ tables[l.table][j + 1] = k

StillThere ==
  /\ \A l \in Lookups(sent.message) : \A j \in Both(l) : \E k \in named : LooksUp(l, j, k)
  /\ \A k \in named_writable :
       \E l \in Lookups(sent.message) : \E j \in l.writable : LooksUp(l, j, k)

AInv ==
  /\ tables \in [Table -> Option(Seq(Key))]
  /\ phase \in {"idle", "decode", "fetch", "done"}
  /\ phase # "idle" => SentOK
  /\ phase = "fetch" =>
       error = None /\ sent.message.lookups # None /\ accounts = Static(sent.message)
  /\ phase \in {"decode", "fetch"} => StillThere
  /\ served => phase = "done"
  /\ SizeGate /\ NothingInvented /\ OwnFeesCounted

LEMMA LookupFields ==
  ASSUME SentOK
  PROVE  \A l \in Lookups(sent.message) :
           l.table \in Table /\ l.writable \subseteq Nat /\ Both(l) \subseteq Nat
<1>1. sent.message.lookups # None => sent.message.lookups \in Seq(Lookup)
  BY AccountsAssumption DEF SentOK, Message, Option
<1>2. \A l \in Lookups(sent.message) : l \in Lookup
  BY <1>1 DEF Lookups, Range
<1> QED BY <1>2 DEF Lookup, Both

(***************************************************************************)
(* A step of the chain: tables keep what they have until they are closed.  *)
(***************************************************************************)
Grown ==
  /\ tables' \in [Table -> Option(Seq(Key))]
  /\ \A t \in Table : tables'[t] # None =>
       /\ tables[t] # None
       /\ \A i \in DOMAIN tables[t] : i \in DOMAIN tables'[t] /\ tables'[t][i] = tables[t][i]

LEMMA GrownKeeps ==
  ASSUME AInv, Grown, UNCHANGED <<phase, error, accounts, served, sent_vars>>
  PROVE  AInv'
<1>1. ASSUME SentOK, StillThere PROVE StillThere'
  <2>1. \A l \in Lookups(sent.message), j \in Nat : \A k : LooksUp(l, j, k) => LooksUp(l, j, k)'
    BY <1>1, LookupFields DEF Grown, LooksUp, sent_vars
  <2>2. \A l \in Lookups(sent.message) : l.writable \subseteq Nat /\ Both(l) \subseteq Nat
    BY <1>1, LookupFields
  <2>3. ASSUME NEW l \in Lookups(sent.message), NEW j \in Both(l)
        PROVE  \E k \in named : LooksUp(l, j, k)'
    BY <1>1, <2>1, <2>2 DEF StillThere
  <2>4. ASSUME NEW k \in named_writable
        PROVE  \E l \in Lookups(sent.message) : \E j \in l.writable : LooksUp(l, j, k)'
    BY <1>1, <2>1, <2>2 DEF StillThere
  <2> QED BY <2>3, <2>4 DEF StillThere, sent_vars, LooksUp
<1>2. SentOK => SentOK'
  BY DEF SentOK, sent_vars
<1> QED
  BY <1>1, <1>2 DEF AInv, Grown, SizeGate, NothingInvented, OwnFeesCounted,
                    OneLookupPerTable, sent_vars

LEMMA ExtendGrows ==
  ASSUME AInv, NEW t \in Table, NEW k \in Key, Extend(t, k)
  PROVE  Grown
<1>1. /\ tables \in [Table -> Option(Seq(Key))] /\ tables[t] # None
      /\ tables' = [tables EXCEPT ![t] = Append(@, k)]
  BY DEF AInv, Extend
<1>2. tables[t] \in Seq(Key)
  BY <1>1 DEF Option
<1>3. /\ Append(tables[t], k) \in Seq(Key)
      /\ \A i \in DOMAIN tables[t] :
           i \in DOMAIN Append(tables[t], k) /\ Append(tables[t], k)[i] = tables[t][i]
  BY <1>2
<1> QED BY <1>1, <1>3 DEF Grown, Option

LEMMA CloseGrows ==
  ASSUME AInv, NEW t \in Table, CloseTable(t)
  PROVE  Grown
BY DEF AInv, CloseTable, Grown, Option

-----------------------------------------------------------------------------
(***************************************************************************)
(* The steps of the client and of the server.                              *)
(***************************************************************************)
LEMMA SendKeeps ==
  ASSUME AInv, NEW m \in Messages, NEW encoding \in {"base58", "base64"},
         NEW wire \in WireSizes, NEW content \in {"valid", "garbage", "undecodable"},
         NEW length \in Lengths(encoding, wire), Send(m, encoding, wire, length, content)
  PROVE  AInv'
<1>1. /\ phase = "idle" /\ phase' = "decode"
      /\ UNCHANGED <<tables, error, accounts, served>>
      /\ sent' = [message |-> m, encoding |-> encoding, wire |-> wire,
                  length |-> length, content |-> content]
      /\ named' = UNION {At(l.table, Both(l)) : l \in Lookups(m)}
      /\ named_writable' = UNION {At(l.table, l.writable) : l \in Lookups(m)}
      /\ \A l \in Lookups(m) : Both(l) \subseteq 0..(Size(l.table) - 1)
  BY DEF Send
<1>2. /\ sent'.message = m /\ sent'.encoding = encoding /\ sent'.wire = wire
      /\ sent'.length = length /\ sent'.content = content
  BY <1>1
<1>3. SentOK'
  BY <1>2 DEF SentOK
<1>4. ASSUME NEW l \in Lookups(m), NEW j \in Both(l)
      PROVE  j \in Nat /\ LooksUp(l, j, tables[l.table][j + 1])
  <2>1. j \in 0..(Size(l.table) - 1)
    BY <1>1, <1>4
  <2>2. l.table \in Table
    <3>1. SentOK' => l.table \in Table
      <4>1. m.lookups # None => m.lookups \in Seq(Lookup)
        BY AccountsAssumption DEF Message, Option
      <4>2. l \in Lookup
        BY <1>4, <4>1 DEF Lookups, Range
      <4> QED BY <4>2 DEF Lookup
    <3> QED BY <1>3, <3>1
  <2>3. CASE tables[l.table] = None
    BY <2>1, <2>3 DEF Size, LooksUp
  <2>4. CASE tables[l.table] # None
    <3>1. tables[l.table] \in Seq(Key)
      BY <2>2, <2>4 DEF AInv, Option
    <3>2. j \in 0..(Len(tables[l.table]) - 1)
      BY <2>1, <2>4 DEF Size
    <3> QED BY <3>1, <3>2 DEF LooksUp
  <2> QED BY <2>3, <2>4
<1>5. \A l \in Lookups(m) : \A j \in Both(l) : \E k \in named' : LooksUp(l, j, k)
  <2>1. \A l \in Lookups(m) : \A j \in Both(l) : tables[l.table][j + 1] \in named'
    BY <1>1 DEF At
  <2> QED BY <1>4, <2>1
<1>6. \A k \in named_writable' :
        \E l \in Lookups(m) : \E j \in l.writable : LooksUp(l, j, k)
  <2>1. \A k \in named_writable' :
          \E l \in Lookups(m) : \E j \in l.writable : k = tables[l.table][j + 1]
    BY <1>1 DEF At
  <2>2. \A l \in Lookups(m) : l.writable \subseteq Both(l)
    BY DEF Both
  <2> QED BY <1>4, <2>1, <2>2
<1>7. StillThere'
  <2>1. \A l, j, k : LooksUp(l, j, k)' <=> LooksUp(l, j, k)
    BY <1>1 DEF LooksUp
  <2>2. \A l \in Lookups(m) : \A j \in Both(l) : \E k \in named' : LooksUp(l, j, k)'
    BY <1>5, <2>1
  <2>3. \A k \in named_writable' :
          \E l \in Lookups(m) : \E j \in l.writable : LooksUp(l, j, k)'
    BY <1>6, <2>1
  <2> QED BY <1>2, <2>2, <2>3 DEF StillThere
<1>8. SizeGate' /\ NothingInvented' /\ OwnFeesCounted'
  BY <1>1 DEF SizeGate, NothingInvented, OwnFeesCounted
<1> QED BY <1>1, <1>3, <1>7, <1>8 DEF AInv

LEMMA DecodeKeeps == ASSUME AInv, Decode PROVE AInv'
<1>1. /\ phase = "decode" /\ SentOK /\ StillThere /\ served = FALSE
      /\ error' = DecodeError(sent)
      /\ phase' = IF error' # None \/ sent.message.lookups = None THEN "done" ELSE "fetch"
      /\ accounts' = IF error' = None THEN Static(sent.message) ELSE {}
      /\ UNCHANGED <<tables, served, sent, named, named_writable>>
  BY DEF AInv, Decode, sent_vars
<1>2. SentOK'
  BY <1>1 DEF SentOK
<1>3. StillThere'
  <2>1. StillThere /\ UNCHANGED <<tables, sent, named, named_writable>>
    BY <1>1
  <2>2. sent'.message = sent.message
    BY <2>1
  <2>3. \A l, j, k : LooksUp(l, j, k)' <=> LooksUp(l, j, k)
    BY <2>1 DEF LooksUp
  <2> QED BY <2>1, <2>2, <2>3 DEF StillThere
<1>4. SizeGate'
  BY <1>1, GateOfErrors DEF SizeGate
<1>5. NothingInvented' /\ OwnFeesCounted'
  BY <1>1 DEF NothingInvented, OwnFeesCounted
<1> QED BY <1>1, <1>2, <1>3, <1>4, <1>5 DEF AInv

(***************************************************************************)
(* A table that is asked for gives addresses that were looked up, and the  *)
(* positions the server keeps of it are those of one of its lookups.       *)
(***************************************************************************)
LEMMA IndicesOfALookup ==
  ASSUME SentOK, sent.message.lookups # None, NEW l \in Lookups(sent.message)
  PROVE  /\ \E o \in Lookups(sent.message) :
              o.table = l.table /\ Indices(sent.message, l.table) = Both(o)
         /\ OneLookupPerTable => Indices(sent.message, l.table) = Both(l)
<1> DEFINE s == sent.message.lookups
           S == {i \in DOMAIN s : s[i].table = l.table}
<1>1. s \in Seq(Lookup)
  BY AccountsAssumption DEF SentOK, Message, Option
<1>2. PICK i \in DOMAIN s : l = s[i]
  BY DEF Lookups, Range
<1>3. Len(s) \in Nat /\ S \in SUBSET (1..Len(s)) /\ S # {}
  BY <1>1, <1>2
<1> HIDE DEF S
<1>4. Max(S) \in S
  BY <1>3, LastPosition
<1>5. Max(S) \in DOMAIN s /\ s[Max(S)].table = l.table
  BY <1>4 DEF S
<1>6. Indices(sent.message, l.table) = Both(s[Max(S)])
  BY DEF Indices, S
<1>7. s[Max(S)] \in Lookups(sent.message)
  BY <1>5 DEF Lookups, Range
<1>8. OneLookupPerTable => Max(S) = i
  BY <1>2, <1>5 DEF OneLookupPerTable
<1> QED BY <1>2, <1>5, <1>6, <1>7, <1>8

LEMMA FetchKeeps ==
  ASSUME AInv, NEW seen \in [Table -> 0..MaxAddresses], Fetch(seen)
  PROVE  AInv'
<1> DEFINE m == sent.message
           asked == {l.table : l \in Lookups(m)}
<1>1. /\ phase = "fetch" /\ phase' = "done" /\ UNCHANGED <<tables, error>>
      /\ UNCHANGED <<sent, named, named_writable>>
      /\ SentOK /\ StillThere /\ error = None /\ sent.message.lookups # None
      /\ accounts = Static(m) /\ SizeGate
      /\ \A t \in Table : seen[t] \in IF t \in asked THEN 0..Size(t) ELSE {0}
      /\ accounts' = accounts \cup UNION {Found(m, t, seen[t]) : t \in asked}
      /\ served' = \A l \in Lookups(m) : \A j \in Both(l) : j < seen[l.table]
  BY DEF AInv, Fetch, sent_vars
<1>2. SentOK'
  BY <1>1 DEF SentOK
<1>3. SizeGate'
  BY <1>1 DEF SizeGate
<1>4. ASSUME NEW l \in Lookups(m), NEW j \in Nat, j < seen[l.table]
      PROVE  tables[l.table] # None
  <2>1. l.table \in asked /\ l.table \in Table
    BY <1>1, LookupFields
  <2>2. seen[l.table] \in 0..Size(l.table)
    BY <1>1, <2>1
  <2> QED BY <1>4, <2>2 DEF Size
<1>5. ASSUME NEW t \in asked, NEW k \in Found(m, t, seen[t])
      PROVE  k \in named
  <2>1. PICK l \in Lookups(m) : t = l.table
    BY <1>5
  <2>2. PICK j \in Nat : /\ j < seen[t] /\ j \in Indices(m, t) /\ k = tables[t][j + 1]
    <3>1. seen[t] \in 0..MaxAddresses
      BY <1>1, <2>1, LookupFields
    <3>2. \A j \in 0..(seen[t] - 1) : j \in Nat /\ j < seen[t] /\ j % 256 = j
      BY <3>1, AccountsAssumption
    <3> QED BY <1>5, <3>2 DEF Found, At
  <2>3. PICK o \in Lookups(m) : o.table = t /\ j \in Both(o)
    BY <1>1, <2>1, <2>2, IndicesOfALookup
  <2>4. PICK a \in named : LooksUp(o, j, a)
    BY <1>1, <2>3 DEF StillThere
  <2>5. tables[t] # None
    BY <1>4, <2>1, <2>2
  <2> QED BY <2>2, <2>3, <2>4, <2>5 DEF LooksUp
<1>6. NothingInvented'
  BY <1>1, <1>5 DEF NothingInvented
<1>7. ASSUME served', OneLookupPerTable, NEW k \in named_writable
      PROVE  k \in accounts'
  <2>1. PICK l \in Lookups(m) : \E j \in l.writable : LooksUp(l, j, k)
    BY <1>1, <1>7 DEF StillThere
  <2>2. PICK j \in l.writable : LooksUp(l, j, k)
    BY <2>1
  <2>3. j \in Both(l) /\ j \in Nat /\ j < seen[l.table] /\ l.table \in asked
    BY <1>1, <1>7, LookupFields DEF Both
  <2>4. k = tables[l.table][j + 1]
    BY <1>4, <2>2, <2>3 DEF LooksUp
  <2>5. j \in Indices(m, l.table)
    BY <1>1, <1>7, <2>3, IndicesOfALookup
  <2>6. j \in 0..(seen[l.table] - 1) /\ j % 256 = j
    <3>1. seen[l.table] \in 0..MaxAddresses
      BY <1>1, LookupFields
    <3> QED BY <2>3, <3>1, AccountsAssumption
  <2>7. k \in Found(m, l.table, seen[l.table])
    BY <2>3, <2>4, <2>5, <2>6 DEF Found, At
  <2> QED BY <1>1, <2>3, <2>7
<1>8. OwnFeesCounted'
  <2>1. OneLookupPerTable' <=> OneLookupPerTable
    BY <1>1 DEF OneLookupPerTable
  <2> QED BY <1>1, <1>7, <2>1 DEF OwnFeesCounted
<1>9. tables' \in [Table -> Option(Seq(Key))]
  BY <1>1 DEF AInv
<1> QED BY <1>1, <1>2, <1>3, <1>6, <1>8, <1>9 DEF AInv

(***************************************************************************)
(* The node may fail (the estimate is then for the accounts of the message *)
(* alone), and an answer ends the request.                                 *)
(***************************************************************************)
LEMMA NodeFailsKeeps == ASSUME AInv, NodeFails PROVE AInv'
<1>1. /\ phase = "fetch" /\ phase' = "done" /\ served = FALSE
      /\ UNCHANGED <<tables, error, accounts, served, sent, named, named_writable>>
      /\ accounts = Static(sent.message) /\ SentOK /\ SizeGate
      /\ tables \in [Table -> Option(Seq(Key))]
  BY DEF AInv, NodeFails, sent_vars
<1>2. SentOK' /\ SizeGate'
  BY <1>1 DEF SentOK, SizeGate
<1>3. NothingInvented' /\ OwnFeesCounted'
  BY <1>1 DEF NothingInvented, OwnFeesCounted
<1> QED BY <1>1, <1>2, <1>3 DEF AInv

LEMMA ReturnKeeps == ASSUME AInv, Return PROVE AInv'
BY DEF AInv, Return, SizeGate, NothingInvented, OwnFeesCounted

LEMMA StepAInv == ASSUME AInv, [Next]_vars PROVE AInv'
<1>1. ASSUME NEW t \in Table, NEW k \in Key, Extend(t, k) PROVE AInv'
  BY <1>1, ExtendGrows, GrownKeeps DEF Extend
<1>2. ASSUME NEW t \in Table, CloseTable(t) PROVE AInv'
  BY <1>2, CloseGrows, GrownKeeps DEF CloseTable
<1>3. ASSUME NEW m \in Messages, NEW encoding \in {"base58", "base64"},
             NEW wire \in WireSizes, NEW content \in {"valid", "garbage", "undecodable"},
             NEW length \in Lengths(encoding, wire), Send(m, encoding, wire, length, content)
      PROVE  AInv'
  BY <1>3, SendKeeps
<1>4. CASE Decode
  BY <1>4, DecodeKeeps
<1>5. ASSUME NEW seen \in [Table -> 0..MaxAddresses], Fetch(seen) PROVE AInv'
  BY <1>5, FetchKeeps
<1>6. CASE NodeFails
  BY <1>6, NodeFailsKeeps
<1>7. CASE Return
  BY <1>7, ReturnKeeps
<1>8. CASE UNCHANGED vars
  <2>1. Grown
    BY <1>8 DEF AInv, Grown, vars
  <2> QED BY <1>8, <2>1, GrownKeeps DEF vars
<1> QED BY <1>1, <1>2, <1>3, <1>4, <1>5, <1>6, <1>7, <1>8 DEF Next

-----------------------------------------------------------------------------
(***************************************************************************)
(* From the text a client sends to the accounts, whatever happens to the   *)
(* tables on the way and whatever the node answers (get_accounts).         *)
(***************************************************************************)
THEOREM AccountsInvariant == Spec => []AInv
<1>1. Init => AInv
  BY DEF Init, AInv, Option, SizeGate, NothingInvented, OwnFeesCounted
<1>2. AInv /\ [Next]_vars => AInv'
  BY StepAInv
<1> QED BY <1>1, <1>2, PTL DEF Spec

(***************************************************************************)
(* For every limit, a transaction is refused for its size if and only if   *)
(* it is over the limit, in either encoding (solana_rpc.rs:97-98).         *)
(***************************************************************************)
THEOREM OneLimitForAllEncodings == Spec => []SizeGate
<1>1. AInv => SizeGate
  BY DEF AInv
<1> QED BY <1>1, AccountsInvariant, PTL

(***************************************************************************)
(* No estimate is for an account that the transaction neither writes       *)
(* itself nor looked up when it was compiled, however far the node lags    *)
(* behind (get_from_address_lookup_tables, rpc_server.rs:172).             *)
(***************************************************************************)
THEOREM OnlyTheTransactionsOwn == Spec => []NothingInvented
<1>1. AInv => NothingInvented
  BY DEF AInv
<1> QED BY <1>1, AccountsInvariant, PTL

(***************************************************************************)
(* The estimate is for every account the fee will be recorded for, as long *)
(* as the node serves the tables and none is looked up twice (get_accounts *)
(* and extract_from_message agree on what a message writes).               *)
(***************************************************************************)
THEOREM EstimateMeetsRecord == Spec => []OwnFeesCounted
<1>1. AInv => OwnFeesCounted
  BY DEF AInv
<1> QED BY <1>1, AccountsInvariant, PTL
=============================================================================
