------------------------- MODULE TransactionAccounts -------------------------
(***************************************************************************)
(* The accounts a transaction stands for when a client sends one instead   *)
(* of account keys: decode_and_deserialize (src/solana/solana_rpc.rs),     *)
(* get_from_account_keys and get_from_address_lookup_tables                *)
(* (src/rpc_server.rs).                                                    *)
(*                                                                         *)
(* The client compiled the transaction against the lookup tables of the    *)
(* chain.  By the time the node is asked for them they may have been       *)
(* extended or closed, the node may lag behind the chain, and it may not   *)
(* answer.  Addresses are only ever appended to a table, and a closed one  *)
(* does not come back.                                                     *)
(*                                                                         *)
(* Abstractions: of an encoded text its length and whether it decodes and  *)
(* deserializes; the accounts found are a set.                             *)
(***************************************************************************)
EXTENDS WritableAccounts, SequencesExt, FiniteSetsExt

CONSTANTS
  Key, Table,
  MaxTransactionSize,  \* MAX_TRANSACTION_SIZE, 4096
  Messages,            \* what clients compile
  WireSizes,           \* how many bytes it may take
  MaxAddresses         \* bound: addresses in a table, 256 on the chain

Option(S) == S \cup {None}

(***************************************************************************)
(* lookups is None for the versions that have none.                        *)
(***************************************************************************)
Lookup == [table : Table, writable : SUBSET Nat, readonly : SUBSET Nat]
Message == [roles : Roles(Seq(Key)), lookups : Option(Seq(Lookup))]

Failure ==
  {"encoded too large", "invalid encoding", "decoded too large", "failed to deserialize"}

ASSUME AccountsAssumption ==
  /\ None \notin Failure
  /\ MaxTransactionSize \in Nat \ {0, 1} /\ MaxAddresses \in 0..256
  /\ Messages \subseteq Message /\ WireSizes \subseteq Nat

VARIABLES
  tables,          \* the tables of the chain, None once closed
  phase,           \* where get_accounts is
  sent,            \* the encoded transaction
  error,
  accounts,
  named,           \* history: the addresses looked up, when it was compiled
  named_writable,
  served           \* history: the node gave every address looked up

sent_vars == <<sent, named, named_writable>>
vars == <<tables, phase, error, accounts, served, sent_vars>>

Init ==
  /\ tables = [t \in Table |-> <<>>]
  /\ phase = "idle" /\ sent = None /\ error = None /\ accounts = {}
  /\ named = {} /\ named_writable = {} /\ served = FALSE

-----------------------------------------------------------------------------
(***************************************************************************)
(* The chain.                                                              *)
(***************************************************************************)
Extend(t, k) ==
  /\ tables[t] # None /\ Len(tables[t]) < MaxAddresses
  /\ tables' = [tables EXCEPT ![t] = Append(@, k)]
  /\ UNCHANGED <<phase, error, accounts, served, sent_vars>>

CloseTable(t) ==
  /\ tables[t] # None
  /\ tables' = [tables EXCEPT ![t] = None]
  /\ UNCHANGED <<phase, error, accounts, served, sent_vars>>

Size(t) == IF tables[t] = None THEN 0 ELSE Len(tables[t])

\* The addresses of a table at some indices, from 0.
At(t, indices) == {tables[t][i + 1] : i \in indices}

(***************************************************************************)
(* The client.  Base64 takes 4 characters for 3 bytes, base58 about 1.37   *)
(* for one, and one for each leading zero.                                 *)
(***************************************************************************)
Lookups(m) == IF m.lookups = None THEN {} ELSE Range(m.lookups)
Both(l) == l.writable \cup l.readonly

Groups(bytes) == (bytes + 2) \div 3
Lengths(encoding, wire) ==
  IF encoding = "base64" THEN {Groups(wire) * 4} ELSE wire..((wire * 138) \div 100 + 1)

Send(m, encoding, wire, length, content) ==
  /\ phase = "idle"
  /\ \A l \in Lookups(m) : Both(l) \subseteq 0..(Size(l.table) - 1)
  /\ phase' = "decode"
  /\ sent' = [message |-> m, encoding |-> encoding, wire |-> wire,
              length |-> length, content |-> content]
  /\ named' = UNION {At(l.table, Both(l)) : l \in Lookups(m)}
  /\ named_writable' = UNION {At(l.table, l.writable) : l \in Lookups(m)}
  /\ UNCHANGED <<tables, error, accounts, served>>

-----------------------------------------------------------------------------
(***************************************************************************)
(* decode_and_deserialize.  The size is tested before and after decoding.  *)
(***************************************************************************)
\* MaxEncoded for whole groups of bytes only.
MaxEncodedWhole(encoding) ==
  IF encoding = "base64" THEN (MaxTransactionSize \div 3) * 4 ELSE MaxTransactionSize * 2

MaxEncoded(encoding) ==
  IF encoding = "base64" THEN Groups(MaxTransactionSize) * 4 ELSE MaxTransactionSize * 2

DecodeError(s) ==
  IF s.length > MaxEncoded(s.encoding) THEN "encoded too large"
  ELSE IF s.content = "undecodable" THEN "invalid encoding"
  ELSE IF s.wire > MaxTransactionSize THEN "decoded too large"
  ELSE IF s.content = "garbage" THEN "failed to deserialize" ELSE None

Static(m) == Range(Writable(KeysOf(m.roles), HeaderOf(m.roles)))

(***************************************************************************)
(* Without lookups nothing is fetched.                                     *)
(***************************************************************************)
Decode ==
  /\ phase = "decode"
  /\ error' = DecodeError(sent)
  /\ phase' = IF error' # None \/ sent.message.lookups = None THEN "done" ELSE "fetch"
  /\ accounts' = IF error' = None THEN Static(sent.message) ELSE {}
  /\ UNCHANGED <<tables, served, sent_vars>>

(***************************************************************************)
(* lookup_table_indices is a map: of two lookups of one table the indices  *)
(* of the later one stay.                                                  *)
(***************************************************************************)
Indices(m, t) ==
  Both(m.lookups[Max({i \in DOMAIN m.lookups : m.lookups[i].table = t})])

(***************************************************************************)
(* get_multiple_accounts answers with what the node has: the first seen[t] *)
(* addresses of a table, none of one that is closed or does not parse.  A  *)
(* position is compared as u8.                                             *)
(***************************************************************************)
\* Found with the positions counted from 1.
FoundFromOne(m, t, n) == At(t, {j \in 0..(n - 1) : (j + 1) % 256 \in Indices(m, t)})

Found(m, t, n) == At(t, {j \in 0..(n - 1) : j % 256 \in Indices(m, t)})

Fetch(seen) ==
  /\ phase = "fetch"
  /\ LET m == sent.message
         asked == {l.table : l \in Lookups(m)}
     IN /\ \A t \in Table : seen[t] \in IF t \in asked THEN 0..Size(t) ELSE {0}
        /\ accounts' = accounts \cup UNION {Found(m, t, seen[t]) : t \in asked}
        /\ served' = \A l \in Lookups(m) : \A j \in Both(l) : j < seen[l.table]
  /\ phase' = "done"
  /\ UNCHANGED <<tables, error, sent_vars>>

NodeFails ==
  /\ phase = "fetch"
  /\ phase' = "done"
  /\ UNCHANGED <<tables, error, accounts, served, sent_vars>>

Return ==
  /\ phase = "done"
  /\ phase' = "idle" /\ sent' = None /\ error' = None /\ accounts' = {}
  /\ named' = {} /\ named_writable' = {} /\ served' = FALSE
  /\ UNCHANGED tables

Next ==
  \/ \E t \in Table, k \in Key : Extend(t, k)
  \/ \E t \in Table : CloseTable(t)
  \/ \E m \in Messages, encoding \in {"base58", "base64"}, wire \in WireSizes,
        content \in {"valid", "garbage", "undecodable"} :
       \E length \in Lengths(encoding, wire) : Send(m, encoding, wire, length, content)
  \/ Decode
  \/ \E seen \in [Table -> 0..MaxAddresses] : Fetch(seen)
  \/ NodeFails
  \/ Return

Spec == Init /\ [][Next]_vars

-----------------------------------------------------------------------------
TypeOK ==
  /\ tables \in [Table -> Option(Seq(Key))]
  /\ phase \in {"idle", "decode", "fetch", "done"}
  /\ accounts \subseteq Key
  /\ sent = None <=> phase = "idle"
  /\ error \in Option(Failure)
  /\ error # None => phase = "done" /\ accounts = {}
  /\ served \in BOOLEAN

(***************************************************************************)
(* A text is refused for its size exactly when the transaction in it is    *)
(* larger than the wire allows, whatever the encoding makes of its length  *)
(* (solana_rpc.rs:97-98).                                                  *)
(***************************************************************************)
SizeGate ==
  phase \in {"fetch", "done"} /\ sent.content # "undecodable" =>
    (error \in {"encoded too large", "decoded too large"}
       <=> sent.wire > MaxTransactionSize)

(***************************************************************************)
(* The estimate is for accounts of the transaction only: those it may      *)
(* write itself, and those it looked up when it was compiled, although the *)
(* tables are read later.                                                  *)
(***************************************************************************)
NothingInvented ==
  phase = "done" => accounts \subseteq Static(sent.message) \cup named

(***************************************************************************)
(* The accounts for which the tracker will record the transaction once it  *)
(* is in a block (TransactionSample.tla) are among those its estimate is   *)
(* for, when the node served every address and no table is looked up       *)
(* twice; when the node fails, those of the message itself still are.      *)
(***************************************************************************)
OneLookupPerTable ==
  \A i, j \in DOMAIN sent.message.lookups :
    sent.message.lookups[i].table = sent.message.lookups[j].table => i = j

OwnFeesCounted ==
  phase = "done" /\ error = None =>
    /\ Static(sent.message) \subseteq accounts
    /\ served /\ OneLookupPerTable => named_writable \subseteq accounts

(***************************************************************************)
(* get_from_address_lookup_tables "Returns the accounts asked for"         *)
(* (rpc_server.rs:170-171).                                                *)
(***************************************************************************)
AccountsAskedFor ==
  phase = "done" /\ served => named \subseteq accounts
=============================================================================
