--------------------------- MODULE WritableAccounts --------------------------
(***************************************************************************)
(* construct_writable_accounts (src/priority_fee.rs): the accounts of a    *)
(* message that its header lets it write.  The tracker uses it on the      *)
(* transactions of blocks (TransactionSample.tla), the RPC server on the   *)
(* transactions clients send (TransactionAccounts.tla).                    *)
(*                                                                         *)
(* A message lists the accounts that sign before those that do not, and    *)
(* in each part the writable ones first.                                   *)
(***************************************************************************)
EXTENDS Integers, Sequences

CONSTANT None  \* Option::None

MessageHeader ==
  [num_required_signatures : Nat, num_readonly_signed_accounts : Nat,
   num_readonly_unsigned_accounts : Nat]

ASSUME HeaderAssumption == None \notin MessageHeader

SaturatingSub(a, b) == IF a > b THEN a - b ELSE 0

\* Writable that drops as many accounts from the end as are read-only.
WritableFromEnd(accounts, header) ==
  IF header = None THEN accounts
  ELSE LET ro == header.num_readonly_signed_accounts +
                   header.num_readonly_unsigned_accounts
       IN SubSeq(accounts, 1, SaturatingSub(Len(accounts), ro))

(***************************************************************************)
(* The filter keeps two runs of positions.  More read-only accounts than   *)
(* there are accounts make none of them read-only.                         *)
(***************************************************************************)
Writable(accounts, header) ==
  IF header = None THEN accounts
  ELSE LET n == Len(accounts)
           signers == header.num_required_signatures
           writable_signers ==
             SaturatingSub(signers, header.num_readonly_signed_accounts)
           ro == header.num_readonly_unsigned_accounts
           others_end == IF ro > n THEN n ELSE n - ro
       IN SubSeq(accounts, 1, IF writable_signers < n THEN writable_signers ELSE n)
            \o SubSeq(accounts, signers + 1, others_end)

(***************************************************************************)
(* A message as it was compiled: its accounts by what it may do to them.   *)
(***************************************************************************)
Roles(Accounts) ==
  [writable_signers : Accounts, readonly_signers : Accounts,
   writable : Accounts, readonly : Accounts]

KeysOf(roles) == roles.writable_signers \o roles.readonly_signers
                   \o roles.writable \o roles.readonly
HeaderOf(roles) ==
  [num_required_signatures |->
     Len(roles.writable_signers) + Len(roles.readonly_signers),
   num_readonly_signed_accounts |-> Len(roles.readonly_signers),
   num_readonly_unsigned_accounts |-> Len(roles.readonly)]
=============================================================================
