---------------------------- MODULE MCRpcServer ----------------------------
EXTENDS RpcServer, SequencesExt

CONSTANTS k1, k2

\* The bounds themselves and their neighbours.
MCLookbacks == {0, 1, 2, 150, 151}

\* Every combination of options, on one key.
MCOptions ==
  [encoding : {None}, priority_level : Option({"Default", "VeryHigh"}),
   include_all_priority_fee_levels : Option(BOOLEAN),
   lookback_slots : Option(MCLookbacks), include_vote : Option(BOOLEAN),
   recommended : Option(BOOLEAN), evaluate_empty_slot_as_zero : Option(BOOLEAN),
   include_details : Option(BOOLEAN)]

\* Every source of accounts, with each encoding.
MCFewOptions ==
  [encoding : Option({"base58", "base64", "unsupported"}),
   priority_level : Option(Level), include_all_priority_fee_levels : {None},
   lookback_slots : {None, 0}, include_vote : {None},
   recommended : {None}, evaluate_empty_slot_as_zero : {None},
   include_details : {None}]

MCRequests ==
  [transaction : {None}, account_keys : {<<k1>>}, options : Option(MCOptions)]
  \cup
  [transaction : Option({"valid", "garbage"}),
   account_keys : Option(BoundedSeq({k1, k2, BadKey}, 3)),
   options : Option(MCFewOptions)]

\* The accounts of a transaction: none, one, and two with a repeated one.
MCFound == {<<>>, <<k1>>, <<k2, k1, k1>>}

\* Six different levels around the floor of the recommended fee.
MCEstimates ==
  { [l \in Level |-> CASE l = "Min" -> m - 2 [] l = "Low" -> m - 1
                      [] l = "Medium" -> m [] l = "High" -> m + 1
                      [] l = "VeryHigh" -> m + 2 [] l = "UnsafeMax" -> m + 3] :
      m \in 9..11 }
=============================================================================
