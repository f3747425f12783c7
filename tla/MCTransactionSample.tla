-------------------------- MODULE MCTransactionSample -------------------------
EXTENDS TransactionSample

CONSTANTS k1, k2, k3, budget

Plain == [meta |-> "ok", loaded_writable_addresses |-> <<>>, transaction |-> "message",
          is_vote |-> FALSE,
          roles |-> [writable_signers |-> <<k1>>, readonly_signers |-> <<>>,
                     writable |-> <<>>, readonly |-> <<budget>>],
          has_header |-> TRUE, instructions |-> <<>>, config |-> None]

Ix(i, sets, to) == [program_id_index |-> i, sets |-> sets, to |-> to]
Legacy(price, limit) ==
  [Plain EXCEPT !.instructions = <<Ix(1, "limit", limit), Ix(0, "price", 5), Ix(1, "price", price)>>]
V1(fee, limit) ==
  [Plain EXCEPT !.config = [priority_fee |-> fee, compute_unit_limit |-> limit]]

\* Up to and beyond the limit of 4 and the largest rate, 13.
MCBids ==
  { <<Legacy(p, l), V1(f, m)>> :
      p \in {1, 3, 11}, l \in {2, 6}, f \in {None, 1, 2, 8}, m \in {None, 0, 2, 6} }

With(w, rs, wn, rn, header, meta, loaded) ==
  [Plain EXCEPT !.roles = [writable_signers |-> w, readonly_signers |-> rs,
                           writable |-> wn, readonly |-> rn],
                !.has_header = header, !.meta = meta,
                !.loaded_writable_addresses = loaded]

Instructions(s) == [Plain EXCEPT !.instructions = s]

MCShapes ==
  { With(<<k1>>, <<k2>>, <<k3>>, <<budget>>, TRUE, "ok", <<>>),
    With(<<>>, <<k1>>, <<k2>>, <<>>, TRUE, "ok", <<k3, BadKey>>),
    With(<<k1>>, <<>>, <<k2, k3>>, <<>>, FALSE, "none", <<k3>>),
    With(<<k1>>, <<k2>>, <<>>, <<k3, BadKey>>, TRUE, "ok", <<>>),
    With(<<k1>>, <<>>, <<>>, <<k2>>, TRUE, "failed", <<k3>>),
    [Plain EXCEPT !.transaction = "none", !.meta = "none"],
    [Plain EXCEPT !.transaction = "no_message"],
    Instructions(<<Ix(1, "price", 3), Ix(1, "price", 3)>>),
    Instructions(<<Ix(1, "garbage", 0), Ix(1, "price", 3)>>),
    Instructions(<<Ix(2, "price", 3), Ix(0, "garbage", 0)>>),
    [V1(8, 4) EXCEPT !.instructions = <<Ix(1, "price", 3)>>, !.is_vote = TRUE] }

MCBlocks == MCBids \cup BoundedSeq(MCShapes, 2)
=============================================================================
