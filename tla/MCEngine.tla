------------------------------ MODULE MCEngine ------------------------------
(* The calls for model checking modules Engine and Durable. *)
EXTENDS EngineRefinement, TLC

CONSTANTS k1, k2, w1, w2

Put(k) == [call |-> "Write", keys |-> <<k>>, kind |-> "value"]
Del(k) == [call |-> "Delete", keys |-> <<k>>, kind |-> "tombstone"]
Batch(ks) == [call |-> "WriteBatch", keys |-> ks, kind |-> "value"]

\* Writers that compete for the same key.
SharedCalls == [w \in Writers |-> {Put(k1), Del(k1), Batch(<<k2, k1>>), Batch(<<k1, k1>>)}]
=============================================================================
