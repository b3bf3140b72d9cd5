----------------------------- MODULE MCDurable ------------------------------
(* The calls for model checking module Durable. *)
EXTENDS Durable, TLC

CONSTANTS k1, k2, w1, w2

Put(k) == [call |-> "Write", keys |-> <<k>>, kind |-> "value"]
Del(k) == [call |-> "Delete", keys |-> <<k>>, kind |-> "tombstone"]
Null(k) == [call |-> "Write", keys |-> <<k>>, kind |-> "nulls"]
Batch(ks) == [call |-> "WriteBatch", keys |-> ks, kind |-> "value"]

\* Each key has one writer.
OwnCalls == [w \in Writers |-> IF w = w1 THEN {Put(k1)} ELSE {Put(k2)}]
\* Rows with a NULL among their values.
NullCalls == [w \in Writers |-> {Put(k1), Null(k1)}]
=============================================================================
