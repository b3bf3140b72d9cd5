-------------------------- MODULE EngineRefinement --------------------------
(***************************************************************************)
(* The engine implements KVStore: memtables, flushes, retries and          *)
(* compactions only move rows, a call is what changes the store.           *)
(***************************************************************************)
EXTENDS Engine

\* The row of k in the newest place that has one, the memtables that a flush
\* holds included.
StoredRow(k) ==
  IF active[k] # NoRow THEN active[k]
  ELSE IF TableHolders(immutable, k) # {} THEN immutable[NewestTable(immutable, k)][k]
  ELSE IF \E f \in Flushers : TableHolders(drained[f], k) # {}
       THEN LET q == drained[CHOOSE f \in Flushers : TableHolders(drained[f], k) # {}]
            IN q[NewestTable(q, k)][k]
  ELSE Merge(segments)[k]

OpenCalls == {[keys |-> pending[w].op.keys, base |-> pending[w].base] :
                w \in {v \in Writers : pending[v] # NoOp}}

Store == INSTANCE KVStore
  WITH store <- [k \in Keys |-> IF StoredRow(k) = NoRow THEN 0 ELSE StoredRow(k).ver],
       last <- nextVersion,
       open <- OpenCalls,
       sound <- ~raced,
       KeyLists <- {op.keys : op \in UNION {Calls[w] : w \in Writers}}

\* A call takes effect once, as a whole and between its beginning and its return;
\* and no other step changes the row of any key: draining, writing, registering,
\* giving back and compacting tables are invisible in the store as a whole.
ImplementsStore == Store!Spec
=============================================================================
