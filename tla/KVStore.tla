------------------------------ MODULE KVStore -------------------------------
(***************************************************************************)
(* What the storage engine promises its callers while the process lives:   *)
(* a map from keys to the version of the row written last.  A call begins  *)
(* when its versions are allocated, and between that and its return it     *)
(* takes effect once and as a whole, or not at all; nothing else changes   *)
(* the map.                                                                *)
(*                                                                         *)
(* The engine keeps this promise only as long as no flush and compaction   *)
(* cross (see the variable raced of module Engine): from then on the map   *)
(* may be anything.                                                        *)
(***************************************************************************)
EXTENDS Naturals, Sequences

CONSTANTS
  Keys,     \* primary keys
  KeyLists  \* the key sequences of the calls

VARIABLES
  store,  \* per key, the version of its row; 0 when it has none
  last,   \* the last version allocated
  open,   \* the calls that began and have neither taken effect nor failed
  sound   \* the promise stands

Init == /\ store = [k \in Keys |-> 0]
        /\ last = 0
        /\ open = {}
        /\ sound = TRUE

\* Row i of the call has version base + i - 1; a later row of the same key wins.
Begin(keys) ==
  /\ last' = last + Len(keys)
  /\ open' = open \cup {[keys |-> keys, base |-> last + 1]}
  /\ UNCHANGED <<store, sound>>

TakeEffect(c) ==
  /\ open' = open \ {c}
  /\ \A k \in Keys :
       IF \E i \in DOMAIN c.keys : c.keys[i] = k
       THEN \E i \in DOMAIN c.keys :
              /\ c.keys[i] = k /\ \A j \in (i + 1)..Len(c.keys) : c.keys[j] # k
              /\ store'[k] = c.base + i - 1
       ELSE store'[k] = store[k]
  /\ UNCHANGED <<last, sound>>

Fail(c) == /\ open' = open \ {c}
           /\ UNCHANGED <<store, last, sound>>

Forsake == sound' = FALSE

Next == \/ /\ sound
           /\ \/ \E keys \in KeyLists : Begin(keys)
              \/ \E c \in open : TakeEffect(c) \/ Fail(c)
        \/ Forsake

Spec == Init /\ [][Next]_<<store, last, open, sound>>
=============================================================================
