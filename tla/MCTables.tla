------------------------------ MODULE MCTables ------------------------------
(* The statements for model checking module Tables. *)
EXTENDS Tables, TLC

CONSTANTS t1, t2

\* One table sees everything, the other is there to be confused with it.
TwoTables == [t \in Tables |->
                IF t = t1 THEN {"lsm", "memory", "drop", "insert"} ELSE {"lsm", "write"}]
\* One LSM table.
OneTable == [t \in Tables |-> {"lsm", "drop", "insert"}]

ClientSymmetry == Permutations(Clients)

\* States that differ in the numbers of engines only, or in the rows of engines
\* that nothing refers to, are one state: an engine is given by what refers to it.
References(e) == <<{t \in Tables : lsm[t] = e}, {t \in Tables : mem[t] = e},
                   {c \in Clients : session[c].engine = e}>>
UpToEngineNumbers ==
  <<catalog, file, diskVars, faults, restarts, noteVars,
    {<<References(e), engines[e]>> : e \in {d \in EngineIds \cup {Default} : ~Unused(d)}},
    [c \in Clients |-> [session[c] EXCEPT !.engine = NoEngine]]>>
=============================================================================
