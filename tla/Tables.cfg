CONSTANTS
  t1 = t1
  t2 = t2
  Tables = {t1, t2}
  Clients = {c1, c2}
  Keys = {k1}
  EngineIds = {1, 2}
  Statements <- TwoTables
  Default = Default
  NoEngine = NoEngine
  NoTable = NoTable
  MaxFaults = 1
  MaxRestarts = 1
SYMMETRY ClientSymmetry
VIEW UpToEngineNumbers
SPECIFICATION Spec
INVARIANT TablesTypeOK
INVARIANT EnginesAccounted
INVARIANT NoOrphanEngine
INVARIANT NoForeignRows
INVARIANT LiveTableReady
INVARIANT AckedRowsReachable
