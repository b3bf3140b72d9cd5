CONSTANTS
  t1 = t1
  t2 = t2
  Tables = {t1}
  Clients = {c1}
  Keys = {k1}
  EngineIds = {1, 2}
  Statements <- OneTable
  Default = Default
  NoEngine = NoEngine
  NoTable = NoTable
  MaxFaults = 0
  MaxRestarts = 1
SPECIFICATION Spec
PROPERTY CreatedEmpty
