CONSTANTS
  Threads = {t1, t2}
  Instances = {i1, i2}
  Managers = {m1, m2}
  Rates = {r1, r2}
  ClassZones = 2
  ObjectZones = 2
  NoManager = NoManager
  NoInstance = NoInstance
  NoRate = NoRate
SPECIFICATION FairSpec
INVARIANTS OneManager BlocksHaveOwner ClassStorageIsSound TablesAreFilled
PROPERTIES TablesAreStable InitAtTableRate CallsReturn
