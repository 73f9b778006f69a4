CONSTANTS
  Threads = {t1, t2}
  Instances = {i1, i2}
  Managers = {m1}
  Rates = {r1}
  ClassZones = 1
  ObjectZones = 1
  NoManager = NoManager
  NoInstance = NoInstance
  NoRate = NoRate
SPECIFICATION Spec
PROPERTY InitMarksInitialized
