CONSTANTS
  Threads = {t1, t2}
  Shas = {s1}
  Factories = {f1, f2}
  Instances = {i1, i2}
  NoFactory = NoFactory
  MaxRefs = 2
SPECIFICATION Spec
INVARIANT InstancesBeforeFactory
