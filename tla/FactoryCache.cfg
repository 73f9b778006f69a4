CONSTANTS
  Threads = {t1, t2}
  Shas = {s1, s2}
  Factories = {f1, f2, f3}
  Instances = {i1, i2}
  NoFactory = NoFactory
  MaxRefs = 2
SPECIFICATION FairSpec
INVARIANTS RefsAreHandles OneOwner HostDisciplineSuffices
PROPERTIES StableWhileHeld RemovedIsDestroyed
