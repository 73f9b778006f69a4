------------------------- MODULE Mem0FactoryProofs --------------------------
(* What Mem0Factory guarantees for every number of threads, instances,        *)
(* managers, rates and zones.                                                 *)
(*                                                                            *)
(* The invariant has layers, each inductive with those before it.  Control    *)
(* keeps the calls off one another's instances and class_busy a lock.         *)
(* Ownership needs both: the binding can only change while nothing is         *)
(* allocated, because class storage, or a call that is making it, comes       *)
(* before every other block.  TablesInv, SlotsInv and LiveInv rest on those.  *)
EXTENDS Mem0Factory, FiniteSetTheorems, TLAPS

-----------------------------------------------------------------------------
(* Who is where.                                                              *)

(* What the step of a call tells of the thread's own variables.               *)
Calls ==
    \A t \in Threads :
        /\ pc[t] \in {"idle", "describe", "dropClass"} => self[t] = NoInstance
        /\ self[t] = NoInstance => pc[t] \in {"idle", "describe", "dropClass", "dropInstances"}
        /\ pc[t] \in {"describe", "classAlloc"} => mgr[t] \in Managers
        /\ pc[t] \in {"classInit", "staticInit", "publishRate", "instanceInit"}
              => rate[t] \in Rates
        /\ source[t] # NoInstance => pc[t] \in {"objectAlloc", "register", "objectUndo"}

(* No two calls work on one instance, and a clone's source is left alone.     *)
Apart ==
    /\ \A t, u \in Threads : self[t] = self[u] /\ self[t] # NoInstance => t = u
    /\ \A t, u \in Threads : source[t] # NoInstance => self[u] # source[t]
    /\ \A t \in Threads : source[t] # NoInstance => inst[source[t]].status = "live"

(* How far an instance's call is, told by its status.                         *)
Statuses ==
    \A t \in Threads : self[t] # NoInstance =>
        LET status == inst[self[t]].status IN
        /\ status # "free"
        /\ pc[t] \in {"classAlloc", "classUndo", "copyBinding", "objectAlloc", "register"}
              => status = "fresh"
        /\ pc[t] \in {"dropCount", "dropInstances"} => status = "dying"
        /\ pc[t] = "objectUndo" => status \in {"fresh", "dying"}
        /\ pc[t] \in {"classInit", "staticInit", "publishRate", "instanceInit"} => status = "live"

(* A factory is deleted while every other thread is idle.                     *)
Alone ==
    \A t, u \in Threads : pc[t] \in {"dropInstances", "dropClass"} /\ u # t => pc[u] = "idle"

(* Threads and instances.                                                     *)
Control == TypeOK /\ Calls /\ Apart /\ Statuses /\ Alone /\ ClassIsExclusive

-----------------------------------------------------------------------------
(* Which manager is which.                                                    *)

InClassStorage(t) == pc[t] \in {"classAlloc", "classUndo"}

(* Class storage exists or is being made before anything else is allocated.   *)
ClassFirst ==
    /\ classStorage \/ (\E t \in Threads : InClassStorage(t)) => binding # NoManager
    /\ \A t \in Threads :
          pc[t] \in {"copyBinding", "objectAlloc", "register", "dropCount", "objectUndo"}
              => classStorage
    /\ \A i \in Instances : inst[i].status # "free"
          => classStorage \/ \E t \in Threads : self[t] = i /\ InClassStorage(t)
    /\ \A t \in Threads : pc[t] = "dropClass" => \A i \in Instances : inst[i].status = "free"

(* A call's copy of the binding is the binding.                               *)
CopiesAreFresh ==
    \A t \in Threads :
        pc[t] = "classAlloc" \/ (pc[t] = "objectAlloc" /\ source[t] = NoInstance)
            => mgr[t] = binding

(* An instance that waits for class storage has no block yet.                 *)
NoBlockYet ==
    \A t \in Threads : InClassStorage(t) => \A b \in blocks : b[1] # self[t]

(* Managers and blocks.                                                       *)
Ownership ==
    Control /\ ClassFirst /\ CopiesAreFresh /\ NoBlockYet /\ OneManager /\ BlocksHaveOwner

-----------------------------------------------------------------------------
(* Tables, slots and counts.                                                  *)

(* The rate of the class is the rate its tables were filled for.              *)
TablesInv ==
    /\ \A t \in Threads : pc[t] = "publishRate" => tables = rate[t]
    /\ \A t \in Threads : pc[t] \in {"staticInit", "publishRate"} => classRate = NoRate
    /\ \A t \in Threads : pc[t] = "instanceInit" => classRate = rate[t]
    /\ classRate # NoRate => classRate = tables
    /\ \A i \in Instances : inst[i].initialized => inst[i].status # "free"
    /\ TablesAreFilled

(* The class blocks are stacked, one per table from the first up.             *)
Stacked == ZonesOf(Class) = 1 .. (NextZone(Class) - 1)

(* A slot is set as soon as its block is there, and cleared before the block  *)
(* goes.                                                                      *)
SlotsInv ==
    /\ Stacked
    /\ \A t \in Threads : InClassStorage(t) => ~classStorage
    /\ \A t \in Threads : pc[t] = "classAlloc" =>
          \A k \in 1 .. ClassZones : k < NextZone(Class) => slots[k] # NoManager
    /\ \A t \in Threads : pc[t] \in {"classUndo", "dropClass"} =>
          \A k \in 1 .. ClassZones : slots[k] = NoManager
    /\ SlotsAreBacked

(* The instances that count.                                                  *)
LiveSet == {i \in Instances : Counted(i)}

LiveInv == IsFiniteSet(LiveSet) /\ LiveCount

-----------------------------------------------------------------------------
(* The zones an owner has blocks for.                                         *)
LEMMA ZonesCounted ==
  ASSUME TypeOK, NEW o
  PROVE  /\ IsFiniteSet(ZonesOf(o)) /\ ZonesOf(o) \subseteq Zones
         /\ NextZone(o) \in Nat \ {0}
         /\ NextZone(o) = 1 => \A b \in blocks : b[1] # o
  <1>1. Zones = 1 .. (IF ClassZones > ObjectZones THEN ClassZones ELSE ObjectZones)
    BY DEF Zones
  <1>2. IsFiniteSet(Zones)
    BY <1>1, ZonesAssumption, FS_Interval
  <1>3. ZonesOf(o) \subseteq Zones
    BY DEF ZonesOf, TypeOK
  <1>4. IsFiniteSet(ZonesOf(o)) /\ Cardinality(ZonesOf(o)) \in Nat
    BY <1>2, <1>3, FS_Subset, FS_CardinalityType
  <1>5. NextZone(o) \in Nat \ {0}
    BY <1>4 DEF NextZone
  <1>6. ASSUME NextZone(o) = 1, NEW b \in blocks, b[1] = o PROVE FALSE
    <2>1. ZonesOf(o) = {}
      BY <1>4, <1>6, FS_EmptySet DEF NextZone
    <2>2. b[2] \in ZonesOf(o)
      BY <1>6 DEF ZonesOf
    <2> QED
      BY <2>1, <2>2
  <1> QED
    BY <1>3, <1>4, <1>5, <1>6

(* Every step keeps the calls apart.                                          *)
LEMMA ControlStep ==
  ASSUME Control, [Next]_vars
  PROVE  Control'
  <1> USE DEF Control, TypeOK, Calls, Apart, Statuses, Alone, ClassIsExclusive, InClass, Steps
  <1>1. CASE UNCHANGED vars
    BY <1>1 DEF vars, memoryState
  <1>2. ASSUME NEW t \in Threads, NEW m \in Managers, CheckManager(t, m) PROVE Control'
    BY <1>2, NullAssumption DEF CheckManager, Idle, Deleting, Goto, MayBind, Replaceable,
                                memoryState
  <1>3. ASSUME NEW t \in Threads, DescribeFails(t) PROVE Control'
    BY <1>3, NullAssumption DEF DescribeFails, Goto, memoryState
  <1>4. ASSUME NEW t \in Threads, PublishManager(t) PROVE Control'
    BY <1>4, NullAssumption DEF PublishManager, Goto, MayBind, Replaceable
  <1>5. ASSUME NEW t \in Threads, NEW i \in Instances, CreateWithClass(t, i) PROVE Control'
    BY <1>5, NullAssumption DEF CreateWithClass, Idle, Deleting, Goto, Marked, memoryState
  <1>6. ASSUME NEW t \in Threads, NEW i \in Instances, CreateFirst(t, i) PROVE Control'
    BY <1>6, NullAssumption DEF CreateFirst, Idle, Deleting, Goto, Marked
  <1>7. ASSUME NEW t \in Threads, AllocClass(t) PROVE Control'
    <2>1. NextZone(Class) \in 1 .. ClassZones
      BY <1>7, ZonesCounted, ZonesAssumption DEF AllocClass
    <2>2. NextZone(Class) \in Zones /\ Class \in Owners /\ mgr[t] \in Managers
      BY <1>7, <2>1, ZonesAssumption DEF AllocClass, Zones, Owners
    <2>3. blocks' \subseteq Owners \X Zones \X Managers
      BY <1>7, <2>2 DEF AllocClass
    <2>4. slots' \in [1 .. ClassZones -> Managers \cup {NoManager}]
      BY <1>7, <2>2 DEF AllocClass
    <2> QED
      BY <1>7, <2>3, <2>4 DEF AllocClass, memoryState
  <1>8. ASSUME NEW t \in Threads, AllocClassFails(t) PROVE Control'
    BY <1>8, NullAssumption DEF AllocClassFails, Goto, memoryState
  <1>9. ASSUME NEW t \in Threads, DestroyClass(t) PROVE Control'
    BY <1>9, NullAssumption DEF DestroyClass, memoryState
  <1>10. ASSUME NEW t \in Threads, ClassFailed(t) PROVE Control'
    <2>1. ClassIsExclusive'
      BY <1>10, NullAssumption DEF ClassFailed, Return, Goto, NoInst
    <2>2. TypeOK'
      BY <1>10, NullAssumption DEF ClassFailed, Return, Goto, NoInst
    <2>3. Calls' /\ Apart' /\ Statuses' /\ Alone'
      BY <1>10, NullAssumption DEF ClassFailed, Return, Goto, NoInst
    <2> QED
      BY <2>1, <2>2, <2>3
  <1>11. ASSUME NEW t \in Threads, PublishClass(t) PROVE Control'
    <2>1. ClassIsExclusive'
      BY <1>11, NullAssumption DEF PublishClass, Goto
    <2>2. TypeOK'
      BY <1>11, NullAssumption DEF PublishClass, Goto
    <2>3. Calls' /\ Apart' /\ Statuses' /\ Alone'
      BY <1>11, NullAssumption DEF PublishClass, Goto
    <2> QED
      BY <2>1, <2>2, <2>3
  <1>12. ASSUME NEW t \in Threads, CopyBinding(t) PROVE Control'
    BY <1>12, NullAssumption DEF CopyBinding, Goto, memoryState
  <1>13. ASSUME NEW t \in Threads, NEW i \in Instances, NEW j \in Instances,
               Clone(t, i, j)
        PROVE  Control'
    BY <1>13, NullAssumption DEF Clone, Idle, Deleting, Usable, Goto, Marked, memoryState
  <1>14. ASSUME NEW t \in Threads, AllocObject(t) PROVE Control'
    <2>1. NextZone(self[t]) \in 1 .. ObjectZones
      BY <1>14, ZonesCounted, ZonesAssumption DEF AllocObject
    <2>2. NextZone(self[t]) \in Zones /\ self[t] \in Owners
      BY <1>14, <2>1, ZonesAssumption DEF AllocObject, Zones, Owners
    <2>3. blocks' \subseteq Owners \X Zones \X Managers
      BY <1>14, <2>2 DEF AllocObject
    <2> QED
      BY <1>14, <2>3 DEF AllocObject, memoryState
  <1>15. ASSUME NEW t \in Threads, AllocObjectFails(t) PROVE Control'
    BY <1>15, NullAssumption DEF AllocObjectFails, Goto, memoryState
  <1>16. ASSUME NEW t \in Threads, CountLive(t) PROVE Control'
    BY <1>16, NullAssumption DEF CountLive, Goto
  <1>17. ASSUME NEW t \in Threads, Register(t) PROVE Control'
    BY <1>17, NullAssumption DEF Register, Return, Goto, LiveAt, memoryState
  <1>18. ASSUME NEW t \in Threads, NEW i \in Instances, Delete(t, i) PROVE Control'
    BY <1>18, NullAssumption DEF Delete, Idle, Deleting, Usable, Goto, Marked, memoryState
  <1>19. ASSUME NEW t \in Threads, DropCount(t) PROVE Control'
    BY <1>19, NullAssumption DEF DropCount, Goto
  <1>20. ASSUME NEW t \in Threads, DestroyObject(t) PROVE Control'
    BY <1>20, NullAssumption DEF DestroyObject, memoryState
  <1>21. ASSUME NEW t \in Threads, ObjectGone(t) PROVE Control'
    BY <1>21, NullAssumption DEF ObjectGone, Return, Goto, NoInst, memoryState
  <1>22. ASSUME NEW t \in Threads, NEW i \in Instances, NEW sr \in Rates,
               BeginInit(t, i, sr)
        PROVE  Control'
    BY <1>22, NullAssumption DEF BeginInit, Idle, Deleting, Usable, Goto, memoryState
  <1>23. ASSUME NEW t \in Threads, ClassReady(t) PROVE Control'
    BY <1>23, NullAssumption DEF ClassReady, Goto, memoryState
  <1>24. ASSUME NEW t \in Threads, ClaimClassInit(t) PROVE Control'
    BY <1>24, NullAssumption DEF ClaimClassInit, Goto
  <1>25. ASSUME NEW t \in Threads, ClassRefused(t) PROVE Control'
    BY <1>25, NullAssumption DEF ClassRefused, Return, Goto, memoryState
  <1>26. ASSUME NEW t \in Threads, StaticInit(t) PROVE Control'
    BY <1>26, NullAssumption DEF StaticInit, Goto, memoryState
  <1>27. ASSUME NEW t \in Threads, PublishRate(t) PROVE Control'
    <2>1. ClassIsExclusive'
      BY <1>27, NullAssumption DEF PublishRate, Goto
    <2>2. TypeOK'
      BY <1>27, NullAssumption DEF PublishRate, Goto
    <2>3. Calls' /\ Apart' /\ Statuses' /\ Alone'
      BY <1>27, NullAssumption DEF PublishRate, Goto
    <2> QED
      BY <2>1, <2>2, <2>3
  <1>28. ASSUME NEW t \in Threads, NEW i \in Instances, NEW sr \in Rates,
               Constants(t, i, sr)
        PROVE  Control'
    BY <1>28, NullAssumption DEF Constants, Idle, Deleting, Usable, LiveAt, memoryState
  <1>29. ASSUME NEW t \in Threads, InstanceInit(t) PROVE Control'
    BY <1>29, NullAssumption DEF InstanceInit, Return, Goto, LiveAt, memoryState
  <1>30. ASSUME NEW t \in Threads, BeginDeleteFactory(t) PROVE Control'
    BY <1>30, NullAssumption DEF BeginDeleteFactory, Idle, Deleting, Goto, memoryState
  <1>31. ASSUME NEW t \in Threads, NEW i \in Instances, DropOwned(t, i) PROVE Control'
    <2>1. TypeOK'
      BY <1>31, NullAssumption DEF DropOwned, Marked
    <2>2. Calls' /\ Alone' /\ ClassIsExclusive'
      BY <1>31, NullAssumption DEF DropOwned, Marked
    <2>3. Apart' /\ Statuses'
      BY <1>31, NullAssumption DEF DropOwned, Marked
    <2> QED
      BY <2>1, <2>2, <2>3
  <1>32. ASSUME NEW t \in Threads, OwnedGone(t) PROVE Control'
    BY <1>32, NullAssumption DEF OwnedGone, NoInst, memoryState
  <1>33. ASSUME NEW t \in Threads, DropClass(t) PROVE Control'
    BY <1>33, NullAssumption DEF DropClass, Goto, memoryState
  <1>34. ASSUME NEW t \in Threads, CompileAnew(t) PROVE Control'
    <2>1. ClassIsExclusive'
      BY <1>34, NullAssumption DEF CompileAnew, Goto
    <2>2. TypeOK'
      BY <1>34, NullAssumption DEF CompileAnew, Goto
    <2>3. Calls' /\ Apart' /\ Statuses' /\ Alone'
      BY <1>34, NullAssumption DEF CompileAnew, Goto
    <2> QED
      BY <2>1, <2>2, <2>3
  <1> QED
    BY <1>1, <1>2, <1>3, <1>4, <1>5, <1>6, <1>7, <1>8, <1>9, <1>10, <1>11, <1>12, <1>13, <1>14,
       <1>15, <1>16, <1>17, <1>18, <1>19, <1>20, <1>21, <1>22, <1>23, <1>24, <1>25, <1>26,
       <1>27, <1>28, <1>29, <1>30, <1>31, <1>32, <1>33, <1>34
       DEF Next, Start, Continue, ClassCall, ObjectCall, InitCall, DeleteCall

(* Every step keeps one manager and an owner for each block.                  *)
LEMMA OwnershipStep ==
  ASSUME Ownership, Control', [Next]_vars
  PROVE  Ownership'
  <1> USE DEF Control, TypeOK, Calls, Apart, Statuses, Alone, ClassIsExclusive, InClass,
              InClassStorage, ClassFirst, CopiesAreFresh, NoBlockYet, OneManager,
                  BlocksHaveOwner, Ownership
  <1>1. CASE UNCHANGED vars
    BY <1>1 DEF vars, memoryState
  <1>2. ASSUME NEW t \in Threads, NEW m \in Managers, CheckManager(t, m) PROVE Ownership'
    BY <1>2, NullAssumption, ClassAssumption DEF CheckManager, Idle, Deleting, Goto, MayBind,
                                                 Replaceable, memoryState
  <1>3. ASSUME NEW t \in Threads, DescribeFails(t) PROVE Ownership'
    BY <1>3, NullAssumption, ClassAssumption DEF DescribeFails, Goto, memoryState
  <1>4. ASSUME NEW t \in Threads, PublishManager(t) PROVE Ownership'
    <2>1. CASE binding = NoManager
      <3>1. blocks = {}
        BY <2>1, NullAssumption
      <3> QED
        BY <1>4, <2>1, <3>1 DEF PublishManager, Goto, memoryState
    <2>2. CASE Replaceable
      <3>1. \A u \in Threads : ~InClassStorage(u)
        BY <2>2 DEF Replaceable
      <3>2. blocks = {} /\ ~classStorage
        BY <2>2, <3>1 DEF Replaceable, Owners
      <3>3. \A u \in Threads : mgr[u] \in Managers \/ u # t
        BY <1>4 DEF PublishManager
      <3> QED
        BY <1>4, <3>1, <3>2, <3>3, NullAssumption DEF PublishManager, Goto, memoryState
    <2>3. CASE ~MayBind(mgr[t])
      BY <1>4, <2>3 DEF PublishManager, Goto
    <2> QED
      BY <2>1, <2>2, <2>3 DEF MayBind
  <1>5. ASSUME NEW t \in Threads, NEW i \in Instances, CreateWithClass(t, i) PROVE Ownership'
    BY <1>5, NullAssumption, ClassAssumption DEF CreateWithClass, Idle, Deleting, Goto, Marked,
                                                 memoryState
  <1>6. ASSUME NEW t \in Threads, NEW i \in Instances, CreateFirst(t, i) PROVE Ownership'
    BY <1>6, NullAssumption, ClassAssumption DEF CreateFirst, Idle, Deleting, Goto, Marked
  <1>7. ASSUME NEW t \in Threads, AllocClass(t) PROVE Ownership'
    BY <1>7, NullAssumption, ClassAssumption DEF AllocClass, memoryState
  <1>8. ASSUME NEW t \in Threads, AllocClassFails(t) PROVE Ownership'
    BY <1>8, NullAssumption, ClassAssumption DEF AllocClassFails, Goto, memoryState
  <1>9. ASSUME NEW t \in Threads, DestroyClass(t) PROVE Ownership'
    BY <1>9, NullAssumption, ClassAssumption DEF DestroyClass, memoryState
  <1>10. ASSUME NEW t \in Threads, ClassFailed(t) PROVE Ownership'
    BY <1>10, NullAssumption, ClassAssumption, ZonesCounted DEF ClassFailed, Return, Goto,
                                                                NoInst
  <1>11. ASSUME NEW t \in Threads, PublishClass(t) PROVE Ownership'
    BY <1>11, NullAssumption, ClassAssumption DEF PublishClass, Goto
  <1>12. ASSUME NEW t \in Threads, CopyBinding(t) PROVE Ownership'
    BY <1>12, NullAssumption, ClassAssumption DEF CopyBinding, Goto, memoryState
  <1>13. ASSUME NEW t \in Threads, NEW i \in Instances, NEW j \in Instances,
               Clone(t, i, j)
        PROVE  Ownership'
    BY <1>13, NullAssumption, ClassAssumption DEF Clone, Idle, Deleting, Usable, Goto, Marked,
                                                  memoryState
  <1>14. ASSUME NEW t \in Threads, AllocObject(t) PROVE Ownership'
    BY <1>14, NullAssumption, ClassAssumption DEF AllocObject, AllocatesWith, memoryState
  <1>15. ASSUME NEW t \in Threads, AllocObjectFails(t) PROVE Ownership'
    BY <1>15, NullAssumption, ClassAssumption DEF AllocObjectFails, Goto, memoryState
  <1>16. ASSUME NEW t \in Threads, CountLive(t) PROVE Ownership'
    BY <1>16, NullAssumption, ClassAssumption DEF CountLive, Goto
  <1>17. ASSUME NEW t \in Threads, Register(t) PROVE Ownership'
    BY <1>17, NullAssumption, ClassAssumption DEF Register, Return, Goto, LiveAt, memoryState
  <1>18. ASSUME NEW t \in Threads, NEW i \in Instances, Delete(t, i) PROVE Ownership'
    BY <1>18, NullAssumption, ClassAssumption DEF Delete, Idle, Deleting, Usable, Goto, Marked,
                                                  memoryState
  <1>19. ASSUME NEW t \in Threads, DropCount(t) PROVE Ownership'
    BY <1>19, NullAssumption, ClassAssumption DEF DropCount, Goto
  <1>20. ASSUME NEW t \in Threads, DestroyObject(t) PROVE Ownership'
    BY <1>20, NullAssumption, ClassAssumption DEF DestroyObject, memoryState
  <1>21. ASSUME NEW t \in Threads, ObjectGone(t) PROVE Ownership'
    BY <1>21, NullAssumption, ClassAssumption, ZonesCounted DEF ObjectGone, Return, Goto,
                                                                NoInst, memoryState
  <1>22. ASSUME NEW t \in Threads, NEW i \in Instances, NEW sr \in Rates,
               BeginInit(t, i, sr)
        PROVE  Ownership'
    BY <1>22, NullAssumption, ClassAssumption DEF BeginInit, Idle, Deleting, Usable, Goto,
                                                  memoryState
  <1>23. ASSUME NEW t \in Threads, ClassReady(t) PROVE Ownership'
    BY <1>23, NullAssumption, ClassAssumption DEF ClassReady, Goto, memoryState
  <1>24. ASSUME NEW t \in Threads, ClaimClassInit(t) PROVE Ownership'
    BY <1>24, NullAssumption, ClassAssumption DEF ClaimClassInit, Goto
  <1>25. ASSUME NEW t \in Threads, ClassRefused(t) PROVE Ownership'
    BY <1>25, NullAssumption, ClassAssumption DEF ClassRefused, Return, Goto, memoryState
  <1>26. ASSUME NEW t \in Threads, StaticInit(t) PROVE Ownership'
    BY <1>26, NullAssumption, ClassAssumption DEF StaticInit, Goto, memoryState
  <1>27. ASSUME NEW t \in Threads, PublishRate(t) PROVE Ownership'
    BY <1>27, NullAssumption, ClassAssumption DEF PublishRate, Goto
  <1>28. ASSUME NEW t \in Threads, NEW i \in Instances, NEW sr \in Rates,
               Constants(t, i, sr)
        PROVE  Ownership'
    BY <1>28, NullAssumption, ClassAssumption DEF Constants, Idle, Deleting, Usable, LiveAt,
                                                  memoryState
  <1>29. ASSUME NEW t \in Threads, InstanceInit(t) PROVE Ownership'
    BY <1>29, NullAssumption, ClassAssumption DEF InstanceInit, Return, Goto, LiveAt,
                                                  memoryState
  <1>30. ASSUME NEW t \in Threads, BeginDeleteFactory(t) PROVE Ownership'
    BY <1>30, NullAssumption, ClassAssumption DEF BeginDeleteFactory, Idle, Deleting, Goto,
                                                  memoryState
  <1>31. ASSUME NEW t \in Threads, NEW i \in Instances, DropOwned(t, i) PROVE Ownership'
    BY <1>31, NullAssumption, ClassAssumption DEF DropOwned, Marked
  <1>32. ASSUME NEW t \in Threads, OwnedGone(t) PROVE Ownership'
    BY <1>32, NullAssumption, ClassAssumption, ZonesCounted DEF OwnedGone, NoInst, memoryState
  <1>33. ASSUME NEW t \in Threads, DropClass(t) PROVE Ownership'
    BY <1>33, NullAssumption, ClassAssumption DEF DropClass, Goto, memoryState
  <1>34. ASSUME NEW t \in Threads, CompileAnew(t) PROVE Ownership'
    <2>1. \A b \in blocks : b[1] # Class
      BY <1>34, ZonesCounted DEF CompileAnew
    <2>2. blocks = {}
      BY <1>34, <2>1 DEF CompileAnew, Owners
    <2> QED
      BY <1>34, <2>2 DEF CompileAnew, Goto
  <1> QED
    BY <1>1, <1>2, <1>3, <1>4, <1>5, <1>6, <1>7, <1>8, <1>9, <1>10, <1>11, <1>12, <1>13, <1>14,
       <1>15, <1>16, <1>17, <1>18, <1>19, <1>20, <1>21, <1>22, <1>23, <1>24, <1>25, <1>26,
       <1>27, <1>28, <1>29, <1>30, <1>31, <1>32, <1>33, <1>34
       DEF Next, Start, Continue, ClassCall, ObjectCall, InitCall, DeleteCall

(* An owner without a block has none counted.                                 *)
LEMMA NoZones ==
  ASSUME NEW o, \A b \in blocks : b[1] # o
  PROVE  ZonesOf(o) = {} /\ NextZone(o) = 1
  <1>1. ZonesOf(o) = {}
    BY DEF ZonesOf
  <1> QED
    BY <1>1, FS_EmptySet DEF NextZone

(* The class zones depend on the class blocks alone.                          *)
LEMMA ClassZonesKept ==
  ASSUME {b \in blocks : b[1] = Class}' = {b \in blocks : b[1] = Class}
  PROVE  ZonesOf(Class)' = ZonesOf(Class) /\ NextZone(Class)' = NextZone(Class)
  <1>1. ZonesOf(Class)' = ZonesOf(Class)
    BY DEF ZonesOf
  <1> QED
    BY <1>1 DEF NextZone

(* One more class block.                                                      *)
LEMMA ClassZoneAdded ==
  ASSUME NEW m, IsFiniteSet(ZonesOf(Class)), NextZone(Class) \notin ZonesOf(Class),
         blocks' = blocks \cup {<<Class, NextZone(Class), m>>}
  PROVE  /\ ZonesOf(Class)' = ZonesOf(Class) \cup {NextZone(Class)}
         /\ NextZone(Class)' = NextZone(Class) + 1
  <1> DEFINE k == NextZone(Class)
             b == <<Class, k, m>>
  <1>1. blocks' = blocks \cup {b} /\ b[1] = Class /\ b[2] = k
    OBVIOUS
  <1>2. ZonesOf(Class)' = ZonesOf(Class) \cup {k}
    <2> HIDE DEF b, k
    <2> QED
      BY <1>1 DEF ZonesOf
  <1>3. Cardinality(ZonesOf(Class) \cup {k}) = Cardinality(ZonesOf(Class)) + 1
    BY FS_AddElement
  <1> QED
    BY <1>2, <1>3 DEF NextZone

(* One class block less, the only one of its zone.                            *)
LEMMA ClassZoneRemoved ==
  ASSUME NEW b \in blocks, b[1] = Class, blocks' = blocks \ {b}, IsFiniteSet(ZonesOf(Class)),
         \A c \in blocks : c[1] = Class /\ c[2] = b[2] => c = b
  PROVE  /\ ZonesOf(Class)' = ZonesOf(Class) \ {b[2]}
         /\ NextZone(Class)' = NextZone(Class) - 1
  <1>1. b[2] \in ZonesOf(Class)
    BY DEF ZonesOf
  <1>2. \A z : z \in ZonesOf(Class)' <=> \E c \in blocks : c # b /\ c[1] = Class /\ c[2] = z
    BY DEF ZonesOf
  <1>3. \A z : z \in ZonesOf(Class) <=> \E c \in blocks : c[1] = Class /\ c[2] = z
    BY DEF ZonesOf
  <1>4. ZonesOf(Class)' = ZonesOf(Class) \ {b[2]}
    BY <1>2, <1>3
  <1>5. /\ Cardinality(ZonesOf(Class)) \in Nat
        /\ Cardinality(ZonesOf(Class) \ {b[2]}) = Cardinality(ZonesOf(Class)) - 1
    BY <1>1, FS_CardinalityType, FS_RemoveElement
  <1> QED
    BY <1>4, <1>5 DEF NextZone

(* Every step keeps the class tables and the rates in agreement.              *)
LEMMA TablesStep ==
  ASSUME Ownership, TablesInv, [Next]_vars
  PROVE  TablesInv'
  <1> USE DEF Control, TypeOK, Calls, Apart, Statuses, Alone, ClassIsExclusive, InClass,
              Ownership, ClassFirst, TablesInv, TablesAreFilled
  <1>1. CASE UNCHANGED vars
    BY <1>1 DEF vars, memoryState
  <1>2. ASSUME NEW t \in Threads, NEW m \in Managers, CheckManager(t, m) PROVE TablesInv'
    BY <1>2, NullAssumption DEF CheckManager, Idle, Deleting, Goto, MayBind, Replaceable,
                                memoryState
  <1>3. ASSUME NEW t \in Threads, DescribeFails(t) PROVE TablesInv'
    BY <1>3, NullAssumption DEF DescribeFails, Goto, memoryState
  <1>4. ASSUME NEW t \in Threads, PublishManager(t) PROVE TablesInv'
    BY <1>4, NullAssumption DEF PublishManager, Goto, MayBind, Replaceable
  <1>5. ASSUME NEW t \in Threads, NEW i \in Instances, CreateWithClass(t, i) PROVE TablesInv'
    BY <1>5, NullAssumption DEF CreateWithClass, Idle, Deleting, Goto, Marked, memoryState
  <1>6. ASSUME NEW t \in Threads, NEW i \in Instances, CreateFirst(t, i) PROVE TablesInv'
    BY <1>6, NullAssumption DEF CreateFirst, Idle, Deleting, Goto, Marked
  <1>7. ASSUME NEW t \in Threads, AllocClass(t) PROVE TablesInv'
    BY <1>7, NullAssumption DEF AllocClass, memoryState
  <1>8. ASSUME NEW t \in Threads, AllocClassFails(t) PROVE TablesInv'
    BY <1>8, NullAssumption DEF AllocClassFails, Goto, memoryState
  <1>9. ASSUME NEW t \in Threads, DestroyClass(t) PROVE TablesInv'
    BY <1>9, NullAssumption DEF DestroyClass, memoryState
  <1>10. ASSUME NEW t \in Threads, ClassFailed(t) PROVE TablesInv'
    BY <1>10, NullAssumption DEF ClassFailed, Return, Goto, NoInst
  <1>11. ASSUME NEW t \in Threads, PublishClass(t) PROVE TablesInv'
    BY <1>11, NullAssumption DEF PublishClass, Goto
  <1>12. ASSUME NEW t \in Threads, CopyBinding(t) PROVE TablesInv'
    BY <1>12, NullAssumption DEF CopyBinding, Goto, memoryState
  <1>13. ASSUME NEW t \in Threads, NEW i \in Instances, NEW j \in Instances,
               Clone(t, i, j)
        PROVE  TablesInv'
    BY <1>13, NullAssumption DEF Clone, Idle, Deleting, Usable, Goto, Marked, memoryState
  <1>14. ASSUME NEW t \in Threads, AllocObject(t) PROVE TablesInv'
    BY <1>14, NullAssumption DEF AllocObject, AllocatesWith, memoryState
  <1>15. ASSUME NEW t \in Threads, AllocObjectFails(t) PROVE TablesInv'
    BY <1>15, NullAssumption DEF AllocObjectFails, Goto, memoryState
  <1>16. ASSUME NEW t \in Threads, CountLive(t) PROVE TablesInv'
    BY <1>16, NullAssumption DEF CountLive, Goto
  <1>17. ASSUME NEW t \in Threads, Register(t) PROVE TablesInv'
    BY <1>17, NullAssumption DEF Register, Return, Goto, LiveAt, memoryState
  <1>18. ASSUME NEW t \in Threads, NEW i \in Instances, Delete(t, i) PROVE TablesInv'
    BY <1>18, NullAssumption DEF Delete, Idle, Deleting, Usable, Goto, Marked, memoryState
  <1>19. ASSUME NEW t \in Threads, DropCount(t) PROVE TablesInv'
    BY <1>19, NullAssumption DEF DropCount, Goto
  <1>20. ASSUME NEW t \in Threads, DestroyObject(t) PROVE TablesInv'
    BY <1>20, NullAssumption DEF DestroyObject, memoryState
  <1>21. ASSUME NEW t \in Threads, ObjectGone(t) PROVE TablesInv'
    BY <1>21, NullAssumption DEF ObjectGone, Return, Goto, NoInst, memoryState
  <1>22. ASSUME NEW t \in Threads, NEW i \in Instances, NEW sr \in Rates,
               BeginInit(t, i, sr)
        PROVE  TablesInv'
    BY <1>22, NullAssumption DEF BeginInit, Idle, Deleting, Usable, Goto, memoryState
  <1>23. ASSUME NEW t \in Threads, ClassReady(t) PROVE TablesInv'
    BY <1>23, NullAssumption DEF ClassReady, Goto, memoryState
  <1>24. ASSUME NEW t \in Threads, ClaimClassInit(t) PROVE TablesInv'
    BY <1>24, NullAssumption DEF ClaimClassInit, Goto
  <1>25. ASSUME NEW t \in Threads, ClassRefused(t) PROVE TablesInv'
    BY <1>25, NullAssumption DEF ClassRefused, Return, Goto, memoryState
  <1>26. ASSUME NEW t \in Threads, StaticInit(t) PROVE TablesInv'
    BY <1>26, NullAssumption DEF StaticInit, Goto, memoryState
  <1>27. ASSUME NEW t \in Threads, PublishRate(t) PROVE TablesInv'
    BY <1>27, NullAssumption DEF PublishRate, Goto
  <1>28. ASSUME NEW t \in Threads, NEW i \in Instances, NEW sr \in Rates,
               Constants(t, i, sr)
        PROVE  TablesInv'
    BY <1>28, NullAssumption DEF Constants, Idle, Deleting, Usable, LiveAt, memoryState
  <1>29. ASSUME NEW t \in Threads, InstanceInit(t) PROVE TablesInv'
    BY <1>29, NullAssumption DEF InstanceInit, Return, Goto, LiveAt, memoryState
  <1>30. ASSUME NEW t \in Threads, BeginDeleteFactory(t) PROVE TablesInv'
    BY <1>30, NullAssumption DEF BeginDeleteFactory, Idle, Deleting, Goto, memoryState
  <1>31. ASSUME NEW t \in Threads, NEW i \in Instances, DropOwned(t, i) PROVE TablesInv'
    BY <1>31, NullAssumption DEF DropOwned, Marked
  <1>32. ASSUME NEW t \in Threads, OwnedGone(t) PROVE TablesInv'
    BY <1>32, NullAssumption DEF OwnedGone, NoInst, memoryState
  <1>33. ASSUME NEW t \in Threads, DropClass(t) PROVE TablesInv'
    BY <1>33, NullAssumption DEF DropClass, Goto, memoryState
  <1>34. ASSUME NEW t \in Threads, CompileAnew(t) PROVE TablesInv'
    BY <1>34, NullAssumption DEF CompileAnew, Goto
  <1> QED
    BY <1>1, <1>2, <1>3, <1>4, <1>5, <1>6, <1>7, <1>8, <1>9, <1>10, <1>11, <1>12, <1>13, <1>14,
       <1>15, <1>16, <1>17, <1>18, <1>19, <1>20, <1>21, <1>22, <1>23, <1>24, <1>25, <1>26,
       <1>27, <1>28, <1>29, <1>30, <1>31, <1>32, <1>33, <1>34
       DEF Next, Start, Continue, ClassCall, ObjectCall, InitCall, DeleteCall

(* Every step keeps the slots backed.                                         *)
LEMMA SlotsStep ==
  ASSUME Ownership, SlotsInv, Ownership', [Next]_vars
  PROVE  SlotsInv'
  <1> USE DEF Ownership, Control, TypeOK, Calls, Apart, Statuses, Alone, ClassIsExclusive,
              InClass, InClassStorage, ClassFirst, SlotsInv, SlotsAreBacked, Stacked
  <1>1. CASE UNCHANGED vars
    BY <1>1, ClassZonesKept DEF vars, memoryState
  <1>2. ASSUME NEW t \in Threads, NEW m \in Managers, CheckManager(t, m) PROVE SlotsInv'
    BY <1>2, ClassZonesKept, NullAssumption DEF CheckManager, Idle, Deleting, Goto, MayBind,
                                                Replaceable, memoryState
  <1>3. ASSUME NEW t \in Threads, DescribeFails(t) PROVE SlotsInv'
    BY <1>3, ClassZonesKept, NullAssumption DEF DescribeFails, Goto, memoryState
  <1>4. ASSUME NEW t \in Threads, PublishManager(t) PROVE SlotsInv'
    BY <1>4, ClassZonesKept, NullAssumption DEF PublishManager, Goto, MayBind, Replaceable
  <1>5. ASSUME NEW t \in Threads, NEW i \in Instances, CreateWithClass(t, i) PROVE SlotsInv'
    <2>1. UNCHANGED <<blocks, slots, classStorage>>
      BY <1>5 DEF CreateWithClass, memoryState
    <2>2. \A u \in Threads : \/ pc'[u] = pc[u]
                             \/ pc[u] = "idle" /\ pc'[u] = "copyBinding"
      BY <1>5 DEF CreateWithClass, Idle, Goto
    <2> QED
      BY <2>1, <2>2, ClassZonesKept
  <1>6. ASSUME NEW t \in Threads, NEW i \in Instances, CreateFirst(t, i) PROVE SlotsInv'
    <2>1. \A b \in blocks : b[1] # Class
      BY <1>6 DEF CreateFirst, BlocksHaveOwner, Owners
    <2>2. NextZone(Class) = 1 /\ NextZone(Class)' = 1
      BY <1>6, <2>1, NoZones, ClassZonesKept DEF CreateFirst
    <2> QED
      BY <1>6, <2>1, <2>2, ClassZonesKept, NullAssumption
         DEF CreateFirst, Goto
  <1>7. ASSUME NEW t \in Threads, AllocClass(t) PROVE SlotsInv'
    <2> DEFINE k == NextZone(Class)
    <2>1. k \in 1 .. ClassZones /\ ZonesOf(Class) = 1 .. (k - 1)
      BY <1>7, ZonesCounted, ZonesAssumption DEF AllocClass
    <2>2. ZonesOf(Class)' = ZonesOf(Class) \cup {k} /\ NextZone(Class)' = k + 1
      <3>1. IsFiniteSet(ZonesOf(Class)) /\ k \notin ZonesOf(Class)
        BY <2>1, ZonesCounted
      <3>2. blocks' = blocks \cup {<<Class, NextZone(Class), mgr[t]>>}
        BY <1>7 DEF AllocClass
      <3> QED
        BY <3>1, <3>2, ClassZoneAdded
    <2>4. Stacked'
      BY <2>1, <2>2
    <2>5. mgr[t] # NoManager /\ slots' = [slots EXCEPT ![k] = mgr[t]]
      BY <1>7, NullAssumption DEF AllocClass
    <2>6. \A l \in 1 .. ClassZones : slots'[l] # NoManager => <<Class, l, slots'[l]>> \in blocks'
      BY <1>7, <2>1, <2>5 DEF AllocClass
    <2>7. \A l \in 1 .. ClassZones : l < k + 1 => slots'[l] # NoManager
      BY <1>7, <2>1, <2>5 DEF AllocClass
    <2> QED
      BY <1>7, <2>2, <2>4, <2>6, <2>7 DEF AllocClass, memoryState
  <1>8. ASSUME NEW t \in Threads, AllocClassFails(t) PROVE SlotsInv'
    BY <1>8, ClassZonesKept, NullAssumption DEF AllocClassFails, Goto, memoryState
  <1>9. ASSUME NEW t \in Threads, DestroyClass(t) PROVE SlotsInv'
    <2> DEFINE k == NextZone(Class)
    <2>1. PICK b \in blocks : b[1] = Class /\ b[2] + 1 = k /\ blocks' = blocks \ {b}
      BY <1>9 DEF DestroyClass
    <2>2. \A c \in blocks : c[1] = Class /\ c[2] = b[2] => c = b
      BY <2>1 DEF OneManager
    <2>3. IsFiniteSet(ZonesOf(Class))
      BY ZonesCounted
    <2>4. /\ ZonesOf(Class)' = ZonesOf(Class) \ {b[2]}
          /\ NextZone(Class)' = k - 1
      BY <2>1, <2>2, <2>3, ClassZoneRemoved
    <2>5. k \in Nat /\ b[2] = k - 1
      BY <2>1, ZonesCounted DEF Zones
    <2>6. Stacked'
      BY <2>4, <2>5
    <2>7. \A l \in 1 .. ClassZones : slots'[l] = NoManager
      BY <1>9 DEF DestroyClass
    <2>8. UNCHANGED <<classStorage, pc, slots>>
      BY <1>9 DEF DestroyClass, memoryState
    <2> QED
      BY <1>9, <2>6, <2>7, <2>8 DEF DestroyClass
  <1>10. ASSUME NEW t \in Threads, ClassFailed(t) PROVE SlotsInv'
    BY <1>10, ClassZonesKept, NullAssumption DEF ClassFailed, Return, Goto, NoInst
  <1>11. ASSUME NEW t \in Threads, PublishClass(t) PROVE SlotsInv'
    <2>1. NextZone(Class) > ClassZones /\ NextZone(Class) \in Nat
      BY <1>11, ZonesCounted DEF PublishClass
    <2> QED
      BY <1>11, <2>1, ClassZonesKept, ZonesAssumption DEF PublishClass, Goto
  <1>12. ASSUME NEW t \in Threads, CopyBinding(t) PROVE SlotsInv'
    BY <1>12, ClassZonesKept, NullAssumption DEF CopyBinding, Goto, memoryState
  <1>13. ASSUME NEW t \in Threads, NEW i \in Instances, NEW j \in Instances,
               Clone(t, i, j)
        PROVE  SlotsInv'
    BY <1>13, ClassZonesKept, NullAssumption DEF Clone, Idle, Deleting, Usable, Goto, Marked,
                                                 memoryState
  <1>14. ASSUME NEW t \in Threads, AllocObject(t) PROVE SlotsInv'
    <2>1. {b \in blocks : b[1] = Class}' = {b \in blocks : b[1] = Class}
      BY <1>14, ClassAssumption DEF AllocObject
    <2> QED
      BY <1>14, <2>1, ClassZonesKept DEF AllocObject, memoryState
  <1>15. ASSUME NEW t \in Threads, AllocObjectFails(t) PROVE SlotsInv'
    BY <1>15, ClassZonesKept, NullAssumption DEF AllocObjectFails, Goto, memoryState
  <1>16. ASSUME NEW t \in Threads, CountLive(t) PROVE SlotsInv'
    BY <1>16, ClassZonesKept, NullAssumption DEF CountLive, Goto
  <1>17. ASSUME NEW t \in Threads, Register(t) PROVE SlotsInv'
    BY <1>17, ClassZonesKept, NullAssumption DEF Register, Return, Goto, LiveAt, memoryState
  <1>18. ASSUME NEW t \in Threads, NEW i \in Instances, Delete(t, i) PROVE SlotsInv'
    BY <1>18, ClassZonesKept, NullAssumption DEF Delete, Idle, Deleting, Usable, Goto, Marked,
                                                 memoryState
  <1>19. ASSUME NEW t \in Threads, DropCount(t) PROVE SlotsInv'
    BY <1>19, ClassZonesKept, NullAssumption DEF DropCount, Goto
  <1>20. ASSUME NEW t \in Threads, DestroyObject(t) PROVE SlotsInv'
    <2>1. PICK c \in blocks : c[1] # Class /\ blocks' = blocks \ {c}
      BY <1>20, ClassAssumption DEF DestroyObject
    <2>2. {b \in blocks : b[1] = Class}' = {b \in blocks : b[1] = Class}
      BY <2>1
    <2> QED
      BY <1>20, <2>2, ClassZonesKept DEF DestroyObject, memoryState
  <1>21. ASSUME NEW t \in Threads, ObjectGone(t) PROVE SlotsInv'
    BY <1>21, ClassZonesKept, NullAssumption DEF ObjectGone, Return, Goto, NoInst, memoryState
  <1>22. ASSUME NEW t \in Threads, NEW i \in Instances, NEW sr \in Rates,
               BeginInit(t, i, sr)
        PROVE  SlotsInv'
    BY <1>22, ClassZonesKept, NullAssumption DEF BeginInit, Idle, Deleting, Usable, Goto,
                                                 memoryState
  <1>23. ASSUME NEW t \in Threads, ClassReady(t) PROVE SlotsInv'
    BY <1>23, ClassZonesKept, NullAssumption DEF ClassReady, Goto, memoryState
  <1>24. ASSUME NEW t \in Threads, ClaimClassInit(t) PROVE SlotsInv'
    BY <1>24, ClassZonesKept, NullAssumption DEF ClaimClassInit, Goto
  <1>25. ASSUME NEW t \in Threads, ClassRefused(t) PROVE SlotsInv'
    BY <1>25, ClassZonesKept, NullAssumption DEF ClassRefused, Return, Goto, memoryState
  <1>26. ASSUME NEW t \in Threads, StaticInit(t) PROVE SlotsInv'
    BY <1>26, ClassZonesKept, NullAssumption DEF StaticInit, Goto, memoryState
  <1>27. ASSUME NEW t \in Threads, PublishRate(t) PROVE SlotsInv'
    BY <1>27, ClassZonesKept, NullAssumption DEF PublishRate, Goto
  <1>28. ASSUME NEW t \in Threads, NEW i \in Instances, NEW sr \in Rates,
               Constants(t, i, sr)
        PROVE  SlotsInv'
    BY <1>28, ClassZonesKept, NullAssumption DEF Constants, Idle, Deleting, Usable, LiveAt,
                                                 memoryState
  <1>29. ASSUME NEW t \in Threads, InstanceInit(t) PROVE SlotsInv'
    BY <1>29, ClassZonesKept, NullAssumption DEF InstanceInit, Return, Goto, LiveAt,
                                                 memoryState
  <1>30. ASSUME NEW t \in Threads, BeginDeleteFactory(t) PROVE SlotsInv'
    BY <1>30, ClassZonesKept, NullAssumption DEF BeginDeleteFactory, Idle, Deleting, Goto,
                                                 memoryState
  <1>31. ASSUME NEW t \in Threads, NEW i \in Instances, DropOwned(t, i) PROVE SlotsInv'
    BY <1>31, ClassZonesKept, NullAssumption DEF DropOwned, Marked
  <1>32. ASSUME NEW t \in Threads, OwnedGone(t) PROVE SlotsInv'
    BY <1>32, ClassZonesKept, NullAssumption DEF OwnedGone, NoInst, memoryState
  <1>33. ASSUME NEW t \in Threads, DropClass(t) PROVE SlotsInv'
    BY <1>33, ClassZonesKept, NullAssumption DEF DropClass, Goto, memoryState
  <1>34. ASSUME NEW t \in Threads, CompileAnew(t) PROVE SlotsInv'
    BY <1>34, ClassZonesKept, NullAssumption DEF CompileAnew, Goto
  <1> QED
    BY <1>1, <1>2, <1>3, <1>4, <1>5, <1>6, <1>7, <1>8, <1>9, <1>10, <1>11, <1>12, <1>13, <1>14,
       <1>15, <1>16, <1>17, <1>18, <1>19, <1>20, <1>21, <1>22, <1>23, <1>24, <1>25, <1>26,
       <1>27, <1>28, <1>29, <1>30, <1>31, <1>32, <1>33, <1>34
       DEF Next, Start, Continue, ClassCall, ObjectCall, InitCall, DeleteCall

(* The instances that count stay the same.                                    *)
LEMMA SameLive ==
  ASSUME LiveInv, \A i \in Instances : Counted(i)' <=> Counted(i), liveInstances' = liveInstances
  PROVE  LiveInv'
  <1>1. LiveSet' = LiveSet
    BY DEF LiveSet
  <1> QED
    BY <1>1 DEF LiveInv, LiveCount, LiveSet

(* One instance more counts.                                                  *)
LEMMA OneMoreLive ==
  ASSUME LiveInv, NEW i \in Instances, ~Counted(i), Counted(i)',
         \A j \in Instances \ {i} : Counted(j)' <=> Counted(j), liveInstances' = liveInstances + 1
  PROVE  LiveInv'
  <1>1. LiveSet' = LiveSet \cup {i} /\ i \notin LiveSet
    BY DEF LiveSet
  <1>2. IsFiniteSet(LiveSet) /\ liveInstances = Cardinality(LiveSet)
    BY DEF LiveInv, LiveCount, LiveSet
  <1>3. IsFiniteSet(LiveSet') /\ liveInstances' = Cardinality(LiveSet')
    BY <1>1, <1>2, FS_AddElement
  <1> QED
    BY <1>3 DEF LiveInv, LiveCount, LiveSet

(* One instance less counts, and the subtraction does not saturate.           *)
LEMMA OneLessLive ==
  ASSUME LiveInv, NEW i \in Instances, Counted(i), ~Counted(i)',
         \A j \in Instances \ {i} : Counted(j)' <=> Counted(j),
         liveInstances' = IF liveInstances = 0 THEN 0 ELSE liveInstances - 1
  PROVE  LiveInv'
  <1>1. LiveSet' = LiveSet \ {i} /\ i \in LiveSet
    BY DEF LiveSet
  <1>2. IsFiniteSet(LiveSet) /\ liveInstances = Cardinality(LiveSet)
    BY DEF LiveInv, LiveCount, LiveSet
  <1>3. Cardinality(LiveSet) # 0
    BY <1>1, <1>2, FS_EmptySet
  <1>4. IsFiniteSet(LiveSet') /\ liveInstances' = Cardinality(LiveSet')
    BY <1>1, <1>2, <1>3, FS_RemoveElement
  <1> QED
    BY <1>4 DEF LiveInv, LiveCount, LiveSet

(* Every step keeps the count.                                                *)
LEMMA LiveStep ==
  ASSUME Ownership, LiveInv, [Next]_vars
  PROVE  LiveInv'
  <1> USE DEF Ownership, Control, TypeOK, Calls, Apart, Statuses, Alone, ClassFirst, Counted
  <1>1. CASE UNCHANGED vars
    BY <1>1, SameLive DEF vars, memoryState
  <1>2. ASSUME NEW t \in Threads, NEW m \in Managers, CheckManager(t, m) PROVE LiveInv'
    BY <1>2, SameLive, NullAssumption DEF CheckManager, Idle, Deleting, Goto, MayBind,
       Replaceable, memoryState
  <1>3. ASSUME NEW t \in Threads, DescribeFails(t) PROVE LiveInv'
    BY <1>3, SameLive, NullAssumption DEF DescribeFails, Goto, memoryState
  <1>4. ASSUME NEW t \in Threads, PublishManager(t) PROVE LiveInv'
    BY <1>4, SameLive, NullAssumption DEF PublishManager, Goto, MayBind, Replaceable
  <1>5. ASSUME NEW t \in Threads, NEW i \in Instances, CreateWithClass(t, i) PROVE LiveInv'
    BY <1>5, SameLive, NullAssumption DEF CreateWithClass, Idle, Deleting, Goto, Marked,
       memoryState
  <1>6. ASSUME NEW t \in Threads, NEW i \in Instances, CreateFirst(t, i) PROVE LiveInv'
    BY <1>6, SameLive, NullAssumption DEF CreateFirst, Idle, Deleting, Goto, Marked
  <1>7. ASSUME NEW t \in Threads, AllocClass(t) PROVE LiveInv'
    BY <1>7, SameLive, NullAssumption DEF AllocClass, memoryState
  <1>8. ASSUME NEW t \in Threads, AllocClassFails(t) PROVE LiveInv'
    BY <1>8, SameLive, NullAssumption DEF AllocClassFails, Goto, memoryState
  <1>9. ASSUME NEW t \in Threads, DestroyClass(t) PROVE LiveInv'
    BY <1>9, SameLive, NullAssumption DEF DestroyClass, memoryState
  <1>10. ASSUME NEW t \in Threads, ClassFailed(t) PROVE LiveInv'
    BY <1>10, SameLive, NullAssumption DEF ClassFailed, Return, Goto, NoInst
  <1>11. ASSUME NEW t \in Threads, PublishClass(t) PROVE LiveInv'
    BY <1>11, SameLive, NullAssumption DEF PublishClass, Goto
  <1>12. ASSUME NEW t \in Threads, CopyBinding(t) PROVE LiveInv'
    BY <1>12, SameLive, NullAssumption DEF CopyBinding, Goto, memoryState
  <1>13. ASSUME NEW t \in Threads, NEW i \in Instances, NEW j \in Instances,
               Clone(t, i, j)
        PROVE  LiveInv'
    BY <1>13, SameLive, NullAssumption DEF Clone, Idle, Deleting, Usable, Goto, Marked,
       memoryState
  <1>14. ASSUME NEW t \in Threads, AllocObject(t) PROVE LiveInv'
    BY <1>14, SameLive, NullAssumption DEF AllocObject, AllocatesWith, memoryState
  <1>15. ASSUME NEW t \in Threads, AllocObjectFails(t) PROVE LiveInv'
    BY <1>15, SameLive, NullAssumption DEF AllocObjectFails, Goto, memoryState
  <1>16. ASSUME NEW t \in Threads, CountLive(t) PROVE LiveInv'
    <2>1. self[t] \in Instances /\ ~Counted(self[t]) /\ Counted(self[t])'
      BY <1>16, NullAssumption DEF CountLive, Goto
    <2>2. \A j \in Instances \ {self[t]} : Counted(j)' <=> Counted(j)
      BY <1>16, NullAssumption DEF CountLive, Goto
    <2> QED
      BY <1>16, <2>1, <2>2, OneMoreLive DEF CountLive
  <1>17. ASSUME NEW t \in Threads, Register(t) PROVE LiveInv'
    BY <1>17, SameLive, NullAssumption DEF Register, Return, Goto, LiveAt, memoryState
  <1>18. ASSUME NEW t \in Threads, NEW i \in Instances, Delete(t, i) PROVE LiveInv'
    BY <1>18, SameLive, NullAssumption DEF Delete, Idle, Deleting, Usable, Goto, Marked,
       memoryState
  <1>19. ASSUME NEW t \in Threads, DropCount(t) PROVE LiveInv'
    <2>1. self[t] \in Instances /\ Counted(self[t]) /\ ~Counted(self[t])'
      BY <1>19, NullAssumption DEF DropCount, Goto
    <2>2. \A j \in Instances \ {self[t]} : Counted(j)' <=> Counted(j)
      BY <1>19, NullAssumption DEF DropCount, Goto
    <2> QED
      BY <1>19, <2>1, <2>2, OneLessLive DEF DropCount
  <1>20. ASSUME NEW t \in Threads, DestroyObject(t) PROVE LiveInv'
    BY <1>20, SameLive, NullAssumption DEF DestroyObject, memoryState
  <1>21. ASSUME NEW t \in Threads, ObjectGone(t) PROVE LiveInv'
    BY <1>21, SameLive, NullAssumption DEF ObjectGone, Return, Goto, NoInst, memoryState
  <1>22. ASSUME NEW t \in Threads, NEW i \in Instances, NEW sr \in Rates,
               BeginInit(t, i, sr)
        PROVE  LiveInv'
    BY <1>22, SameLive, NullAssumption DEF BeginInit, Idle, Deleting, Usable, Goto, memoryState
  <1>23. ASSUME NEW t \in Threads, ClassReady(t) PROVE LiveInv'
    BY <1>23, SameLive, NullAssumption DEF ClassReady, Goto, memoryState
  <1>24. ASSUME NEW t \in Threads, ClaimClassInit(t) PROVE LiveInv'
    BY <1>24, SameLive, NullAssumption DEF ClaimClassInit, Goto
  <1>25. ASSUME NEW t \in Threads, ClassRefused(t) PROVE LiveInv'
    BY <1>25, SameLive, NullAssumption DEF ClassRefused, Return, Goto, memoryState
  <1>26. ASSUME NEW t \in Threads, StaticInit(t) PROVE LiveInv'
    BY <1>26, SameLive, NullAssumption DEF StaticInit, Goto, memoryState
  <1>27. ASSUME NEW t \in Threads, PublishRate(t) PROVE LiveInv'
    BY <1>27, SameLive, NullAssumption DEF PublishRate, Goto
  <1>28. ASSUME NEW t \in Threads, NEW i \in Instances, NEW sr \in Rates,
               Constants(t, i, sr)
        PROVE  LiveInv'
    BY <1>28, SameLive, NullAssumption DEF Constants, Idle, Deleting, Usable, LiveAt, memoryState
  <1>29. ASSUME NEW t \in Threads, InstanceInit(t) PROVE LiveInv'
    BY <1>29, SameLive, NullAssumption DEF InstanceInit, Return, Goto, LiveAt, memoryState
  <1>30. ASSUME NEW t \in Threads, BeginDeleteFactory(t) PROVE LiveInv'
    BY <1>30, SameLive, NullAssumption DEF BeginDeleteFactory, Idle, Deleting, Goto, memoryState
  <1>31. ASSUME NEW t \in Threads, NEW i \in Instances, DropOwned(t, i) PROVE LiveInv'
    <2>1. Counted(i) /\ ~Counted(i)'
      BY <1>31, NullAssumption DEF DropOwned, Marked
    <2>2. \A j \in Instances \ {i} : Counted(j)' <=> Counted(j)
      BY <1>31, NullAssumption DEF DropOwned, Marked
    <2> QED
      BY <1>31, <2>1, <2>2, OneLessLive DEF DropOwned
  <1>32. ASSUME NEW t \in Threads, OwnedGone(t) PROVE LiveInv'
    BY <1>32, SameLive, NullAssumption DEF OwnedGone, NoInst, memoryState
  <1>33. ASSUME NEW t \in Threads, DropClass(t) PROVE LiveInv'
    BY <1>33, SameLive, NullAssumption DEF DropClass, Goto, memoryState
  <1>34. ASSUME NEW t \in Threads, CompileAnew(t) PROVE LiveInv'
    <2>1. \A i \in Instances : ~Counted(i) /\ ~Counted(i)'
      BY <1>34, NullAssumption DEF CompileAnew, Goto
    <2>2. {i \in Instances : Counted(i)} = {} /\ {i \in Instances : Counted(i)}' = {}
      BY <2>1
    <2> QED
      BY <1>34, <2>2, FS_EmptySet DEF CompileAnew, LiveInv, LiveCount, LiveSet
  <1> QED
    BY <1>1, <1>2, <1>3, <1>4, <1>5, <1>6, <1>7, <1>8, <1>9, <1>10, <1>11, <1>12, <1>13, <1>14,
       <1>15, <1>16, <1>17, <1>18, <1>19, <1>20, <1>21, <1>22, <1>23, <1>24, <1>25, <1>26,
       <1>27, <1>28, <1>29, <1>30, <1>31, <1>32, <1>33, <1>34
       DEF Next, Start, Continue, ClassCall, ObjectCall, InitCall, DeleteCall

(* The inductive invariant.                                                   *)
Inv == Ownership /\ TablesInv /\ SlotsInv /\ LiveInv

(* Nothing is bound, allocated or called at the start.                        *)
LEMMA InitInv == Init => Inv
  <1> SUFFICES ASSUME Init PROVE Inv
    OBVIOUS
  <1>1. Control
    BY DEF Init, Control, TypeOK, NoInst, Steps, Calls, Apart, Statuses, Alone,
           ClassIsExclusive, InClass
  <1>2. Ownership
    BY <1>1 DEF Init, NoInst, Ownership, ClassFirst, CopiesAreFresh, NoBlockYet, OneManager,
                BlocksHaveOwner, InClassStorage
  <1>3. TablesInv
    BY DEF Init, NoInst, TablesInv, TablesAreFilled
  <1>4. ZonesOf(Class) = {} /\ NextZone(Class) = 1
    BY NoZones DEF Init
  <1>5. SlotsInv
    BY <1>4 DEF Init, SlotsInv, Stacked, SlotsAreBacked, InClassStorage
  <1>6. LiveSet = {}
    BY DEF Init, NoInst, LiveSet, Counted
  <1>7. LiveInv
    BY <1>6, FS_EmptySet DEF Init, LiveInv, LiveCount, LiveSet
  <1> QED
    BY <1>2, <1>3, <1>5, <1>7 DEF Inv

(* Every step preserves the invariant.                                        *)
LEMMA NextInv == Inv /\ [Next]_vars => Inv'
  <1> SUFFICES ASSUME Inv, [Next]_vars PROVE Inv'
    OBVIOUS
  <1>1. Control'
    BY ControlStep DEF Inv, Ownership
  <1>2. Ownership'
    BY <1>1, OwnershipStep DEF Inv
  <1> QED
    BY <1>2, TablesStep, SlotsStep, LiveStep DEF Inv

(* The invariant holds in every reachable state.                              *)
THEOREM InvHolds == Spec => []Inv
  BY InitInv, NextInv, PTL DEF Spec

(* Type correctness.                                                          *)
THEOREM TypeCorrect == Spec => []TypeOK
  <1>1. Inv => TypeOK
    BY DEF Inv, Ownership, Control
  <1> QED
    BY <1>1, InvHolds, PTL

(* Every block comes from the bound manager, whatever calls a change of       *)
(* manager meets.                                                             *)
THEOREM OneManagerHolds == Spec => []OneManager
  <1>1. Inv => OneManager
    BY DEF Inv, Ownership
  <1> QED
    BY <1>1, InvHolds, PTL

(* No block leaks, whichever allocation fails.                                *)
THEOREM BlocksHaveOwnerHolds == Spec => []BlocksHaveOwner
  <1>1. Inv => BlocksHaveOwner
    BY DEF Inv, Ownership
  <1> QED
    BY <1>1, InvHolds, PTL

(* class_busy is a lock.                                                      *)
THEOREM ClassIsExclusiveHolds == Spec => []ClassIsExclusive
  <1>1. Inv => ClassIsExclusive
    BY DEF Inv, Ownership, Control
  <1> QED
    BY <1>1, InvHolds, PTL

(* live_instances is the number of complete instances: the saturating         *)
(* subtraction never saturates.                                               *)
THEOREM LiveCountHolds == Spec => []LiveCount
  <1>1. Inv => LiveCount
    BY DEF Inv, LiveInv
  <1> QED
    BY <1>1, InvHolds, PTL

(* No JIT slot dangles, and none is null once class storage is published.     *)
THEOREM SlotsAreBackedHolds == Spec => []SlotsAreBacked
  <1>1. Inv => SlotsAreBacked
    BY DEF Inv, SlotsInv
  <1> QED
    BY <1>1, InvHolds, PTL

(* An initialised instance reads tables that are filled for the published     *)
(* rate.                                                                      *)
THEOREM TablesAreFilledHolds == Spec => []TablesAreFilled
  <1>1. Inv => TablesAreFilled
    BY DEF Inv, TablesInv
  <1> QED
    BY <1>1, InvHolds, PTL

(* init leaves its instance at the rate of the class tables.                  *)
THEOREM InitAtTableRateHolds == Spec => InitAtTableRate
  <1> DEFINE A == \A t \in Threads : pc[t] = "instanceInit" /\ pc'[t] = "idle"
                      => inst'[self[t]].rate = tables'
  <1>1. Inv /\ [Next]_vars => [A]_vars
    <2> SUFFICES ASSUME Inv, Next, NEW t \in Threads, pc[t] = "instanceInit", pc'[t] = "idle"
                 PROVE  inst'[self[t]].rate = tables'
      OBVIOUS
    <2> USE DEF Inv, Ownership, Control, TypeOK
    <2>1. InstanceInit(t)
      <3>1. PICK u \in Threads : Start(u) \/ Continue(u)
        BY DEF Next
      <3>2. ~Start(u)
        BY DEF Start, CheckManager, CreateWithClass, CreateFirst, Clone, Delete, BeginInit,
               Constants, BeginDeleteFactory, Idle, Goto
      <3>3. ~(DescribeFails(u) \/ PublishManager(u))
        BY DEF DescribeFails, PublishManager, Goto
      <3>4. ~ClassCall(u)
        BY DEF ClassCall, AllocClass, AllocClassFails, DestroyClass, ClassFailed, PublishClass,
               Return, Goto
      <3>5. ~ObjectCall(u)
        BY DEF ObjectCall, CopyBinding, AllocObject, AllocObjectFails, CountLive, Register,
               DropCount, DestroyObject, ObjectGone, Return, Goto
      <3>6. ~DeleteCall(u)
        BY DEF DeleteCall, DropOwned, OwnedGone, DropClass, CompileAnew, Goto
      <3>7. InitCall(u)
        BY <3>1, <3>2, <3>3, <3>4, <3>5, <3>6 DEF Continue
      <3> QED
        BY <3>7 DEF InitCall, ClassReady, ClaimClassInit, ClassRefused, StaticInit, PublishRate,
                    InstanceInit, Return, Goto
    <2>2. self[t] \in Instances /\ inst'[self[t]].rate = rate[t] /\ tables' = tables
      BY <2>1 DEF InstanceInit, LiveAt, Calls
    <2>3. classRate = rate[t] /\ classRate # NoRate
      BY NullAssumption DEF TablesInv, Calls
    <2> QED
      BY <2>2, <2>3 DEF TablesInv
  <1> QED
    BY <1>1, InvHolds, PTL DEF Spec, InitAtTableRate

(* The class tables never change under an initialised instance.               *)
THEOREM TablesAreStableHolds == Spec => TablesAreStable
  <1> DEFINE A == tables' # tables /\ tables' # NoRate => \A i \in Instances : ~inst[i].initialized
  <1>1. Inv /\ [Next]_vars => [A]_vars
    <2> SUFFICES ASSUME Inv, Next, tables' # tables, tables' # NoRate,
                        NEW i \in Instances, inst[i].initialized
                 PROVE  FALSE
      OBVIOUS
    <2>1. PICK t \in Threads : Start(t) \/ Continue(t)
      BY DEF Next
    <2>2. ~Start(t)
      BY DEF Start, CheckManager, CreateWithClass, CreateFirst, Clone, Delete, BeginInit, Constants,
             BeginDeleteFactory
    <2>3. ~(DescribeFails(t) \/ PublishManager(t) \/ ClassCall(t))
      BY DEF DescribeFails, PublishManager, ClassCall, AllocClass, AllocClassFails, DestroyClass,
             ClassFailed, PublishClass
    <2>4. ~ObjectCall(t)
      BY DEF ObjectCall, CopyBinding, AllocObject, AllocObjectFails, CountLive, Register, DropCount,
             DestroyObject, ObjectGone
    <2>5. ~DeleteCall(t)
      BY DEF DeleteCall, DropOwned, OwnedGone, DropClass, CompileAnew
    <2>6. InitCall(t)
      BY <2>1, <2>2, <2>3, <2>4, <2>5 DEF Continue
    <2>7. StaticInit(t)
      BY <2>6 DEF InitCall, ClassReady, ClaimClassInit, ClassRefused, PublishRate, InstanceInit
    <2> QED
      BY <2>7 DEF StaticInit, Inv, TablesInv, TablesAreFilled
  <1> QED
    BY <1>1, InvHolds, PTL DEF Spec, TablesAreStable

(* class_busy is a lock, no slot dangles, and live_instances counts the       *)
(* complete instances, whichever allocation the host refuses.                 *)
THEOREM ClassStorageIsSoundHolds == Spec => []ClassStorageIsSound
  <1>1. TypeOK /\ LiveCount /\ ClassIsExclusive /\ SlotsAreBacked => ClassStorageIsSound
    BY DEF ClassStorageIsSound
  <1> QED
    BY <1>1, TypeCorrect, LiveCountHolds, ClassIsExclusiveHolds, SlotsAreBackedHolds, PTL

=============================================================================
