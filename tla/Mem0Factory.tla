----------------------------- MODULE Mem0Factory -----------------------------
(* One Cranelift factory compiled with -mem0, and the host threads that bind  *)
(* a memory manager to it, create, clone, initialise and delete its instances *)
(* and finally delete it: crates/cranelift-ffi/src/{types,instance,factory}.rs.*)
(*                                                                            *)
(* FactoryMemoryState is guarded by one mutex, which the code releases around *)
(* every call to the host (describe, allocate, destroy, staticInit); so one   *)
(* C call is several actions here, and class_busy is what keeps two of them   *)
(* apart.  Steps between two lock regions that only touch the thread's own    *)
(* instance are merged with the region that follows.  Calls refused at their  *)
(* first lock region, before they change anything, are stuttering steps.      *)
(*                                                                            *)
(* The host follows the C API: one call at a time on an instance, and no call *)
(* on a factory being deleted (FactoryCache has what the cache adds).         *)
EXTENDS Naturals, FiniteSets

CONSTANTS
    Threads,        \* host threads
    Instances,      \* DSP instances
    Managers,       \* identities of faust_memory_manager tables
    Rates,          \* sample rates
    ClassZones,     \* number of class-scope tables of the DSP
    ObjectZones,    \* the DSP object and its external instance buffers
    NoManager, NoInstance, NoRate

ASSUME ZonesAssumption == ClassZones \in Nat /\ ObjectZones \in Nat \ {0}
ASSUME NullAssumption == NoManager \notin Managers /\ NoInstance \notin Instances /\ NoRate \notin Rates

VARIABLES
    binding, classStorage, classRate, classBusy, liveInstances,  \* FactoryMemoryState
    slots,      \* per class table: the manager of the block its JIT slot points to
    tables,     \* the rate the class tables were filled for
    inst,       \* per instance: status, sample_rate, initialized
    blocks,     \* <<owner, zone, manager>>: what the host allocated and did not destroy
    pc,         \* per thread: the step of its call
    self,       \* per thread: the instance its call makes or works on
    source,     \* per thread: the instance it clones
    mgr,        \* per thread: its copy of a binding
    rate        \* per thread: the sample rate argument of init

memoryState == <<binding, classStorage, classRate, classBusy, liveInstances>>
vars == <<memoryState, slots, tables, inst, blocks, pc, self, source, mgr, rate>>

(* The owner of the class tables.                                             *)
Class == "class"

ASSUME ClassAssumption == Class \notin Instances \cup {NoInstance}

Owners == Instances \cup {Class}
Zones == 1 .. (IF ClassZones > ObjectZones THEN ClassZones ELSE ObjectZones)

Steps == {"idle", "describe", "classAlloc", "classUndo", "copyBinding", "objectAlloc",
          "register", "dropCount", "objectUndo", "classInit", "staticInit", "publishRate",
          "instanceInit", "dropInstances", "dropClass"}

TypeOK ==
    /\ binding \in Managers \cup {NoManager}
    /\ classStorage \in BOOLEAN
    /\ classRate \in Rates \cup {NoRate}
    /\ classBusy \in BOOLEAN
    /\ liveInstances \in Nat
    /\ slots \in [1 .. ClassZones -> Managers \cup {NoManager}]
    /\ tables \in Rates \cup {NoRate}
    /\ inst \in [Instances -> [status : {"free", "fresh", "live", "dying"},
                               rate : Rates \cup {NoRate}, initialized : BOOLEAN]]
    /\ blocks \subseteq Owners \X Zones \X Managers
    /\ pc \in [Threads -> Steps]
    /\ self \in [Threads -> Instances \cup {NoInstance}]
    /\ source \in [Threads -> Instances \cup {NoInstance}]
    /\ mgr \in [Threads -> Managers \cup {NoManager}]
    /\ rate \in [Threads -> Rates \cup {NoRate}]

NoInst == [status |-> "free", rate |-> NoRate, initialized |-> FALSE]

Init ==
    /\ binding = NoManager
    /\ classStorage = FALSE
    /\ classRate = NoRate
    /\ classBusy = FALSE
    /\ liveInstances = 0
    /\ slots = [k \in 1 .. ClassZones |-> NoManager]
    /\ tables = NoRate
    /\ inst = [i \in Instances |-> NoInst]
    /\ blocks = {}
    /\ pc = [t \in Threads |-> "idle"]
    /\ self = [t \in Threads |-> NoInstance]
    /\ source = [t \in Threads |-> NoInstance]
    /\ mgr = [t \in Threads |-> NoManager]
    /\ rate = [t \in Threads |-> NoRate]

Deleting == \E t \in Threads : pc[t] \in {"dropInstances", "dropClass"}

Idle(t) == pc[t] = "idle" /\ self[t] = NoInstance /\ ~Deleting

(* The instance is registered and no other call works on it.                  *)
Usable(i) == inst[i].status = "live" /\ \A t \in Threads : self[t] # i /\ source[t] # i

(* An instance with another status.                                           *)
Marked(i, s) == [status |-> s, rate |-> inst[i].rate, initialized |-> inst[i].initialized]

(* A live instance.                                                           *)
LiveAt(sr, done) == [status |-> "live", rate |-> sr, initialized |-> done]

Goto(t, step) == pc' = [pc EXCEPT ![t] = step]

(* The zones of an owner are allocated upwards and destroyed downwards.       *)
ZonesOf(o) == {b[2] : b \in {c \in blocks : c[1] = o}}
NextZone(o) == Cardinality(ZonesOf(o)) + 1

(* The end of a call: the thread forgets its instance.                        *)
Return(t) ==
    /\ Goto(t, "idle")
    /\ self' = [self EXCEPT ![t] = NoInstance]
    /\ source' = [source EXCEPT ![t] = NoInstance]

-----------------------------------------------------------------------------
(* setCCraneliftMemoryManager                                                 *)

Replaceable == ~classStorage /\ liveInstances = 0 /\ ~classBusy

MayBind(m) == binding # m /\ (binding = NoManager \/ Replaceable)

(* First lock region: the same identity returns true, an allocated factory    *)
(* refuses; otherwise the manager is described outside the lock.              *)
CheckManager(t, m) ==
    /\ Idle(t)
    /\ MayBind(m)
    /\ mgr' = [mgr EXCEPT ![t] = m]
    /\ Goto(t, "describe")
    /\ UNCHANGED <<memoryState, slots, tables, inst, blocks, self, source, rate>>

(* The manager has no name or layout for a zone: nothing is bound.            *)
DescribeFails(t) ==
    /\ pc[t] = "describe"
    /\ Goto(t, "idle")
    /\ UNCHANGED <<memoryState, slots, tables, inst, blocks, self, source, mgr, rate>>

(* Mutant of PublishManager: the conditions are not looked at again.          *)
PublishUnchecked(t) ==
    /\ pc[t] = "describe"
    /\ binding' = mgr[t]
    /\ Goto(t, "idle")
    /\ UNCHANGED <<classStorage, classRate, classBusy, liveInstances, slots, tables, inst,
                   blocks, self, source, mgr, rate>>

(* Second lock region: the same conditions again, then the binding.           *)
PublishManager(t) ==
    /\ pc[t] = "describe"
    /\ binding' = IF MayBind(mgr[t]) THEN mgr[t] ELSE binding
    /\ Goto(t, "idle")
    /\ UNCHANGED <<classStorage, classRate, classBusy, liveInstances, slots, tables, inst,
                   blocks, self, source, mgr, rate>>

-----------------------------------------------------------------------------
(* createCCraneliftDSPInstance, its part ensure_class_storage                 *)

(* Class storage is there already.                                            *)
CreateWithClass(t, i) ==
    /\ Idle(t)
    /\ inst[i].status = "free"
    /\ classStorage
    /\ inst' = [inst EXCEPT ![i] = Marked(i, "fresh")]
    /\ self' = [self EXCEPT ![t] = i]
    /\ Goto(t, "copyBinding")
    /\ UNCHANGED <<memoryState, slots, tables, blocks, source, mgr, rate>>

(* The first instance allocates class storage; refused while busy or unbound. *)
CreateFirst(t, i) ==
    /\ Idle(t)
    /\ inst[i].status = "free"
    /\ ~classStorage
    /\ ~classBusy
    /\ binding # NoManager
    /\ classBusy' = TRUE
    /\ mgr' = [mgr EXCEPT ![t] = binding]
    /\ inst' = [inst EXCEPT ![i] = Marked(i, "fresh")]
    /\ self' = [self EXCEPT ![t] = i]
    /\ Goto(t, "classAlloc")
    /\ UNCHANGED <<binding, classStorage, classRate, liveInstances, slots, tables, blocks,
                   source, rate>>

(* ManagedClassStorage::create: one allocate callback and one JIT slot.       *)
AllocClass(t) ==
    LET k == NextZone(Class) IN
    /\ pc[t] = "classAlloc"
    /\ k <= ClassZones
    /\ blocks' = blocks \cup {<<Class, k, mgr[t]>>}
    /\ slots' = [slots EXCEPT ![k] = mgr[t]]
    /\ UNCHANGED <<memoryState, tables, inst, pc, self, source, mgr, rate>>

(* Mutant of AllocClassFails: the slots are left as they are.                 *)
AllocClassFailsDangling(t) ==
    /\ pc[t] = "classAlloc"
    /\ NextZone(Class) <= ClassZones
    /\ Goto(t, "classUndo")
    /\ UNCHANGED <<memoryState, slots, tables, inst, blocks, self, source, mgr, rate>>

(* The host returns null: the storage made so far clears its slots and is     *)
(* dropped.                                                                   *)
AllocClassFails(t) ==
    /\ pc[t] = "classAlloc"
    /\ NextZone(Class) <= ClassZones
    /\ slots' = [k \in 1 .. ClassZones |-> NoManager]
    /\ Goto(t, "classUndo")
    /\ UNCHANGED <<memoryState, tables, inst, blocks, self, source, mgr, rate>>

(* One destroy callback, on the manager the block came from.                  *)
DestroyClass(t) ==
    /\ pc[t] \in {"classUndo", "dropClass"}
    /\ \E b \in blocks :
          /\ b[1] = Class
          /\ b[2] + 1 = NextZone(Class)
          /\ blocks' = blocks \ {b}
    /\ UNCHANGED <<memoryState, slots, tables, inst, pc, self, source, mgr, rate>>

(* Mutant of ClassFailed: the blocks made so far are not waited for.          *)
ClassFailedLeaks(t) ==
    /\ pc[t] = "classUndo"
    /\ classBusy' = FALSE
    /\ inst' = [inst EXCEPT ![self[t]] = NoInst]
    /\ Return(t)
    /\ UNCHANGED <<binding, classStorage, classRate, liveInstances, slots, tables, blocks,
                   mgr, rate>>

(* Third lock region, failure: null to the host.                              *)
ClassFailed(t) ==
    /\ pc[t] = "classUndo"
    /\ NextZone(Class) = 1
    /\ classBusy' = FALSE
    /\ inst' = [inst EXCEPT ![self[t]] = NoInst]
    /\ Return(t)
    /\ UNCHANGED <<binding, classStorage, classRate, liveInstances, slots, tables, blocks,
                   mgr, rate>>

(* Third lock region, success.                                                *)
PublishClass(t) ==
    /\ pc[t] = "classAlloc"
    /\ NextZone(Class) > ClassZones
    /\ classBusy' = FALSE
    /\ classStorage' = TRUE
    /\ Goto(t, "copyBinding")
    /\ UNCHANGED <<binding, classRate, liveInstances, slots, tables, inst, blocks, self,
                   source, mgr, rate>>

-----------------------------------------------------------------------------
(* The rest of createCCraneliftDSPInstance, and cloneCCraneliftDSPInstance    *)

(* The binding is read again, in a lock region of its own.                    *)
CopyBinding(t) ==
    /\ pc[t] = "copyBinding"
    /\ mgr' = [mgr EXCEPT ![t] = binding]
    /\ Goto(t, "objectAlloc")
    /\ UNCHANGED <<memoryState, slots, tables, inst, blocks, self, source, rate>>

Clone(t, i, j) ==
    /\ Idle(t)
    /\ Usable(i)
    /\ inst[j].status = "free"
    /\ inst' = [inst EXCEPT ![j] = Marked(j, "fresh")]
    /\ self' = [self EXCEPT ![t] = j]
    /\ source' = [source EXCEPT ![t] = i]
    /\ Goto(t, "objectAlloc")
    /\ UNCHANGED <<memoryState, slots, tables, blocks, mgr, rate>>

(* new_managed allocates through the copied binding, deep_clone through the   *)
(* manager each source block came from.                                       *)
AllocatesWith(t, k, m) ==
    \/ source[t] = NoInstance /\ m = mgr[t]
    \/ source[t] # NoInstance /\ <<source[t], k, m>> \in blocks

AllocObject(t) ==
    LET k == NextZone(self[t]) IN
    /\ pc[t] = "objectAlloc"
    /\ k <= ObjectZones
    /\ \E m \in Managers :
          /\ AllocatesWith(t, k, m)
          /\ blocks' = blocks \cup {<<self[t], k, m>>}
    /\ UNCHANGED <<memoryState, slots, tables, inst, pc, self, source, mgr, rate>>

(* Mutant of AllocObjectFails: undone like a complete instance.               *)
AllocObjectFailsCounted(t) ==
    /\ pc[t] = "objectAlloc"
    /\ NextZone(self[t]) <= ObjectZones
    /\ Goto(t, "dropCount")
    /\ UNCHANGED <<memoryState, slots, tables, inst, blocks, self, source, mgr, rate>>

(* The host returns null: what was allocated is dropped, null to the host.    *)
AllocObjectFails(t) ==
    /\ pc[t] = "objectAlloc"
    /\ NextZone(self[t]) <= ObjectZones
    /\ Goto(t, "objectUndo")
    /\ UNCHANGED <<memoryState, slots, tables, inst, blocks, self, source, mgr, rate>>

(* The state is complete: live_instances counts it.                           *)
CountLive(t) ==
    /\ pc[t] = "objectAlloc"
    /\ NextZone(self[t]) > ObjectZones
    /\ liveInstances' = liveInstances + 1
    /\ Goto(t, "register")
    /\ UNCHANGED <<binding, classStorage, classRate, classBusy, slots, tables, inst, blocks,
                   self, source, mgr, rate>>

(* cache_register_instance; a clone takes its source's rate and flag.         *)
Register(t) ==
    /\ pc[t] = "register"
    /\ inst' = [inst EXCEPT ![self[t]] =
                  IF source[t] = NoInstance
                  THEN LiveAt(NoRate, FALSE)
                  ELSE inst[source[t]]]
    /\ Return(t)
    /\ UNCHANGED <<memoryState, slots, tables, blocks, mgr, rate>>

-----------------------------------------------------------------------------
(* deleteCCraneliftDSPInstance and the drop of an instance                    *)

Delete(t, i) ==
    /\ Idle(t)
    /\ Usable(i)
    /\ inst' = [inst EXCEPT ![i] = Marked(i, "dying")]
    /\ self' = [self EXCEPT ![t] = i]
    /\ Goto(t, "dropCount")
    /\ UNCHANGED <<memoryState, slots, tables, blocks, source, mgr, rate>>

(* Drop for CraneliftDspInstance runs before its fields are dropped.          *)
DropCount(t) ==
    /\ pc[t] = "dropCount"
    /\ liveInstances' = IF liveInstances = 0 THEN 0 ELSE liveInstances - 1
    /\ Goto(t, "objectUndo")
    /\ UNCHANGED <<binding, classStorage, classRate, classBusy, slots, tables, inst, blocks,
                   self, source, mgr, rate>>

(* External buffers in reverse, then the object, one callback each.           *)
DestroyObject(t) ==
    /\ pc[t] \in {"objectUndo", "dropInstances"}
    /\ \E b \in blocks :
          /\ b[1] = self[t]
          /\ b[2] + 1 = NextZone(self[t])
          /\ blocks' = blocks \ {b}
    /\ UNCHANGED <<memoryState, slots, tables, inst, pc, self, source, mgr, rate>>

ObjectGone(t) ==
    /\ pc[t] = "objectUndo"
    /\ NextZone(self[t]) = 1
    /\ inst' = [inst EXCEPT ![self[t]] = NoInst]
    /\ Return(t)
    /\ UNCHANGED <<memoryState, slots, tables, blocks, mgr, rate>>

-----------------------------------------------------------------------------
(* initCCraneliftDSPInstance with class_init_instance                         *)

BeginInit(t, i, sr) ==
    /\ Idle(t)
    /\ Usable(i)
    /\ self' = [self EXCEPT ![t] = i]
    /\ rate' = [rate EXCEPT ![t] = sr]
    /\ Goto(t, "classInit")
    /\ UNCHANGED <<memoryState, slots, tables, inst, blocks, source, mgr>>

(* Mutant of ClassReady: initialised at whatever rate.                        *)
ClassReadyAnyRate(t) ==
    /\ pc[t] = "classInit"
    /\ classRate # NoRate
    /\ Goto(t, "instanceInit")
    /\ UNCHANGED <<memoryState, slots, tables, inst, blocks, self, source, mgr, rate>>

ClassReady(t) ==
    /\ pc[t] = "classInit"
    /\ classRate = rate[t]
    /\ Goto(t, "instanceInit")
    /\ UNCHANGED <<memoryState, slots, tables, inst, blocks, self, source, mgr, rate>>

(* Mutant of ClaimClassInit: the busy flag is not looked at.                  *)
ClaimWhileBusy(t) ==
    /\ pc[t] = "classInit"
    /\ classRate = NoRate
    /\ classBusy' = TRUE
    /\ Goto(t, "staticInit")
    /\ UNCHANGED <<binding, classStorage, classRate, liveInstances, slots, tables, inst,
                   blocks, self, source, mgr, rate>>

(* Mutant of ClaimClassInit: the rate is published before the tables are      *)
(* filled.                                                                    *)
ClaimAndPublish(t) ==
    /\ pc[t] = "classInit"
    /\ classRate = NoRate
    /\ ~classBusy
    /\ classBusy' = TRUE
    /\ classRate' = rate[t]
    /\ Goto(t, "staticInit")
    /\ UNCHANGED <<binding, classStorage, liveInstances, slots, tables, inst, blocks, self,
                   source, mgr, rate>>

(* Mutant of ClaimClassInit: another rate fills the tables anew.              *)
ClaimAnyRate(t) ==
    /\ pc[t] = "classInit"
    /\ classRate # rate[t]
    /\ ~classBusy
    /\ classBusy' = TRUE
    /\ Goto(t, "staticInit")
    /\ UNCHANGED <<binding, classStorage, classRate, liveInstances, slots, tables, inst,
                   blocks, self, source, mgr, rate>>

ClaimClassInit(t) ==
    /\ pc[t] = "classInit"
    /\ classRate = NoRate
    /\ ~classBusy
    /\ classBusy' = TRUE
    /\ Goto(t, "staticInit")
    /\ UNCHANGED <<binding, classStorage, classRate, liveInstances, slots, tables, inst,
                   blocks, self, source, mgr, rate>>

(* Mutant of ClassRefused: another rate is waited for.                        *)
ClassRefusedWhenBusy(t) ==
    /\ pc[t] = "classInit"
    /\ classRate = NoRate /\ classBusy
    /\ Return(t)
    /\ UNCHANGED <<memoryState, slots, tables, inst, blocks, mgr, rate>>

(* class_init_instance returns false, and init returns.                       *)
ClassRefused(t) ==
    /\ pc[t] = "classInit"
    /\ classRate # rate[t]
    /\ classRate # NoRate \/ classBusy
    /\ Return(t)
    /\ UNCHANGED <<memoryState, slots, tables, inst, blocks, mgr, rate>>

(* The JIT's staticInit fills the class tables through their slots, unlocked. *)
StaticInit(t) ==
    /\ pc[t] = "staticInit"
    /\ tables' = rate[t]
    /\ Goto(t, "publishRate")
    /\ UNCHANGED <<memoryState, slots, inst, blocks, self, source, mgr, rate>>

PublishRate(t) ==
    /\ pc[t] = "publishRate"
    /\ classRate' = rate[t]
    /\ classBusy' = FALSE
    /\ Goto(t, "instanceInit")
    /\ UNCHANGED <<binding, classStorage, liveInstances, slots, tables, inst, blocks, self,
                   source, mgr, rate>>

(* instanceInit or instanceConstants called by the host itself: no class is   *)
(* initialised and the flag stays as it is.                                   *)
Constants(t, i, sr) ==
    /\ Idle(t)
    /\ Usable(i)
    /\ inst' = [inst EXCEPT ![i] = LiveAt(sr, inst[i].initialized)]
    /\ UNCHANGED <<memoryState, slots, tables, blocks, pc, self, source, mgr, rate>>

(* instanceInit (constants, user interface, clear), then initialized.         *)
InstanceInit(t) ==
    /\ pc[t] = "instanceInit"
    /\ inst' = [inst EXCEPT ![self[t]] = LiveAt(rate[t], TRUE)]
    /\ Return(t)
    /\ UNCHANGED <<memoryState, slots, tables, blocks, mgr, rate>>

-----------------------------------------------------------------------------
(* deleteCCraneliftDSPFactory of the last handle: instances, then class       *)
(* storage, then the JIT module; the host compiles the DSP anew.              *)

BeginDeleteFactory(t) ==
    /\ \A u \in Threads : Idle(u)
    /\ Goto(t, "dropInstances")
    /\ UNCHANGED <<memoryState, slots, tables, inst, blocks, self, source, mgr, rate>>

(* The drop of an instance the entry still owns, nested in the factory's: its *)
(* count, then DestroyObject per zone.                                        *)
DropOwned(t, i) ==
    /\ pc[t] = "dropInstances"
    /\ self[t] = NoInstance
    /\ inst[i].status = "live"
    /\ liveInstances' = IF liveInstances = 0 THEN 0 ELSE liveInstances - 1
    /\ inst' = [inst EXCEPT ![i] = Marked(i, "dying")]
    /\ self' = [self EXCEPT ![t] = i]
    /\ UNCHANGED <<binding, classStorage, classRate, classBusy, slots, tables, blocks, pc,
                   source, mgr, rate>>

OwnedGone(t) ==
    /\ pc[t] = "dropInstances"
    /\ self[t] # NoInstance
    /\ NextZone(self[t]) = 1
    /\ inst' = [inst EXCEPT ![self[t]] = NoInst]
    /\ self' = [self EXCEPT ![t] = NoInstance]
    /\ UNCHANGED <<memoryState, slots, tables, blocks, pc, source, mgr, rate>>

(* Drop for ManagedClassStorage: the slots first, then the blocks.            *)
DropClass(t) ==
    /\ pc[t] = "dropInstances"
    /\ self[t] = NoInstance
    /\ \A i \in Instances : inst[i].status = "free"
    /\ slots' = [k \in 1 .. ClassZones |-> NoManager]
    /\ Goto(t, "dropClass")
    /\ UNCHANGED <<memoryState, tables, inst, blocks, self, source, mgr, rate>>

CompileAnew(t) ==
    /\ pc[t] = "dropClass"
    /\ NextZone(Class) = 1
    /\ binding' = NoManager
    /\ classStorage' = FALSE
    /\ classRate' = NoRate
    /\ classBusy' = FALSE
    /\ liveInstances' = 0
    /\ tables' = NoRate
    /\ Goto(t, "idle")
    /\ UNCHANGED <<slots, inst, blocks, self, source, mgr, rate>>

-----------------------------------------------------------------------------
ClassCall(t) == AllocClass(t) \/ AllocClassFails(t) \/ DestroyClass(t) \/ ClassFailed(t)
                \/ PublishClass(t)

ObjectCall(t) == CopyBinding(t) \/ AllocObject(t) \/ AllocObjectFails(t) \/ CountLive(t)
                 \/ Register(t) \/ DropCount(t) \/ DestroyObject(t) \/ ObjectGone(t)

InitCall(t) == ClassReady(t) \/ ClaimClassInit(t) \/ ClassRefused(t) \/ StaticInit(t)
               \/ PublishRate(t) \/ InstanceInit(t)

DeleteCall(t) == (\E i \in Instances : DropOwned(t, i)) \/ OwnedGone(t) \/ DropClass(t)
                 \/ CompileAnew(t)

Start(t) ==
    \/ \E m \in Managers : CheckManager(t, m)
    \/ \E i \in Instances : CreateWithClass(t, i) \/ CreateFirst(t, i) \/ Delete(t, i)
    \/ \E i, j \in Instances : Clone(t, i, j)
    \/ \E i \in Instances, sr \in Rates : BeginInit(t, i, sr) \/ Constants(t, i, sr)
    \/ BeginDeleteFactory(t)

Continue(t) == DescribeFails(t) \/ PublishManager(t) \/ ClassCall(t) \/ ObjectCall(t) \/ InitCall(t) \/ DeleteCall(t)

Next == \E t \in Threads : Start(t) \/ Continue(t)

Spec == Init /\ [][Next]_vars

(* A thread inside a call keeps running; the host need not start one.         *)
FairSpec == Spec /\ \A t \in Threads : WF_vars(Continue(t))

-----------------------------------------------------------------------------
(* Every block comes from the manager that is bound: setting a manager never  *)
(* strands a block, or hands one to be destroyed to a stranger, however it    *)
(* interleaves with creations that are between two lock regions.              *)
OneManager == \A b \in blocks : b[3] = binding

(* A block has an owner that will destroy it: a failed or half-finished       *)
(* creation, clone or class allocation leaks nothing, and none outlives the   *)
(* factory.                                                                   *)
BlocksHaveOwner ==
    \A b \in blocks :
        \/ b[1] # Class /\ inst[b[1]].status # "free"
        \/ b[1] = Class /\ classStorage
        \/ b[1] = Class /\ \E t \in Threads : pc[t] \in {"classAlloc", "classUndo"}

(* live_instances is the number of complete instances whose drop has not      *)
(* begun, so the saturating subtraction never saturates.                      *)
Counted(i) ==
    \/ inst[i].status = "live"
    \/ \E t \in Threads : self[t] = i /\ pc[t] \in {"register", "dropCount"}

LiveCount == liveInstances = Cardinality({i \in Instances : Counted(i)})

(* class_busy is a lock: one thread at most is inside class allocation or     *)
(* static initialisation, and the flag is up exactly while one is.            *)
InClass(t) == pc[t] \in {"classAlloc", "classUndo", "staticInit", "publishRate"}

ClassIsExclusive ==
    /\ \A t, u \in Threads : InClass(t) /\ InClass(u) => t = u
    /\ classBusy <=> \E t \in Threads : InClass(t)

(* A JIT slot that is set points to a live class block, and once class        *)
(* storage is published every slot is set until it is dropped: no static      *)
(* initialisation and no compute reads through a null or dangling slot.       *)
SlotsAreBacked ==
    /\ \A k \in 1 .. ClassZones :
          slots[k] # NoManager => <<Class, k, slots[k]>> \in blocks
    /\ classStorage /\ (\A t \in Threads : pc[t] # "dropClass")
          => \A k \in 1 .. ClassZones : slots[k] # NoManager

(* The class storage under any interleaving and any refused allocation: one   *)
(* thread at a time works on it, its slots point to live blocks, and the      *)
(* count that lets a manager be replaced is that of the complete instances.   *)
ClassStorageIsSound == TypeOK /\ LiveCount /\ ClassIsExclusive /\ SlotsAreBacked

(* An instance is marked initialised only when the class tables it shares are *)
(* filled, and for the rate that is published for the class.                  *)
TablesAreFilled ==
    \A i \in Instances : inst[i].initialized => classRate # NoRate /\ classRate = tables

(* init leaves an instance at the rate the class tables are filled for,       *)
(* whatever other instances are initialised meanwhile.                        *)
InitAtTableRate ==
    [][\A t \in Threads : pc[t] = "instanceInit" /\ pc'[t] = "idle"
          => inst'[self[t]].rate = tables']_vars

(* The shared tables never change under an instance that is initialised.      *)
TablesAreStable ==
    [][tables' # tables /\ tables' # NoRate => \A i \in Instances : ~inst[i].initialized]_vars

(* Every call returns: no thread waits for class_busy, they are refused.      *)
CallsReturn == \A t \in Threads : pc[t] # "idle" ~> pc[t] = "idle"

(* initCCraneliftDSPInstance "records sample rate and marks initialized".     *)
InitMarksInitialized ==
    [][\A t \in Threads : pc[t] \in {"classInit", "instanceInit"} /\ pc'[t] = "idle"
          => inst'[self[t]].initialized /\ inst'[self[t]].rate = rate[t]]_vars
=============================================================================
