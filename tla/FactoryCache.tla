---------------------------- MODULE FactoryCache ----------------------------
(* The process-wide cache of crates/ffi-common/src/factory_cache.rs: a map    *)
(* from SHA key to a factory, its external reference count and the DSP        *)
(* instances created from it, shared by every thread of the host.             *)
(*                                                                            *)
(* The body of each operation runs under one mutex and is one action.  What   *)
(* an operation takes OUT of the map is destroyed after the mutex is released,*)
(* one object per action, so other threads run between the removal and the    *)
(* destruction.  Factories and instances are named by their heap address,     *)
(* which the allocator may hand out again once the object is destroyed.       *)
(*                                                                            *)
(* Returns that change nothing (a null for an unknown key, NotFound, a full   *)
(* counter, false for an unknown instance) are stuttering steps.              *)
EXTENDS Naturals, FiniteSets

CONSTANTS
    Threads,        \* host threads calling the C API
    Shas,           \* SHA keys
    Factories,      \* heap addresses of boxed factories
    Instances,      \* heap addresses of boxed DSP instances
    NoFactory,      \* "no factory": the null handle
    MaxRefs         \* usize::MAX, where checked_add returns None

ASSUME NoFactoryAssumption == NoFactory \notin Factories
ASSUME MaxRefsAssumption == MaxRefs \in Nat \ {0}

VARIABLES
    cache,      \* FactoryCache::map; a key with no references is absent
    mtMode,     \* FactoryCache::mt_mode, which no operation reads
    heapF,      \* addresses of the factories not yet destroyed
    heapI,      \* addresses of the instances not yet destroyed
    dropF,      \* per thread: factories it removed and still has to destroy
    dropI,      \* per thread: instances it removed and still has to destroy
    creating,   \* per thread: the factory it builds an instance for
    held,       \* history: handles the host acquired and did not release
    parent,     \* history: the factory an instance was registered under
    disciplined \* history: no factory lost its last handle under a running call

vars == <<cache, mtMode, heapF, heapI, dropF, dropI, creating, held, parent, disciplined>>

Entry == [factory   : Factories \cup {NoFactory},
          refs      : 0 .. MaxRefs,
          instances : SUBSET Instances]

Vacant == [factory |-> NoFactory, refs |-> 0, instances |-> {}]

Cached(s) == cache[s].refs > 0

Keys == {s \in Shas : Cached(s)}

CachedFactories == {cache[s].factory : s \in Keys}

CachedInstances == UNION {cache[s].instances : s \in Keys}

(* A thread runs one call at a time: it is free when it neither builds an     *)
(* instance nor still destroys what its last call removed.                    *)
Free(t) == creating[t] = NoFactory /\ dropF[t] = {} /\ dropI[t] = {}

(* The factories thread t's current call works on.                            *)
Using(t) == {creating[t]} \cup {parent[i] : i \in dropI[t]}

TypeOK ==
    /\ cache \in [Shas -> Entry]
    /\ mtMode \in BOOLEAN
    /\ heapF \subseteq Factories
    /\ heapI \subseteq Instances
    /\ dropF \in [Threads -> SUBSET Factories]
    /\ dropI \in [Threads -> SUBSET Instances]
    /\ creating \in [Threads -> Factories \cup {NoFactory}]
    /\ held \in [Factories -> 0 .. MaxRefs]
    /\ parent \in [Instances -> Factories \cup {NoFactory}]
    /\ disciplined \in BOOLEAN

Init ==
    /\ cache = [s \in Shas |-> Vacant]
    /\ mtMode = FALSE
    /\ heapF = {}
    /\ heapI = {}
    /\ dropF = [t \in Threads |-> {}]
    /\ dropI = [t \in Threads |-> {}]
    /\ creating = [t \in Threads |-> NoFactory]
    /\ held = [f \in Factories |-> 0]
    /\ parent = [i \in Instances |-> NoFactory]
    /\ disciplined = TRUE

-----------------------------------------------------------------------------
(* insert_or_acquire on an absent key: the candidate is boxed at a fresh      *)
(* address and enters the map with one external reference.                    *)
Insert(t, s, f) ==
    /\ Free(t)
    /\ ~Cached(s)
    /\ f \notin heapF
    /\ cache' = [cache EXCEPT ![s] = [factory |-> f, refs |-> 1, instances |-> {}]]
    /\ heapF' = heapF \cup {f}
    /\ held' = [held EXCEPT ![f] = 1]
    /\ UNCHANGED <<mtMode, heapI, dropF, dropI, creating, parent, disciplined>>

(* Mutant of Acquire: a lookup hands the factory out without counting it.     *)
AcquireUncounted(t, s) ==
    /\ Free(t)
    /\ Cached(s)
    /\ held[cache[s].factory] < MaxRefs
    /\ held' = [held EXCEPT ![cache[s].factory] = @ + 1]
    /\ UNCHANGED <<cache, mtMode, heapF, heapI, dropF, dropI, creating, parent, disciplined>>

(* insert_or_acquire on a present key, which drops the candidate, and         *)
(* lookup_acquire: one more reference to the same factory, unless the counter *)
(* is full.                                                                   *)
Acquire(t, s) ==
    /\ Free(t)
    /\ Cached(s)
    /\ cache[s].refs < MaxRefs
    /\ cache' = [cache EXCEPT ![s].refs = @ + 1]
    /\ held' = [held EXCEPT ![cache[s].factory] = @ + 1]
    /\ UNCHANGED <<mtMode, heapF, heapI, dropF, dropI, creating, parent, disciplined>>

(* A release of f leaves another handle, or no call on f is running: what a   *)
(* host does that keeps a handle across every call.                           *)
Orderly(f) == held[f] > 1 \/ \A t \in Threads : f \notin Using(t)

(* release with another handle outstanding: FactoryRelease::Retained.         *)
ReleaseRetained(t, s) ==
    /\ Free(t)
    /\ Cached(s)
    /\ held[cache[s].factory] > 0
    /\ cache[s].refs > 1
    /\ cache' = [cache EXCEPT ![s].refs = @ - 1]
    /\ held' = [held EXCEPT ![cache[s].factory] = @ - 1]
    /\ UNCHANGED <<mtMode, heapF, heapI, dropF, dropI, creating, parent, disciplined>>

(* Mutant of ReleaseLast: any release removes the entry.                      *)
ReleaseAny(t, s) ==
    /\ Free(t)
    /\ Cached(s)
    /\ held[cache[s].factory] > 0
    /\ cache' = [cache EXCEPT ![s] = Vacant]
    /\ held' = [held EXCEPT ![cache[s].factory] = @ - 1]
    /\ dropF' = [dropF EXCEPT ![t] = {cache[s].factory}]
    /\ dropI' = [dropI EXCEPT ![t] = cache[s].instances]
    /\ disciplined' = (disciplined /\ Orderly(cache[s].factory))
    /\ UNCHANGED <<mtMode, heapF, heapI, creating, parent>>

(* Mutant of ReleaseLast: the instances of the entry are forgotten.           *)
ReleaseFactoryOnly(t, s) ==
    /\ Free(t)
    /\ Cached(s)
    /\ held[cache[s].factory] > 0
    /\ cache[s].refs = 1
    /\ cache' = [cache EXCEPT ![s] = Vacant]
    /\ held' = [held EXCEPT ![cache[s].factory] = @ - 1]
    /\ dropF' = [dropF EXCEPT ![t] = {cache[s].factory}]
    /\ disciplined' = (disciplined /\ Orderly(cache[s].factory))
    /\ UNCHANGED <<mtMode, heapF, heapI, dropI, creating, parent>>

(* release of the last handle: FactoryRelease::Removed.  The entry leaves the *)
(* map under the mutex and is dropped after it.                               *)
ReleaseLast(t, s) ==
    /\ Free(t)
    /\ Cached(s)
    /\ held[cache[s].factory] > 0
    /\ cache[s].refs = 1
    /\ cache' = [cache EXCEPT ![s] = Vacant]
    /\ held' = [held EXCEPT ![cache[s].factory] = @ - 1]
    /\ dropF' = [dropF EXCEPT ![t] = {cache[s].factory}]
    /\ dropI' = [dropI EXCEPT ![t] = cache[s].instances]
    /\ disciplined' = (disciplined /\ Orderly(cache[s].factory))
    /\ UNCHANGED <<mtMode, heapF, heapI, creating, parent>>

(* Bound: the instances under way fit the addresses left.                     *)
RoomForInstance ==
    Cardinality(heapI) + Cardinality({t \in Threads : creating[t] # NoFactory})
        < Cardinality(Instances)

(* A call that creates or clones an instance reads the factory before it      *)
(* comes to the cache: create*DSPInstance up to cache_register_instance.      *)
BeginInstance(t, f) ==
    /\ Free(t)
    /\ RoomForInstance
    /\ held[f] > 0
    /\ creating' = [creating EXCEPT ![t] = f]
    /\ UNCHANGED <<cache, mtMode, heapF, heapI, dropF, dropI, held, parent, disciplined>>

(* register_instance with the factory in the map: the instance is boxed and   *)
(* joins the entry.                                                           *)
Register(t, s, i) ==
    /\ creating[t] # NoFactory
    /\ Cached(s)
    /\ cache[s].factory = creating[t]
    /\ i \notin heapI
    /\ cache' = [cache EXCEPT ![s].instances = @ \cup {i}]
    /\ heapI' = heapI \cup {i}
    /\ parent' = [parent EXCEPT ![i] = creating[t]]
    /\ creating' = [creating EXCEPT ![t] = NoFactory]
    /\ UNCHANGED <<mtMode, heapF, dropF, dropI, held, disciplined>>

(* register_instance with the factory gone: the instance, which was never     *)
(* boxed, is dropped and the host receives null.                              *)
RegisterMissed(t) ==
    /\ creating[t] # NoFactory
    /\ creating[t] \notin CachedFactories
    /\ creating' = [creating EXCEPT ![t] = NoFactory]
    /\ UNCHANGED <<cache, mtMode, heapF, heapI, dropF, dropI, held, parent, disciplined>>

(* remove_instance: the instance leaves its entry under the mutex and is      *)
(* dropped after it.                                                          *)
RemoveInstance(t, s, i) ==
    /\ Free(t)
    /\ Cached(s)
    /\ i \in cache[s].instances
    /\ cache' = [cache EXCEPT ![s].instances = @ \ {i}]
    /\ dropI' = [dropI EXCEPT ![t] = {i}]
    /\ UNCHANGED <<mtMode, heapF, heapI, dropF, creating, held, parent, disciplined>>

(* clear: every entry leaves the map and is dropped after the mutex; all      *)
(* handles the host holds are void.                                           *)
Clear(t) ==
    /\ Free(t)
    /\ cache' = [s \in Shas |-> Vacant]
    /\ held' = [f \in Factories |-> 0]
    /\ dropF' = [dropF EXCEPT ![t] = CachedFactories]
    /\ dropI' = [dropI EXCEPT ![t] = CachedInstances]
    /\ disciplined' = (disciplined /\ \A u \in Threads : Free(u))
    /\ UNCHANGED <<mtMode, heapF, heapI, creating, parent>>

(* start_mt and stop_mt.                                                      *)
SetMtMode(t, b) ==
    /\ Free(t)
    /\ mtMode' = b
    /\ UNCHANGED <<cache, heapF, heapI, dropF, dropI, creating, held, parent, disciplined>>

-----------------------------------------------------------------------------
(* Mutant of DropInstance: an instance waits for its factory to go first.     *)
DropInstanceWithFactory(t, i) ==
    /\ i \in dropI[t]
    /\ parent[i] \notin CachedFactories
    /\ heapI' = heapI \ {i}
    /\ dropI' = [dropI EXCEPT ![t] = @ \ {i}]
    /\ UNCHANGED <<cache, mtMode, heapF, dropF, creating, held, parent, disciplined>>

(* Mutant of DropFactory: the fields of the entry in the other order.         *)
DropFactoryFirst(t, f) ==
    /\ f \in dropF[t]
    /\ heapF' = heapF \ {f}
    /\ dropF' = [dropF EXCEPT ![t] = @ \ {f}]
    /\ UNCHANGED <<cache, mtMode, heapI, dropI, creating, held, parent, disciplined>>

(* drop(removed) after drop(guard): the instances of an entry in any order,   *)
(* then its factory, as the field order of FactoryEntry has it.               *)
DropInstance(t, i) ==
    /\ i \in dropI[t]
    /\ heapI' = heapI \ {i}
    /\ dropI' = [dropI EXCEPT ![t] = @ \ {i}]
    /\ UNCHANGED <<cache, mtMode, heapF, dropF, creating, held, parent, disciplined>>

DropFactory(t, f) ==
    /\ f \in dropF[t]
    /\ \A i \in dropI[t] : parent[i] # f
    /\ heapF' = heapF \ {f}
    /\ dropF' = [dropF EXCEPT ![t] = @ \ {f}]
    /\ UNCHANGED <<cache, mtMode, heapI, dropI, creating, held, parent, disciplined>>

Call(t) ==
    \/ \E s \in Shas, f \in Factories : Insert(t, s, f)
    \/ \E s \in Shas : Acquire(t, s) \/ ReleaseRetained(t, s) \/ ReleaseLast(t, s)
    \/ \E f \in Factories : BeginInstance(t, f)
    \/ \E s \in Shas, i \in Instances : RemoveInstance(t, s, i)
    \/ Clear(t)
    \/ \E b \in BOOLEAN : SetMtMode(t, b)

Finish(t) ==
    \/ \E s \in Shas, i \in Instances : Register(t, s, i)
    \/ RegisterMissed(t)
    \/ \E i \in Instances : DropInstance(t, i)
    \/ \E f \in Factories : DropFactory(t, f)

Next == \E t \in Threads : Call(t) \/ Finish(t)

Spec == Init /\ [][Next]_vars

(* A thread that started a call runs it to its end; the host need not call.   *)
FairSpec == Spec /\ \A t \in Threads : WF_vars(Finish(t))

-----------------------------------------------------------------------------
(* The external reference count of an entry is the number of handles the host *)
(* holds on its factory, and a held handle is on a factory still in the map:  *)
(* `deletion returns Removed only for the last handle'.                       *)
RefsAreHandles ==
    /\ \A s \in Keys : cache[s].refs = held[cache[s].factory]
    /\ \A f \in Factories : held[f] > 0 => f \in CachedFactories

(* Every factory and every instance on the heap has exactly one owner, an     *)
(* entry of the map or a thread that is about to destroy it: nothing leaks,   *)
(* nothing is destroyed twice, whatever runs between removal and destruction. *)
HeapIsOwned ==
    /\ \A f \in Factories :
          f \in heapF <=> \/ \E s \in Keys : cache[s].factory = f
                         \/ \E t \in Threads : f \in dropF[t]
    /\ \A i \in Instances :
          i \in heapI <=> \/ \E s \in Keys : i \in cache[s].instances
                         \/ \E t \in Threads : i \in dropI[t]

OwnersAreApart ==
    /\ \A r, s \in Keys : r # s => /\ cache[r].factory # cache[s].factory
                                   /\ cache[r].instances \cap cache[s].instances = {}
    /\ \A t, u \in Threads : t # u => /\ dropF[t] \cap dropF[u] = {}
                                      /\ dropI[t] \cap dropI[u] = {}
    /\ \A s \in Keys, t \in Threads : /\ cache[s].factory \notin dropF[t]
                                     /\ cache[s].instances \cap dropI[t] = {}

OneOwner == HeapIsOwned /\ OwnersAreApart

(* The comment on FactoryEntry: instances are dropped "before their parent    *)
(* factory".  Every instance not yet destroyed has its factory on the heap.   *)
InstancesBeforeFactory ==
    \A i \in heapI : parent[i] \in heapF

(* So it is for a host that keeps a handle on the factory across every call:  *)
(* an instance's destructor may read the factory it came from, whichever      *)
(* threads destroy the two.                                                   *)
DestructorsFindFactory == disciplined => InstancesBeforeFactory

(* And the factory a call builds an instance for stays in the map until the   *)
(* instance is registered, so the creation does not come back null.           *)
CreationFindsFactory ==
    disciplined =>
        \A t \in Threads : creating[t] # NoFactory => creating[t] \in CachedFactories

(* What a host gains that keeps a handle on the factory across every call: no *)
(* destructor and no creation ever meets a factory that is gone.              *)
HostDisciplineSuffices == DestructorsFindFactory /\ CreationFindsFactory

(* While some handle on a factory stays held, its key keeps naming that       *)
(* factory: a lookup never switches a host to another object.                 *)
StableWhileHeld ==
    [][\A s \in Keys : held'[cache[s].factory] > 0 => cache'[s].factory = cache[s].factory]_vars

(* A thread that took objects out of the map destroys them all.               *)
RemovedIsDestroyed ==
    \A t \in Threads : (dropF[t] \cup dropI[t] # {}) ~> (dropF[t] \cup dropI[t] = {})
=============================================================================
