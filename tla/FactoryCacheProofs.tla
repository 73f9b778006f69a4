------------------------- MODULE FactoryCacheProofs -------------------------
(* What FactoryCache guarantees for every number of threads, keys, addresses  *)
(* and handles.                                                               *)
(*                                                                            *)
(* RefsAreHandles is not inductive alone.  That a count follows its own       *)
(* handles only needs two keys never to name one factory, which needs a fresh *)
(* address to be unused by the map, which needs OneOwner: an address leaves   *)
(* the heap only when no entry and no other thread has it.                    *)
EXTENDS FactoryCache, TLAPS

KeysHaveFactories == \A s \in Keys : cache[s].factory \in Factories

Inv ==
    /\ TypeOK
    /\ KeysHaveFactories
    /\ RefsAreHandles
    /\ OneOwner

(* The entry of an absent key has the type of an entry.                       *)
LEMMA VacantIsEntry == Vacant \in Entry
  BY MaxRefsAssumption DEF Vacant, Entry

(* The empty cache satisfies the invariant.                                   *)
LEMMA InitInv == Init => Inv
  <1> SUFFICES ASSUME Init PROVE Inv
    OBVIOUS
  <1>1. TypeOK
    <2>1. Vacant \in Entry
      BY VacantIsEntry
    <2>2. cache \in [Shas -> Entry]
      BY <2>1 DEF Init
    <2>3. 0 \in 0 .. MaxRefs
      BY MaxRefsAssumption
    <2> QED
      BY <2>2, <2>3 DEF Init, TypeOK
  <1>2. Keys = {}
    BY MaxRefsAssumption DEF Init, Keys, Cached, Vacant
  <1>3. KeysHaveFactories /\ RefsAreHandles
    BY <1>2 DEF Init, KeysHaveFactories, RefsAreHandles
  <1>4. OneOwner
    BY <1>2 DEF Init, OneOwner, HeapIsOwned, OwnersAreApart
  <1> QED
    BY <1>1, <1>3, <1>4 DEF Inv

(* Inserting a factory at an address off the heap.                            *)
LEMMA InsertInv ==
  ASSUME Inv, NEW t \in Threads, NEW s \in Shas, NEW f \in Factories, Insert(t, s, f)
  PROVE  Inv'
  <1> USE DEF Inv, Insert
  <1>1. TypeOK'
    BY MaxRefsAssumption DEF TypeOK, Entry
  <1>2. Keys' = Keys \cup {s} /\ s \notin Keys
    BY DEF TypeOK, Keys, Cached
  <1>3. \A r \in Keys : cache'[r] = cache[r] /\ r # s
    BY <1>2 DEF TypeOK, Keys
  <1>4. cache'[s] = [factory |-> f, refs |-> 1, instances |-> {}]
    BY DEF TypeOK
  <1>5. \A r \in Keys : cache[r].factory # f
    BY DEF OneOwner, HeapIsOwned
  <1>6. KeysHaveFactories'
    BY <1>2, <1>3, <1>4 DEF KeysHaveFactories
  <1>7. RefsAreHandles'
    BY <1>2, <1>3, <1>4, <1>5 DEF RefsAreHandles, TypeOK, KeysHaveFactories, CachedFactories
  <1>8. HeapIsOwned'
    BY <1>2, <1>3, <1>4 DEF OneOwner, HeapIsOwned
  <1>9. OwnersAreApart'
    BY <1>2, <1>3, <1>4, <1>5 DEF OneOwner, HeapIsOwned, OwnersAreApart
  <1> QED
    BY <1>1, <1>6, <1>7, <1>8, <1>9 DEF OneOwner

(* One more handle on a cached factory.                                       *)
LEMMA AcquireInv ==
  ASSUME Inv, NEW t \in Threads, NEW s \in Shas, Acquire(t, s)
  PROVE  Inv'
  <1> USE DEF Inv, Acquire
  <1>1. cache[s] \in Entry /\ cache'[s] = [cache[s] EXCEPT !.refs = @ + 1]
    BY DEF TypeOK
  <1>2. Keys' = Keys /\ s \in Keys
    BY <1>1 DEF TypeOK, Keys, Cached, Entry
  <1>3. /\ \A r \in Shas : r # s => cache'[r] = cache[r]
        /\ cache'[s].factory = cache[s].factory
        /\ cache'[s].instances = cache[s].instances
        /\ cache'[s].refs = cache[s].refs + 1
    BY <1>1 DEF TypeOK, Entry
  <1>4. Keys \subseteq Shas
    BY DEF Keys
  <1>5. cache[s].factory \in Factories /\ held[cache[s].factory] = cache[s].refs
    BY <1>2 DEF KeysHaveFactories, RefsAreHandles
  <1>6. TypeOK'
    <2>1. cache'[s] \in Entry
      BY <1>1, MaxRefsAssumption DEF Entry
    <2>2. cache' \in [Shas -> Entry]
      BY <1>1, <2>1 DEF TypeOK
    <2>3. held[cache[s].factory] + 1 \in 0 .. MaxRefs
      BY <1>1, <1>5, MaxRefsAssumption DEF Entry
    <2>4. held' \in [Factories -> 0 .. MaxRefs]
      BY <1>5, <2>3 DEF TypeOK
    <2> QED
      BY <2>2, <2>4 DEF TypeOK
  <1>7. KeysHaveFactories'
    BY <1>2, <1>3, <1>4 DEF KeysHaveFactories
  <1>8. RefsAreHandles'
    <2>1. \A r \in Keys : r # s => cache[r].factory # cache[s].factory
      BY <1>2 DEF OneOwner, OwnersAreApart
    <2>2. \A r \in Keys : cache'[r].refs = held'[cache'[r].factory]
      BY <1>2, <1>3, <1>4, <1>5, <2>1 DEF TypeOK, RefsAreHandles, KeysHaveFactories
    <2>3. CachedFactories' = CachedFactories
      BY <1>2, <1>3, <1>4 DEF CachedFactories
    <2>4. cache[s].factory \in CachedFactories
      BY <1>2 DEF CachedFactories
    <2> QED
      BY <1>2, <2>2, <2>3, <2>4 DEF RefsAreHandles, TypeOK
  <1>9. OneOwner'
    BY <1>2, <1>3, <1>4 DEF OneOwner, HeapIsOwned, OwnersAreApart
  <1> QED
    BY <1>6, <1>7, <1>8, <1>9

(* One handle fewer, others outstanding.                                      *)
LEMMA ReleaseRetainedInv ==
  ASSUME Inv, NEW t \in Threads, NEW s \in Shas, ReleaseRetained(t, s)
  PROVE  Inv'
  <1> USE DEF Inv, ReleaseRetained
  <1>1. cache[s] \in Entry /\ cache'[s] = [cache[s] EXCEPT !.refs = @ - 1]
    BY DEF TypeOK
  <1>2. Keys' = Keys /\ s \in Keys
    BY <1>1 DEF TypeOK, Keys, Cached, Entry
  <1>3. /\ \A r \in Shas : r # s => cache'[r] = cache[r]
        /\ cache'[s].factory = cache[s].factory
        /\ cache'[s].instances = cache[s].instances
        /\ cache'[s].refs = cache[s].refs - 1
    BY <1>1 DEF TypeOK, Entry
  <1>4. Keys \subseteq Shas
    BY DEF Keys
  <1>5. cache[s].factory \in Factories /\ held[cache[s].factory] = cache[s].refs
    BY <1>2 DEF KeysHaveFactories, RefsAreHandles
  <1>6. TypeOK'
    <2>1. cache'[s] \in Entry
      BY <1>1, MaxRefsAssumption DEF Entry
    <2>2. cache' \in [Shas -> Entry]
      BY <1>1, <2>1 DEF TypeOK
    <2>3. held[cache[s].factory] - 1 \in 0 .. MaxRefs
      BY <1>1, <1>5, MaxRefsAssumption DEF Entry
    <2>4. held' \in [Factories -> 0 .. MaxRefs]
      BY <1>5, <2>3 DEF TypeOK
    <2> QED
      BY <2>2, <2>4 DEF TypeOK
  <1>7. KeysHaveFactories'
    BY <1>2, <1>3, <1>4 DEF KeysHaveFactories
  <1>8. RefsAreHandles'
    <2>1. \A r \in Keys : r # s => cache[r].factory # cache[s].factory
      BY <1>2 DEF OneOwner, OwnersAreApart
    <2>2. \A r \in Keys : cache'[r].refs = held'[cache'[r].factory]
      BY <1>2, <1>3, <1>4, <1>5, <2>1 DEF TypeOK, RefsAreHandles, KeysHaveFactories
    <2>3. CachedFactories' = CachedFactories
      BY <1>2, <1>3, <1>4 DEF CachedFactories
    <2>4. cache[s].factory \in CachedFactories
      BY <1>2 DEF CachedFactories
    <2> QED
      BY <1>2, <2>2, <2>3, <2>4 DEF RefsAreHandles, TypeOK
  <1>9. OneOwner'
    BY <1>2, <1>3, <1>4 DEF OneOwner, HeapIsOwned, OwnersAreApart
  <1> QED
    BY <1>6, <1>7, <1>8, <1>9

(* The last handle: the entry moves from the map to the releasing thread.     *)
LEMMA ReleaseLastInv ==
  ASSUME Inv, NEW t \in Threads, NEW s \in Shas, ReleaseLast(t, s)
  PROVE  Inv'
  <1> USE DEF Inv, ReleaseLast
  <1>1. cache[s] \in Entry /\ cache'[s] = Vacant
    BY DEF TypeOK
  <1>2. Keys' = Keys \ {s} /\ s \in Keys
    BY <1>1 DEF TypeOK, Keys, Cached, Vacant
  <1>3. \A r \in Keys' : r \in Shas /\ r # s /\ cache'[r] = cache[r]
    BY <1>2 DEF TypeOK, Keys
  <1>4. dropF[t] = {} /\ dropI[t] = {}
    BY DEF Free
  <1>5. cache[s].factory \in Factories /\ held[cache[s].factory] = 1
    BY <1>2 DEF KeysHaveFactories, RefsAreHandles
  <1>6. TypeOK'
    <2>1. cache' \in [Shas -> Entry]
      BY VacantIsEntry DEF TypeOK
    <2>2. held' \in [Factories -> 0 .. MaxRefs]
      BY <1>5, MaxRefsAssumption DEF TypeOK
    <2>3. cache[s].instances \in SUBSET Instances
      BY <1>1 DEF Entry
    <2> QED
      BY <1>5, <2>1, <2>2, <2>3 DEF TypeOK
  <1>7. KeysHaveFactories'
    BY <1>2, <1>3 DEF KeysHaveFactories
  <1>8. RefsAreHandles'
    <2>1. \A r \in Keys' : cache[r].factory # cache[s].factory
      BY <1>2, <1>3 DEF OneOwner, OwnersAreApart
    <2>2. \A r \in Keys' : cache'[r].refs = held'[cache'[r].factory]
      BY <1>2, <1>3, <2>1 DEF TypeOK, RefsAreHandles, KeysHaveFactories
    <2>3. \A f \in Factories : held'[f] > 0 => f # cache[s].factory /\ held[f] > 0
      BY <1>5 DEF TypeOK
    <2>4. \A f \in Factories : held'[f] > 0 => f \in CachedFactories'
      BY <1>2, <1>3, <2>3 DEF RefsAreHandles, CachedFactories
    <2> QED
      BY <2>2, <2>4 DEF RefsAreHandles
  <1>9. /\ dropF'[t] = {cache[s].factory} /\ dropI'[t] = cache[s].instances
        /\ \A u \in Threads : u # t => dropF'[u] = dropF[u] /\ dropI'[u] = dropI[u]
    BY DEF TypeOK
  <1>10. HeapIsOwned'
    BY <1>2, <1>3, <1>4, <1>9 DEF OneOwner, HeapIsOwned
  <1>11. OwnersAreApart'
    BY <1>2, <1>3, <1>4, <1>9 DEF OneOwner, OwnersAreApart
  <1> QED
    BY <1>6, <1>7, <1>8, <1>10, <1>11 DEF OneOwner

(* A registered instance: a fresh address joins one entry.                    *)
LEMMA RegisterInv ==
  ASSUME Inv, NEW t \in Threads, NEW s \in Shas, NEW i \in Instances, Register(t, s, i)
  PROVE  Inv'
  <1> USE DEF Inv, Register
  <1>1. cache[s] \in Entry /\ cache'[s] = [cache[s] EXCEPT !.instances = @ \cup {i}]
    BY DEF TypeOK
  <1>2. Keys' = Keys /\ s \in Keys
    BY <1>1 DEF TypeOK, Keys, Cached, Entry
  <1>3. /\ \A r \in Shas : r # s => cache'[r] = cache[r]
        /\ cache'[s].factory = cache[s].factory
        /\ cache'[s].refs = cache[s].refs
        /\ cache'[s].instances = cache[s].instances \cup {i}
    BY <1>1 DEF TypeOK, Entry
  <1>4. Keys \subseteq Shas
    BY DEF Keys
  <1>5. TypeOK'
    <2>1. cache'[s] \in Entry
      BY <1>1 DEF Entry
    <2>2. cache' \in [Shas -> Entry]
      BY <1>1, <2>1 DEF TypeOK
    <2> QED
      BY <2>2 DEF TypeOK
  <1>6. KeysHaveFactories'
    BY <1>2, <1>3, <1>4 DEF KeysHaveFactories
  <1>7. RefsAreHandles'
    <2>1. CachedFactories' = CachedFactories
      BY <1>2, <1>3, <1>4 DEF CachedFactories
    <2> QED
      BY <1>2, <1>3, <1>4, <2>1 DEF RefsAreHandles
  <1>8. /\ \A r \in Keys : i \notin cache[r].instances
        /\ \A u \in Threads : i \notin dropI[u]
    BY DEF OneOwner, HeapIsOwned
  <1>9. HeapIsOwned'
    BY <1>2, <1>3, <1>4 DEF OneOwner, HeapIsOwned
  <1>10. OwnersAreApart'
    BY <1>2, <1>3, <1>4, <1>8 DEF OneOwner, OwnersAreApart
  <1> QED
    BY <1>5, <1>6, <1>7, <1>9, <1>10 DEF OneOwner

(* A removed instance moves from its entry to the removing thread.            *)
LEMMA RemoveInstanceInv ==
  ASSUME Inv, NEW t \in Threads, NEW s \in Shas, NEW i \in Instances, RemoveInstance(t, s, i)
  PROVE  Inv'
  <1> USE DEF Inv, RemoveInstance
  <1>1. cache[s] \in Entry /\ cache'[s] = [cache[s] EXCEPT !.instances = @ \ {i}]
    BY DEF TypeOK
  <1>2. Keys' = Keys /\ s \in Keys
    BY <1>1 DEF TypeOK, Keys, Cached, Entry
  <1>3. /\ \A r \in Shas : r # s => cache'[r] = cache[r]
        /\ cache'[s].factory = cache[s].factory
        /\ cache'[s].refs = cache[s].refs
        /\ cache'[s].instances = cache[s].instances \ {i}
    BY <1>1 DEF TypeOK, Entry
  <1>4. Keys \subseteq Shas
    BY DEF Keys
  <1>5. TypeOK'
    <2>1. cache'[s] \in Entry
      BY <1>1 DEF Entry
    <2>2. cache' \in [Shas -> Entry]
      BY <1>1, <2>1 DEF TypeOK
    <2> QED
      BY <2>2 DEF TypeOK
  <1>6. KeysHaveFactories'
    BY <1>2, <1>3, <1>4 DEF KeysHaveFactories
  <1>7. RefsAreHandles'
    <2>1. CachedFactories' = CachedFactories
      BY <1>2, <1>3, <1>4 DEF CachedFactories
    <2> QED
      BY <1>2, <1>3, <1>4, <2>1 DEF RefsAreHandles
  <1>8. /\ dropI[t] = {} /\ dropI'[t] = {i}
        /\ \A u \in Threads : u # t => dropI'[u] = dropI[u]
    BY DEF TypeOK, Free
  <1>9. HeapIsOwned'
    BY <1>2, <1>3, <1>4, <1>8 DEF OneOwner, HeapIsOwned
  <1>10. OwnersAreApart'
    BY <1>2, <1>3, <1>4, <1>8 DEF OneOwner, OwnersAreApart
  <1> QED
    BY <1>5, <1>6, <1>7, <1>9, <1>10 DEF OneOwner

(* All entries move from the map to the clearing thread.                      *)
LEMMA ClearInv ==
  ASSUME Inv, NEW t \in Threads, Clear(t)
  PROVE  Inv'
  <1> USE DEF Inv, Clear
  <1>1. Keys' = {}
    BY DEF Keys, Cached, Vacant
  <1>2. Keys \subseteq Shas /\ \A s \in Keys : cache[s] \in Entry
    BY DEF Keys, TypeOK
  <1>3. CachedFactories \subseteq Factories
    BY DEF CachedFactories, KeysHaveFactories
  <1>4. CachedInstances \subseteq Instances
    BY <1>2 DEF CachedInstances, Entry
  <1>5. TypeOK'
    <2>1. cache' \in [Shas -> Entry]
      BY VacantIsEntry
    <2>2. held' \in [Factories -> 0 .. MaxRefs]
      BY MaxRefsAssumption
    <2> QED
      BY <1>3, <1>4, <2>1, <2>2 DEF TypeOK
  <1>6. KeysHaveFactories' /\ RefsAreHandles'
    BY <1>1 DEF KeysHaveFactories, RefsAreHandles
  <1>7. /\ dropF'[t] = CachedFactories /\ dropI'[t] = CachedInstances
        /\ dropF[t] = {} /\ dropI[t] = {}
        /\ \A u \in Threads : u # t => dropF'[u] = dropF[u] /\ dropI'[u] = dropI[u]
    BY DEF TypeOK, Free
  <1>8. \A f : f \in CachedFactories <=> \E s \in Keys : cache[s].factory = f
    BY DEF CachedFactories
  <1>9. \A i : i \in CachedInstances <=> \E s \in Keys : i \in cache[s].instances
    BY DEF CachedInstances
  <1>10. HeapIsOwned'
    BY <1>1, <1>7, <1>8, <1>9 DEF OneOwner, HeapIsOwned
  <1>11. OwnersAreApart'
    BY <1>1, <1>7, <1>8, <1>9 DEF OneOwner, OwnersAreApart
  <1> QED
    BY <1>5, <1>6, <1>10, <1>11 DEF OneOwner

(* Destroying an instance frees an address nothing else names.                *)
LEMMA DropInstanceInv ==
  ASSUME Inv, NEW t \in Threads, NEW i \in Instances, DropInstance(t, i)
  PROVE  Inv'
  <1> USE DEF Inv, DropInstance
  <1>1. TypeOK'
    BY DEF TypeOK
  <1>2. Keys' = Keys
    BY DEF Keys, Cached
  <1>3. KeysHaveFactories' /\ RefsAreHandles'
    BY <1>2 DEF KeysHaveFactories, RefsAreHandles, CachedFactories
  <1>4. /\ dropI'[t] = dropI[t] \ {i}
        /\ \A u \in Threads : u # t => dropI'[u] = dropI[u]
    BY DEF TypeOK
  <1>5. HeapIsOwned'
    BY <1>2, <1>4 DEF OneOwner, HeapIsOwned, OwnersAreApart
  <1>6. OwnersAreApart'
    BY <1>2, <1>4 DEF OneOwner, OwnersAreApart
  <1> QED
    BY <1>1, <1>3, <1>5, <1>6 DEF OneOwner

(* Destroying a factory frees an address nothing else names.                  *)
LEMMA DropFactoryInv ==
  ASSUME Inv, NEW t \in Threads, NEW f \in Factories, DropFactory(t, f)
  PROVE  Inv'
  <1> USE DEF Inv, DropFactory
  <1>1. TypeOK'
    BY DEF TypeOK
  <1>2. Keys' = Keys
    BY DEF Keys, Cached
  <1>3. KeysHaveFactories' /\ RefsAreHandles'
    BY <1>2 DEF KeysHaveFactories, RefsAreHandles, CachedFactories
  <1>4. /\ dropF'[t] = dropF[t] \ {f}
        /\ \A u \in Threads : u # t => dropF'[u] = dropF[u]
    BY DEF TypeOK
  <1>5. HeapIsOwned'
    BY <1>2, <1>4 DEF OneOwner, HeapIsOwned, OwnersAreApart
  <1>6. OwnersAreApart'
    BY <1>2, <1>4 DEF OneOwner, OwnersAreApart
  <1> QED
    BY <1>1, <1>3, <1>5, <1>6 DEF OneOwner

(* The steps that leave the map, the heap and the handles alone.              *)
LEMMA OtherInv ==
  ASSUME Inv,
         UNCHANGED <<cache, heapF, heapI, dropF, dropI, held, parent>>,
         mtMode' \in BOOLEAN,
         disciplined' \in BOOLEAN,
         creating' \in [Threads -> Factories \cup {NoFactory}]
  PROVE  Inv'
  <1>1. Keys' = Keys /\ CachedFactories' = CachedFactories
    BY DEF Keys, Cached, CachedFactories
  <1> QED
    BY <1>1 DEF Inv, TypeOK, KeysHaveFactories, RefsAreHandles,
                OneOwner, HeapIsOwned, OwnersAreApart

(* Every step preserves the invariant.                                        *)
LEMMA NextInv == Inv /\ [Next]_vars => Inv'
  <1> SUFFICES ASSUME Inv, [Next]_vars PROVE Inv'
    OBVIOUS
  <1>1. CASE UNCHANGED vars
    BY <1>1, OtherInv DEF vars, Inv, TypeOK
  <1>2. ASSUME NEW t \in Threads, Call(t) PROVE Inv'
    <2>1. CASE \E s \in Shas, f \in Factories : Insert(t, s, f)
      BY <2>1, InsertInv
    <2>2. CASE \E s \in Shas : Acquire(t, s) \/ ReleaseRetained(t, s) \/ ReleaseLast(t, s)
      BY <2>2, AcquireInv, ReleaseRetainedInv, ReleaseLastInv
    <2>3. CASE \E f \in Factories : BeginInstance(t, f)
      BY <2>3, OtherInv DEF BeginInstance, Inv, TypeOK
    <2>4. CASE \E s \in Shas, i \in Instances : RemoveInstance(t, s, i)
      BY <2>4, RemoveInstanceInv
    <2>5. CASE Clear(t)
      BY <2>5, ClearInv
    <2>6. CASE \E b \in BOOLEAN : SetMtMode(t, b)
      BY <2>6, OtherInv DEF SetMtMode, Inv, TypeOK
    <2> QED
      BY <1>2, <2>1, <2>2, <2>3, <2>4, <2>5, <2>6 DEF Call
  <1>3. ASSUME NEW t \in Threads, Finish(t) PROVE Inv'
    <2>1. CASE \E s \in Shas, i \in Instances : Register(t, s, i)
      BY <2>1, RegisterInv
    <2>2. CASE RegisterMissed(t)
      BY <2>2, OtherInv DEF RegisterMissed, Inv, TypeOK
    <2>3. CASE \E i \in Instances : DropInstance(t, i)
      BY <2>3, DropInstanceInv
    <2>4. CASE \E f \in Factories : DropFactory(t, f)
      BY <2>4, DropFactoryInv
    <2> QED
      BY <1>3, <2>1, <2>2, <2>3, <2>4 DEF Finish
  <1> QED
    BY <1>1, <1>2, <1>3 DEF Next

(* The cache's counters, handles and owners stay consistent in every          *)
(* behaviour, for any number of threads, keys and addresses.                  *)
THEOREM InvHolds == Spec => []Inv
  BY InitInv, NextInv, PTL DEF Spec

(* The variables keep their types; in particular no reference count passes    *)
(* usize::MAX or goes below zero.                                             *)
THEOREM TypeCorrect == Spec => []TypeOK
  <1>1. Inv => TypeOK
    BY DEF Inv
  <1> QED
    BY <1>1, InvHolds, PTL

(* A factory's reference count is the number of handles the host holds on it, *)
(* and no held handle dangles.                                                *)
THEOREM RefsAreHandlesHolds == Spec => []RefsAreHandles
  <1>1. Inv => RefsAreHandles
    BY DEF Inv
  <1> QED
    BY <1>1, InvHolds, PTL

(* Every factory and instance on the heap has exactly one owner.              *)
THEOREM OneOwnerHolds == Spec => []OneOwner
  <1>1. Inv => OneOwner
    BY DEF Inv
  <1> QED
    BY <1>1, InvHolds, PTL

-----------------------------------------------------------------------------
(* What a disciplined host gains: the lifetime of an instance lies within the *)
(* lifetime of its factory, also while a thread still destroys the instance.  *)

InstancesAtHome == \A s \in Keys : \A i \in cache[s].instances : parent[i] = cache[s].factory

(* An instance under destruction has a factory that is in the map or that the *)
(* same thread destroys next.                                                 *)
DroppedKeepFactory ==
    \A t \in Threads : \A i \in dropI[t] : parent[i] \in dropF[t] \/ parent[i] \in CachedFactories

(* Every factory an instance is under construction for is in the map.         *)
CreationsFind == \A t \in Threads : creating[t] # NoFactory => creating[t] \in CachedFactories

LifetimeInv ==
    /\ Inv
    /\ InstancesAtHome
    /\ CreationsFind
    /\ DroppedKeepFactory

(* Initially nothing is alive.                                                *)
LEMMA InitLifetime == Init => LifetimeInv
  <1> SUFFICES ASSUME Init PROVE LifetimeInv
    OBVIOUS
  <1>1. Inv
    BY InitInv
  <1>2. Keys = {}
    BY MaxRefsAssumption DEF Init, Keys, Cached, Vacant
  <1> QED
    BY <1>1, <1>2 DEF Init, LifetimeInv, InstancesAtHome, CreationsFind, DroppedKeepFactory

(* Counting a handle changes no entry's factory and no entry's instances.     *)
LEMMA CountingKeepsEntries ==
  ASSUME Inv, NEW t \in Threads, NEW s \in Shas, Acquire(t, s) \/ ReleaseRetained(t, s)
  PROVE  /\ Keys' = Keys
         /\ \A r \in Keys : /\ cache'[r].factory = cache[r].factory
                            /\ cache'[r].instances = cache[r].instances
  <1>1. cache[s] \in Entry /\ cache \in [Shas -> Entry]
    BY DEF Inv, TypeOK
  <1>2. CASE Acquire(t, s)
    <2>1. cache' = [cache EXCEPT ![s] = [cache[s] EXCEPT !.refs = cache[s].refs + 1]]
      BY <1>2 DEF Acquire
    <2>2. cache[s].refs > 0
      BY <1>2 DEF Acquire, Cached
    <2> QED
      BY <1>1, <2>1, <2>2 DEF Entry, Keys, Cached
  <1>3. CASE ReleaseRetained(t, s)
    <2>1. cache' = [cache EXCEPT ![s] = [cache[s] EXCEPT !.refs = cache[s].refs - 1]]
      BY <1>3 DEF ReleaseRetained
    <2>2. cache[s].refs > 1
      BY <1>3 DEF ReleaseRetained
    <2> QED
      BY <1>1, <2>1, <2>2 DEF Entry, Keys, Cached
  <1> QED
    BY <1>2, <1>3

(* A step that leaves the entries' factories and instances, the instances     *)
(* under destruction and the calls under way alone keeps the lifetimes.       *)
LEMMA LifetimeFrame ==
  ASSUME LifetimeInv, Inv', Keys' = Keys,
         \A s \in Keys : /\ cache'[s].factory = cache[s].factory
                         /\ cache'[s].instances = cache[s].instances,
         UNCHANGED <<dropF, dropI, creating, parent>>
  PROVE  LifetimeInv'
  <1>1. CachedFactories' = CachedFactories
    BY DEF CachedFactories
  <1> QED
    BY <1>1 DEF LifetimeInv, InstancesAtHome, CreationsFind, DroppedKeepFactory

(* A new entry has no instances and takes no factory out of the map.          *)
LEMMA InsertLifetime ==
  ASSUME LifetimeInv, NEW t \in Threads, NEW s \in Shas, NEW f \in Factories, Insert(t, s, f)
  PROVE  LifetimeInv'
  <1> USE DEF LifetimeInv, Insert
  <1>1. Inv'
    BY InsertInv
  <1>2. Keys' = Keys \cup {s} /\ s \notin Keys
    BY DEF Inv, TypeOK, Keys, Cached
  <1>3. \A r \in Keys : cache'[r] = cache[r] /\ r # s
    BY <1>2 DEF Inv, TypeOK, Keys
  <1>4. cache'[s] = [factory |-> f, refs |-> 1, instances |-> {}]
    BY DEF Inv, TypeOK
  <1>5. CachedFactories \subseteq CachedFactories'
    BY <1>2, <1>3 DEF CachedFactories
  <1> QED
    BY <1>1, <1>2, <1>3, <1>4, <1>5
       DEF InstancesAtHome, CreationsFind, DroppedKeepFactory

(* The last handle of a factory is released only when no call works on it.    *)
LEMMA ReleaseLastLifetime ==
  ASSUME disciplined', LifetimeInv, NEW t \in Threads, NEW s \in Shas, ReleaseLast(t, s)
  PROVE  LifetimeInv'
  <1> USE DEF LifetimeInv, ReleaseLast
  <1> DEFINE g == cache[s].factory
  <1>1. Inv'
    BY ReleaseLastInv
  <1>2. Keys' = Keys \ {s} /\ s \in Keys
    BY DEF Inv, TypeOK, Keys, Cached, Vacant
  <1>3. \A r \in Keys' : r \in Shas /\ r # s /\ cache'[r] = cache[r]
    BY <1>2 DEF Inv, TypeOK, Keys
  <1>4. held[g] = 1 /\ g \in Factories
    BY <1>2 DEF Inv, RefsAreHandles, KeysHaveFactories
  <1>5. \A u \in Threads : g \notin Using(u)
    <2>1. disciplined' = (disciplined /\ Orderly(g))
      OBVIOUS
    <2>2. Orderly(g)
      BY <2>1
    <2>3. ~(held[g] > 1)
      BY <1>4
    <2> QED
      BY <2>2, <2>3 DEF Orderly
  <1>6. \A u \in Threads : creating[u] # g /\ \A i \in dropI[u] : parent[i] # g
    BY <1>5 DEF Using
  <1>7. \A f \in CachedFactories : f # g => f \in CachedFactories'
    BY <1>2, <1>3 DEF CachedFactories
  <1>8. /\ dropF'[t] = {g} /\ dropI'[t] = cache[s].instances
        /\ \A u \in Threads : u # t => dropF'[u] = dropF[u] /\ dropI'[u] = dropI[u]
    BY DEF Inv, TypeOK
  <1>9. InstancesAtHome'
    BY <1>2, <1>3 DEF InstancesAtHome
  <1>10. CreationsFind'
    BY <1>6, <1>7 DEF CreationsFind
  <1>11. DroppedKeepFactory'
    BY <1>2, <1>6, <1>7, <1>8 DEF DroppedKeepFactory, InstancesAtHome
  <1> QED
    BY <1>1, <1>9, <1>10, <1>11

(* The registered instance has its factory in the map.                        *)
LEMMA RegisterLifetime ==
  ASSUME LifetimeInv, NEW t \in Threads, NEW s \in Shas, NEW i \in Instances, Register(t, s, i)
  PROVE  LifetimeInv'
  <1> USE DEF LifetimeInv, Register
  <1>1. Inv'
    BY RegisterInv
  <1>2. /\ \A r \in Shas : r # s => cache'[r] = cache[r]
        /\ cache'[s].factory = cache[s].factory
        /\ cache'[s].refs = cache[s].refs
        /\ cache'[s].instances = cache[s].instances \cup {i}
    BY DEF Inv, TypeOK, Entry
  <1>3. Keys' = Keys /\ Keys \subseteq Shas /\ s \in Keys
    BY <1>2 DEF Keys, Cached
  <1>4. CachedFactories' = CachedFactories
    BY <1>2, <1>3 DEF CachedFactories
  <1>5. /\ \A r \in Keys : i \notin cache[r].instances
        /\ \A u \in Threads : i \notin dropI[u]
    BY DEF Inv, OneOwner, HeapIsOwned
  <1>6. parent'[i] = creating[t] /\ \A j \in Instances : j # i => parent'[j] = parent[j]
    BY DEF Inv, TypeOK
  <1>7. \A r \in Keys : cache[r].instances \subseteq Instances
    BY <1>3 DEF Inv, TypeOK, Entry
  <1>8. InstancesAtHome'
    BY <1>2, <1>3, <1>5, <1>6, <1>7 DEF InstancesAtHome
  <1>9. CreationsFind'
    BY <1>4 DEF CreationsFind, Inv, TypeOK
  <1>10. DroppedKeepFactory'
    BY <1>4, <1>5, <1>6 DEF DroppedKeepFactory, Inv, TypeOK
  <1> QED
    BY <1>1, <1>8, <1>9, <1>10

(* A removed instance leaves its factory in the map.                          *)
LEMMA RemoveInstanceLifetime ==
  ASSUME LifetimeInv, NEW t \in Threads, NEW s \in Shas, NEW i \in Instances,
         RemoveInstance(t, s, i)
  PROVE  LifetimeInv'
  <1> USE DEF LifetimeInv, RemoveInstance
  <1>1. Inv'
    BY RemoveInstanceInv
  <1>2. /\ \A r \in Shas : r # s => cache'[r] = cache[r]
        /\ cache'[s].factory = cache[s].factory
        /\ cache'[s].refs = cache[s].refs
        /\ cache'[s].instances = cache[s].instances \ {i}
    BY DEF Inv, TypeOK, Entry
  <1>3. Keys' = Keys /\ Keys \subseteq Shas /\ s \in Keys
    BY <1>2 DEF Keys, Cached
  <1>4. CachedFactories' = CachedFactories
    BY <1>2, <1>3 DEF CachedFactories
  <1>5. parent[i] \in CachedFactories
    BY <1>3 DEF InstancesAtHome, CachedFactories
  <1>6. dropI'[t] = {i} /\ \A u \in Threads : u # t => dropI'[u] = dropI[u]
    BY DEF Inv, TypeOK
  <1>7. InstancesAtHome'
    BY <1>2, <1>3 DEF InstancesAtHome
  <1>8. CreationsFind'
    BY <1>4 DEF CreationsFind
  <1>9. DroppedKeepFactory'
    BY <1>4, <1>5, <1>6 DEF DroppedKeepFactory
  <1> QED
    BY <1>1, <1>7, <1>8, <1>9

(* A disciplined host clears only when no call is under way.                  *)
LEMMA ClearLifetime ==
  ASSUME disciplined', LifetimeInv, NEW t \in Threads, Clear(t)
  PROVE  LifetimeInv'
  <1> USE DEF LifetimeInv, Clear
  <1>1. Inv'
    BY ClearInv
  <1>2. Keys' = {}
    BY DEF Keys, Cached, Vacant
  <1>3. \A u \in Threads : creating[u] = NoFactory /\ dropI[u] = {}
    BY DEF Free
  <1>4. dropI'[t] = CachedInstances /\ dropF'[t] = CachedFactories
    BY DEF Inv, TypeOK
  <1>5. \A u \in Threads : u # t => dropI'[u] = {}
    BY <1>3 DEF Inv, TypeOK
  <1>6. \A i \in CachedInstances : parent[i] \in CachedFactories
    BY DEF CachedInstances, CachedFactories, InstancesAtHome
  <1>7. DroppedKeepFactory'
    BY <1>4, <1>5, <1>6 DEF DroppedKeepFactory
  <1> QED
    BY <1>1, <1>2, <1>3, <1>7 DEF InstancesAtHome, CreationsFind

(* Steps that end a call.                                                     *)
LEMMA FinishLifetime ==
  ASSUME LifetimeInv, Inv', NEW t \in Threads,
         \/ RegisterMissed(t)
         \/ \E i \in Instances : DropInstance(t, i)
         \/ \E f \in Factories : DropFactory(t, f)
  PROVE  LifetimeInv'
  <1>1. Keys' = Keys /\ CachedFactories' = CachedFactories /\ cache' = cache /\ parent' = parent
    BY DEF RegisterMissed, DropInstance, DropFactory, Keys, Cached, CachedFactories
  <1>2. InstancesAtHome'
    BY <1>1 DEF LifetimeInv, InstancesAtHome
  <1>3. CreationsFind'
    BY <1>1 DEF LifetimeInv, CreationsFind, RegisterMissed, DropInstance, DropFactory,
                Inv, TypeOK
  <1>4. DroppedKeepFactory'
    <2>1. CASE RegisterMissed(t)
      BY <1>1, <2>1 DEF LifetimeInv, DroppedKeepFactory, RegisterMissed
    <2>2. ASSUME NEW i \in Instances, DropInstance(t, i) PROVE DroppedKeepFactory'
      BY <1>1, <2>2 DEF LifetimeInv, DroppedKeepFactory, DropInstance, Inv, TypeOK
    <2>3. ASSUME NEW f \in Factories, DropFactory(t, f) PROVE DroppedKeepFactory'
      BY <1>1, <2>3 DEF LifetimeInv, DroppedKeepFactory, DropFactory, Inv, TypeOK
    <2> QED
      BY <2>1, <2>2, <2>3
  <1> QED
    BY <1>2, <1>3, <1>4 DEF LifetimeInv

(* Every step of a disciplined host keeps the lifetimes.                      *)
LEMMA NextLifetime == disciplined' /\ LifetimeInv /\ [Next]_vars => LifetimeInv'
  <1> SUFFICES ASSUME disciplined', LifetimeInv, [Next]_vars PROVE LifetimeInv'
    OBVIOUS
  <1>1. Inv'
    BY NextInv DEF LifetimeInv
  <1>2. CASE UNCHANGED vars
    BY <1>1, <1>2, LifetimeFrame DEF vars, Keys, Cached
  <1>3. ASSUME NEW t \in Threads, Call(t) PROVE LifetimeInv'
    <2>1. CASE \E s \in Shas, f \in Factories : Insert(t, s, f)
      BY <2>1, InsertLifetime
    <2>2. ASSUME NEW s \in Shas, Acquire(t, s) \/ ReleaseRetained(t, s) PROVE LifetimeInv'
      <3>1. Keys' = Keys /\ \A r \in Keys : /\ cache'[r].factory = cache[r].factory
                                            /\ cache'[r].instances = cache[r].instances
        BY <2>2, CountingKeepsEntries DEF LifetimeInv
      <3> QED
        BY <1>1, <2>2, <3>1, LifetimeFrame DEF Acquire, ReleaseRetained
    <2>3. CASE \E s \in Shas : ReleaseLast(t, s)
      BY <2>3, ReleaseLastLifetime
    <2>4. ASSUME NEW f \in Factories, BeginInstance(t, f) PROVE LifetimeInv'
      <3>1. f \in CachedFactories
        BY <2>4 DEF BeginInstance, LifetimeInv, Inv, RefsAreHandles
      <3>2. CachedFactories' = CachedFactories /\ Keys' = Keys
        BY <2>4 DEF BeginInstance, CachedFactories, Keys, Cached
      <3> QED
        BY <1>1, <2>4, <3>1, <3>2
           DEF BeginInstance, LifetimeInv, InstancesAtHome, CreationsFind,
               DroppedKeepFactory, Inv, TypeOK
    <2>5. CASE \E s \in Shas, i \in Instances : RemoveInstance(t, s, i)
      BY <2>5, RemoveInstanceLifetime
    <2>6. CASE Clear(t)
      BY <2>6, ClearLifetime
    <2>7. CASE \E b \in BOOLEAN : SetMtMode(t, b)
      BY <1>1, <2>7, LifetimeFrame DEF SetMtMode, Keys, Cached
    <2> QED
      BY <1>3, <2>1, <2>2, <2>3, <2>4, <2>5, <2>6, <2>7 DEF Call
  <1>4. ASSUME NEW t \in Threads, Finish(t) PROVE LifetimeInv'
    BY <1>1, <1>4, RegisterLifetime, FinishLifetime DEF Finish
  <1> QED
    BY <1>2, <1>3, <1>4 DEF Next

(* The inductive invariant of any host, disciplined so far or not.            *)
HostInv == Inv /\ (disciplined => LifetimeInv)

(* A host once out of discipline stays so: the history never turns back.      *)
LEMMA NextHost == HostInv /\ [Next]_vars => HostInv'
  <1> SUFFICES ASSUME HostInv, [Next]_vars PROVE HostInv'
    OBVIOUS
  <1>1. Inv'
    BY NextInv DEF HostInv
  <1>2. disciplined' => disciplined
    BY DEF vars, Next, Call, Finish, Insert, Acquire, ReleaseRetained, ReleaseLast, BeginInstance,
           RemoveInstance, Clear, SetMtMode, Register, RegisterMissed, DropInstance, DropFactory
  <1>3. ASSUME disciplined' PROVE LifetimeInv'
    BY <1>2, <1>3, NextLifetime DEF HostInv
  <1> QED
    BY <1>1, <1>3 DEF HostInv

LEMMA HostInvHolds == Spec => []HostInv
  <1>1. Init => HostInv
    BY InitLifetime DEF HostInv, LifetimeInv
  <1> QED
    BY <1>1, NextHost, PTL DEF Spec

(* With every factory handle kept across the calls that use it, an instance   *)
(* is destroyed before its factory, whichever threads destroy the two: the    *)
(* order FactoryEntry's fields give within one entry holds in the whole cache.*)
THEOREM DestructorsFindFactoryHolds == Spec => []DestructorsFindFactory
  <1>1. LifetimeInv => InstancesBeforeFactory
    <2> SUFFICES ASSUME LifetimeInv, NEW i \in heapI PROVE parent[i] \in heapF
      BY DEF InstancesBeforeFactory
    <2>1. i \in Instances
      BY DEF LifetimeInv, Inv, TypeOK
    <2>2. CachedFactories \subseteq heapF
      BY DEF LifetimeInv, Inv, KeysHaveFactories, CachedFactories, OneOwner, HeapIsOwned
    <2>3. CASE \E s \in Keys : i \in cache[s].instances
      BY <2>2, <2>3 DEF LifetimeInv, InstancesAtHome, CachedFactories
    <2>4. CASE \E t \in Threads : i \in dropI[t]
      <3>1. \A t \in Threads : dropF[t] \subseteq heapF
        BY DEF LifetimeInv, Inv, TypeOK, OneOwner, HeapIsOwned
      <3> QED
        BY <2>2, <2>4, <3>1 DEF LifetimeInv, DroppedKeepFactory
    <2> QED
      BY <2>1, <2>3, <2>4 DEF LifetimeInv, Inv, OneOwner, HeapIsOwned
  <1>2. HostInv => DestructorsFindFactory
    BY <1>1 DEF HostInv, DestructorsFindFactory
  <1> QED
    BY <1>2, HostInvHolds, PTL

(* Under the same discipline an instance under construction finds its factory *)
(* when it registers.                                                         *)
THEOREM CreationFindsFactoryHolds == Spec => []CreationFindsFactory
  <1>1. HostInv => CreationFindsFactory
    BY DEF HostInv, LifetimeInv, CreationsFind, CreationFindsFactory
  <1> QED
    BY <1>1, HostInvHolds, PTL

(* While a handle on it stays held, a key goes on naming the same factory.    *)
THEOREM StableWhileHeldHolds == Spec => StableWhileHeld
  <1> DEFINE Stable == \A s \in Keys :
                 held'[cache[s].factory] > 0 => cache'[s].factory = cache[s].factory
  <1>1. Inv /\ [Next]_vars => [Stable]_vars
    <2> SUFFICES ASSUME Inv, Next PROVE Stable
      BY DEF Next
    <2>1. \A s \in Keys : s \in Shas /\ cache[s] \in Entry /\ cache[s].factory \in Factories
      BY DEF Inv, TypeOK, Keys, KeysHaveFactories
    <2>2. ASSUME NEW t \in Threads, NEW s \in Shas, ReleaseLast(t, s) PROVE Stable
      BY <2>1, <2>2 DEF ReleaseLast, Inv, RefsAreHandles, TypeOK, Keys, Cached
    <2>3. ASSUME NEW t \in Threads, Clear(t) PROVE Stable
      BY <2>1, <2>3 DEF Clear
    <2>4. ASSUME NEW t \in Threads, NEW s \in Shas, NEW f \in Factories, Insert(t, s, f)
          PROVE  Stable
      BY <2>1, <2>4 DEF Insert, Inv, TypeOK, Keys
    <2>5. ASSUME NEW t \in Threads, NEW s \in Shas, Acquire(t, s) \/ ReleaseRetained(t, s)
          PROVE  Stable
      BY <2>5, CountingKeepsEntries
    <2>6. ASSUME NEW t \in Threads, NEW s \in Shas, NEW i \in Instances,
                 Register(t, s, i) \/ RemoveInstance(t, s, i)
          PROVE  Stable
      <3>1. CASE Register(t, s, i)
        BY <2>1, <3>1 DEF Register, Inv, TypeOK, Entry
      <3>2. CASE RemoveInstance(t, s, i)
        BY <2>1, <3>2 DEF RemoveInstance, Inv, TypeOK, Entry
      <3> QED
        BY <2>6, <3>1, <3>2
    <2>7. CASE cache' = cache
      BY <2>7
    <2> QED
      BY <2>2, <2>3, <2>4, <2>5, <2>6, <2>7
         DEF Next, Call, Finish, BeginInstance, SetMtMode, RegisterMissed, DropInstance, DropFactory
  <1> QED
    BY <1>1, InvHolds, PTL DEF Spec, StableWhileHeld

(* A host that keeps a handle on the factory across its calls never destroys  *)
(* an instance after its factory, nor builds one for a factory that is gone.  *)
THEOREM HostDisciplineSufficesHolds == Spec => []HostDisciplineSuffices
  <1>1. DestructorsFindFactory /\ CreationFindsFactory => HostDisciplineSuffices
    BY DEF HostDisciplineSuffices
  <1> QED
    BY <1>1, DestructorsFindFactoryHolds, CreationFindsFactoryHolds, PTL

=============================================================================
