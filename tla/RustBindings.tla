---------------------------- MODULE RustBindings ----------------------------
(* The safe Rust API of crates/faust over the factory cache: Factory handles  *)
(* and Dsp values that safe code clones, moves between threads and drops in   *)
(* any order, and the process-wide LIFECYCLE mutex the raw calls of           *)
(* backend.rs take.  The cache is FactoryCache, whose operations are steps of *)
(* this module; the API never calls `clear' or the multi-thread switches.     *)
(*                                                                            *)
(* What the borrow checker grants is in the guards: `drop' consumes the       *)
(* value, `compute' and `init' have the Dsp to themselves, a handle lent to a *)
(* call of another thread is not dropped.                                     *)
EXTENDS FactoryCache

CONSTANTS
    Inners,         \* FactoryInner values, each behind an Arc
    Dsps,           \* Dsp values
    Optimized,      \* keys of interpreter programs, optimised in place
    MaxHandles,     \* bound on the Factory handles of one inner
    NoInner, NoInstance, NoDsp, NoThread

ASSUME BindingsAssumption ==
    /\ IsFiniteSet(Threads) /\ IsFiniteSet(Inners) /\ IsFiniteSet(Dsps)
    /\ Optimized \subseteq Shas
    /\ NoInner \notin Inners /\ NoInstance \notin Instances
    /\ NoDsp \notin Dsps /\ NoThread \notin Threads
    /\ MaxHandles \in Nat \ {0}

VARIABLES
    lock,       \* the thread inside lifecycle()
    raw,        \* FactoryInner::raw
    handles,    \* Factory values on an inner
    of,         \* Dsp::factory: the inner a Dsp holds an Arc of
    inst,       \* Dsp::raw
    optimized,  \* factories whose blocks have been optimised
    job         \* per thread: the API call it runs and where it stands

ownVars == <<lock, raw, handles, of, inst, optimized, job>>
bindingVars == <<vars, ownVars>>

Ops == {"none", "create", "json", "delete", "instantiate", "remove", "init", "compute"}
Places == {"waiting", "locked", "optimizing", "building", "dropping", "running"}
Job == [op : Ops, inner : Inners \cup {NoInner}, dsp : Dsps \cup {NoDsp}, at : Places]

NoJob == [op |-> "none", inner |-> NoInner, dsp |-> NoDsp, at |-> "waiting"]
DeleteJob(n) == [op |-> "delete", inner |-> n, dsp |-> NoDsp, at |-> "waiting"]

BindingsTypeOK ==
    /\ TypeOK
    /\ lock \in Threads \cup {NoThread}
    /\ raw \in [Inners -> Factories \cup {NoFactory}]
    /\ handles \in [Inners -> 0 .. MaxHandles]
    /\ of \in [Dsps -> Inners \cup {NoInner}]
    /\ inst \in [Dsps -> Instances \cup {NoInstance}]
    /\ optimized \subseteq Factories
    /\ job \in [Threads -> Job]

BindingsInit ==
    /\ Init
    /\ lock = NoThread
    /\ raw = [n \in Inners |-> NoFactory]
    /\ handles = [n \in Inners |-> 0]
    /\ of = [d \in Dsps |-> NoInner]
    /\ inst = [d \in Dsps |-> NoInstance]
    /\ optimized = {}
    /\ job = [t \in Threads |-> NoJob]

(* Mutant of Arcs: a Dsp borrows its factory instead of sharing it.           *)
ArcsOfHandles(n) == handles[n]

(* The strong count of an inner's Arc.                                        *)
Arcs(n) == handles[n] + Cardinality({d \in Dsps : of[d] = n})

Idle(t) == job[t] = NoJob
Usable(d) == of[d] # NoInner /\ inst[d] # NoInstance /\ \A t \in Threads : job[t].dsp # d
Lent(n) == Cardinality({t \in Threads : job[t].inner = n /\ job[t].op \in {"json", "instantiate"}})
Names(s, f) == Cached(s) /\ cache[s].factory = f

Runs(t, op, n, d, at) == job' = [job EXCEPT ![t] = [op |-> op, inner |-> n, dsp |-> d, at |-> at]]
Moves(t, at) == job' = [job EXCEPT ![t].at = at]
At(t, op, at) == job[t].op = op /\ job[t].at = at

(* Giving up one Arc of n: the last one deletes the factory, in a call that   *)
(* still has to take the mutex.  (`last' is the count before.)                *)
GiveUp(t, n, last) == job' = [job EXCEPT ![t] = IF last = 1 THEN DeleteJob(n) ELSE NoJob]

-----------------------------------------------------------------------------
(* Calls of safe code.                                                        *)
CallCreate(t) ==
    /\ Idle(t)
    /\ Runs(t, "create", NoInner, NoDsp, "waiting")
    /\ UNCHANGED <<vars, lock, raw, handles, of, inst, optimized>>

(* Factory::clone and Dsp::factory.                                           *)
CallClone(t, n) ==
    /\ Idle(t)
    /\ handles[n] > 0 \/ \E d \in Dsps : of[d] = n /\ Usable(d)
    /\ handles[n] < MaxHandles
    /\ handles' = [handles EXCEPT ![n] = @ + 1]
    /\ UNCHANGED <<vars, lock, raw, of, inst, optimized, job>>

CallDropHandle(t, n) ==
    /\ Idle(t)
    /\ handles[n] > Lent(n)
    /\ handles' = [handles EXCEPT ![n] = @ - 1]
    /\ GiveUp(t, n, Arcs(n))
    /\ UNCHANGED <<vars, lock, raw, of, inst, optimized>>

CallJson(t, n) ==
    /\ Idle(t)
    /\ handles[n] > 0
    /\ Runs(t, "json", n, NoDsp, "waiting")
    /\ UNCHANGED <<vars, lock, raw, handles, of, inst, optimized>>

(* create_dsp_instance clones the Arc before the raw call.                    *)
CallInstantiate(t, n, d) ==
    /\ Idle(t)
    /\ handles[n] > 0
    /\ of[d] = NoInner
    /\ of' = [of EXCEPT ![d] = n]
    /\ Runs(t, "instantiate", n, d, "waiting")
    /\ UNCHANGED <<vars, lock, raw, handles, inst, optimized>>

CallDropDsp(t, d) ==
    /\ Idle(t)
    /\ Usable(d)
    /\ Runs(t, "remove", of[d], d, "waiting")
    /\ UNCHANGED <<vars, lock, raw, handles, of, inst, optimized>>

(* Dsp::compute and Dsp::init go to the raw instance without the mutex.       *)
CallUnlocked(t, op, d) ==
    /\ Idle(t)
    /\ Usable(d)
    /\ Runs(t, op, of[d], d, "running")
    /\ UNCHANGED <<vars, lock, raw, handles, of, inst, optimized>>

-----------------------------------------------------------------------------
(* Mutant of Lock: instantiation does not serialise.                          *)
LockUnlessInstantiating(t) ==
    /\ job[t].op # "none" /\ job[t].at = "waiting"
    /\ lock = NoThread \/ job[t].op = "instantiate"
    /\ lock' = t
    /\ Moves(t, "locked")
    /\ UNCHANGED <<vars, raw, handles, of, inst, optimized>>

(* lifecycle().                                                               *)
Lock(t) ==
    /\ job[t].op # "none" /\ job[t].at = "waiting"
    /\ lock = NoThread
    /\ lock' = t
    /\ Moves(t, "locked")
    /\ UNCHANGED <<vars, raw, handles, of, inst, optimized>>

(* RawFactory::create: the program of s is compiled and enters the cache, or  *)
(* one more reference to the entry is taken.  Factory::build keeps it, or     *)
(* deletes the reference again when the artifact has no known precision.      *)
Create(t, s, n, keep) ==
    /\ At(t, "create", "locked")
    /\ raw[n] = NoFactory
    /\ \/ \E f \in Factories :
             /\ Insert(t, s, f)
             /\ raw' = [raw EXCEPT ![n] = f]
             /\ optimized' = optimized \ {f}
       \/ /\ Acquire(t, s)
          /\ raw' = [raw EXCEPT ![n] = cache[s].factory]
          /\ UNCHANGED optimized
    /\ handles' = [handles EXCEPT ![n] = IF keep THEN 1 ELSE 0]
    /\ job' = [job EXCEPT ![t] = IF keep THEN NoJob ELSE DeleteJob(n)]
    /\ lock' = NoThread
    /\ UNCHANGED <<of, inst>>

(* A program that does not compile, or a full reference counter.              *)
CreateFails(t) ==
    /\ At(t, "create", "locked")
    /\ job' = [job EXCEPT ![t] = NoJob]
    /\ lock' = NoThread
    /\ UNCHANGED <<vars, raw, handles, of, inst, optimized>>

Json(t) ==
    /\ At(t, "json", "locked")
    /\ job' = [job EXCEPT ![t] = NoJob]
    /\ lock' = NoThread
    /\ UNCHANGED <<vars, raw, handles, of, inst, optimized>>

(* RawFactory::delete; the objects of a last reference are destroyed before   *)
(* the mutex is released.                                                     *)
Delete(t) ==
    LET n == job[t].inner IN
    /\ At(t, "delete", "locked")
    /\ \E s \in Shas : /\ Names(s, raw[n])
                      /\ (ReleaseRetained(t, s) \/ ReleaseLast(t, s))
    /\ raw' = [raw EXCEPT ![n] = NoFactory]
    /\ Moves(t, "dropping")
    /\ UNCHANGED <<lock, handles, of, inst, optimized>>

DropObject(t) ==
    /\ \/ \E i \in Instances : DropInstance(t, i)
       \/ \E f \in Factories : DropFactory(t, f)
    /\ UNCHANGED ownVars

Deleted(t) ==
    /\ At(t, "delete", "dropping")
    /\ Free(t)
    /\ job' = [job EXCEPT ![t] = NoJob]
    /\ lock' = NoThread
    /\ UNCHANGED <<vars, raw, handles, of, inst, optimized>>

(* create*DSPInstance: the interpreter optimises the blocks of a factory on   *)
(* its first instantiation.                                                   *)
NeedsOptimizing(f) == f \notin optimized /\ \E s \in Optimized : Names(s, f)

BeginOptimize(t) ==
    /\ At(t, "instantiate", "locked")
    /\ NeedsOptimizing(raw[job[t].inner])
    /\ Moves(t, "optimizing")
    /\ UNCHANGED <<vars, lock, raw, handles, of, inst, optimized>>

EndOptimize(t) ==
    /\ At(t, "instantiate", "optimizing")
    /\ optimized' = optimized \cup {raw[job[t].inner]}
    /\ Moves(t, "locked")
    /\ UNCHANGED <<vars, lock, raw, handles, of, inst>>

Build(t) ==
    /\ At(t, "instantiate", "locked")
    /\ ~NeedsOptimizing(raw[job[t].inner])
    /\ \E f \in Factories : f = raw[job[t].inner] /\ BeginInstance(t, f)
    /\ Moves(t, "building")
    /\ UNCHANGED <<lock, raw, handles, of, inst, optimized>>

(* The instance is registered, the mutex released, and Dsp::create calls init.*)
Registered(t, s, i) ==
    /\ At(t, "instantiate", "building")
    /\ Register(t, s, i)
    /\ inst' = [inst EXCEPT ![job[t].dsp] = i]
    /\ Runs(t, "init", job[t].inner, job[t].dsp, "running")
    /\ lock' = NoThread
    /\ UNCHANGED <<raw, handles, of, optimized>>

(* Mutant of Refused: the error path deletes the factory it was called on.    *)
RefusedDeleting(t) ==
    /\ At(t, "instantiate", "locked")
    /\ of' = [of EXCEPT ![job[t].dsp] = NoInner]
    /\ GiveUp(t, job[t].inner, 1)
    /\ lock' = NoThread
    /\ UNCHANGED <<vars, raw, handles, inst, optimized>>

(* The backend refuses: the error drops the Arc that was cloned.              *)
Refused(t) ==
    LET n == job[t].inner IN
    /\ At(t, "instantiate", "locked")
    /\ of' = [of EXCEPT ![job[t].dsp] = NoInner]
    /\ GiveUp(t, n, Arcs(n))
    /\ lock' = NoThread
    /\ UNCHANGED <<vars, raw, handles, inst, optimized>>

(* RawInstance::delete, from Dsp's Drop.                                      *)
Remove(t) ==
    /\ At(t, "remove", "locked")
    /\ \E s \in Shas : RemoveInstance(t, s, inst[job[t].dsp])
    /\ inst' = [inst EXCEPT ![job[t].dsp] = NoInstance]
    /\ Moves(t, "dropping")
    /\ UNCHANGED <<lock, raw, handles, of, optimized>>

(* Mutant of Removed: the Arc is dropped inside the critical section.         *)
RemovedUnderLock(t) ==
    LET n == job[t].inner IN
    /\ At(t, "remove", "dropping")
    /\ Free(t)
    /\ of' = [of EXCEPT ![job[t].dsp] = NoInner]
    /\ GiveUp(t, n, Arcs(n))
    /\ lock' = (IF Arcs(n) = 1 THEN lock ELSE NoThread)
    /\ UNCHANGED <<vars, raw, handles, inst, optimized>>

(* The mutex is released, then the fields of the Dsp are dropped: its Arc.    *)
Removed(t) ==
    LET n == job[t].inner IN
    /\ At(t, "remove", "dropping")
    /\ Free(t)
    /\ of' = [of EXCEPT ![job[t].dsp] = NoInner]
    /\ GiveUp(t, n, Arcs(n))
    /\ lock' = NoThread
    /\ UNCHANGED <<vars, raw, handles, inst, optimized>>

(* The end of init or of compute.                                             *)
Return(t) ==
    /\ job[t].op \in {"init", "compute"}
    /\ job' = [job EXCEPT ![t] = NoJob]
    /\ UNCHANGED <<vars, lock, raw, handles, of, inst, optimized>>

ApiCall(t) ==
    \/ CallCreate(t)
    \/ \E n \in Inners : CallClone(t, n) \/ CallDropHandle(t, n) \/ CallJson(t, n)
    \/ \E n \in Inners, d \in Dsps : CallInstantiate(t, n, d)
    \/ \E d \in Dsps : CallDropDsp(t, d)
    \/ \E d \in Dsps, op \in {"init", "compute"} : CallUnlocked(t, op, d)

ApiStep(t) ==
    \/ Lock(t)
    \/ \E s \in Shas, n \in Inners, keep \in BOOLEAN : Create(t, s, n, keep)
    \/ CreateFails(t) \/ Json(t)
    \/ Delete(t) \/ DropObject(t) \/ Deleted(t)
    \/ BeginOptimize(t) \/ EndOptimize(t) \/ Build(t)
    \/ \E s \in Shas, i \in Instances : Registered(t, s, i)
    \/ Refused(t) \/ Remove(t) \/ Removed(t)
    \/ Return(t)

BindingsNext == \E t \in Threads : ApiCall(t) \/ ApiStep(t)

BindingsSpec == BindingsInit /\ [][BindingsNext]_bindingVars

-----------------------------------------------------------------------------
(* `The factory's code lives as long as any of its instances, whatever the    *)
(* host does with its own Factory handles': a Dsp that safe code can use has  *)
(* its own instance, alive under an entry of the cache whose factory is the   *)
(* one its Arc names.                                                         *)
DspsAreAlive ==
    \A d \in Dsps :
        inst[d] # NoInstance =>
            /\ of[d] # NoInner
            /\ \E s \in Keys : cache[s].factory = raw[of[d]] /\ inst[d] \in cache[s].instances
            /\ \A c \in Dsps : inst[c] = inst[d] => c = d

(* Every inner owns one reference of the cache and releases it once, with its *)
(* last Arc.  Safe code is then the orderly host the cache asks for: by       *)
(* DestructorsFindFactory and CreationFindsFactory no destructor meets a      *)
(* destroyed factory and no instantiation comes back null.                    *)
OneReferencePerInner ==
    /\ \A f \in Factories : held[f] = Cardinality({n \in Inners : raw[n] = f})
    /\ \A n \in Inners :
          Arcs(n) > 0 => raw[n] # NoFactory /\ \A t \in Threads : job[t] # DeleteJob(n)
    /\ disciplined

(* `A lock here is what makes the safe API safe': while one thread optimises  *)
(* a shared interpreter program in place, no other thread reads it.           *)
OptimizeIsExclusive ==
    \A t, u \in Threads :
        t # u /\ At(t, "instantiate", "optimizing")
              /\ job[u].inner # NoInner /\ raw[job[u].inner] = raw[job[t].inner]
            => job[u].at = "waiting"

(* std's Mutex is not reentrant: no call asks for the lock it holds, though   *)
(* dropping a Dsp may drop the last Arc of its factory, which takes it too.   *)
NoSelfDeadlock == \A t \in Threads : lock = t => job[t].at # "waiting"

(* Whatever safe Rust code clones, moves and drops on several threads: a Dsp  *)
(* is alive under the factory its Arc names, each inner owns one reference of *)
(* the cache and releases it once, no one reads a program another thread      *)
(* optimises in place, and no call asks for the lifecycle lock it holds.      *)
BindingsAreSafe ==
    /\ BindingsTypeOK
    /\ DspsAreAlive
    /\ OneReferencePerInner
    /\ OptimizeIsExclusive
    /\ NoSelfDeadlock
=============================================================================
