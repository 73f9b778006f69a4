----------------------- MODULE ForeignFunctionsProofs -----------------------
(* What ForeignFunctions guarantees for every number of threads, names,       *)
(* functions and programs.                                                    *)
(*                                                                            *)
(* CallsAreLinked needs the copy a creation linked to be complete from the    *)
(* moment it is taken.  KeyNamesCode and DisciplinedCompilesAnew need the    *)
(* two reads of the registry in one creation to agree, which is what a host   *)
(* that registers between creations provides.                                 *)
EXTENDS ForeignFunctions, TLAPS

CopiesAreLinked ==
    \A t \in Threads : At(t, "fingerprint") \/ At(t, "insert")
        => \A n \in Calls(call[t].dsp) : call[t].linked[n] # NoFunction

CopiesAreFresh ==
    \A t \in Threads :
        /\ At(t, "fingerprint") => call[t].linked = registry
        /\ At(t, "insert") => call[t].linked = registry /\ call[t].prints = registry

Inv ==
    /\ TypeOK
    /\ CopiesAreLinked
    /\ CallsAreLinked
    /\ KeyNamesCode
    /\ disciplined => CopiesAreFresh

(* A key names a program, and the code under it is a copy of the registry.    *)
LEMMA CachedShape ==
  ASSUME TypeOK, NEW k \in Cached
  PROVE  /\ k \in Keys
         /\ k[1] \in Dsps
         /\ Calls(k[1]) \subseteq Names
         /\ cache[k] \in Registries
  BY CallsAssumption DEF TypeOK, Cached, Keys

(* Nothing is cached and no creation runs at the start.                       *)
LEMMA InitInv == Init => Inv
  <1> SUFFICES ASSUME Init PROVE Inv
    OBVIOUS
  <1>1. TypeOK
    BY DEF Init, TypeOK, Registries, Empty
  <1>2. Cached = {}
    BY DEF Init, Cached
  <1>3. \A t \in Threads : call[t] = Idle
    BY DEF Init
  <1> QED
    BY <1>1, <1>2, <1>3 DEF Inv, CopiesAreLinked, CopiesAreFresh, CallsAreLinked, KeyNamesCode, At

(* One thread's call changes, or ends, and the registry and the cache stay.   *)
LEMMA CallStep ==
  ASSUME Inv, NEW t \in Threads, UNCHANGED <<registry, cache, disciplined>>,
         payloads' \subseteq Keys,
         NEW c \in Creations \cup {Idle}, call' = [call EXCEPT ![t] = c],
         c # Idle /\ c.step \in {"fingerprint", "insert"}
             => \A n \in Calls(c.dsp) : c.linked[n] # NoFunction,
         disciplined /\ c # Idle /\ c.step \in {"fingerprint", "insert"}
             => c.linked = registry,
         disciplined /\ c # Idle /\ c.step = "insert" => c.prints = registry
  PROVE  Inv'
  <1>1. TypeOK'
    BY DEF Inv, TypeOK
  <1>2. call'[t] = c /\ \A u \in Threads : u # t => call'[u] = call[u]
    BY DEF Inv, TypeOK
  <1>3. CopiesAreLinked'
    BY <1>2 DEF Inv, CopiesAreLinked, At
  <1>4. disciplined' => CopiesAreFresh'
    BY <1>2 DEF Inv, CopiesAreFresh, At
  <1>5. Cached' = Cached
    BY DEF Cached
  <1> QED
    BY <1>1, <1>3, <1>4, <1>5 DEF Inv, CallsAreLinked, KeyNamesCode

(* A change of the registry: a disciplined host has no creation running.      *)
LEMMA SetRegistryInv ==
  ASSUME Inv, NEW t \in Threads, NEW r \in Registries, SetRegistry(t, r)
  PROVE  Inv'
  <1> USE DEF Inv, SetRegistry
  <1>1. \A u \in Threads :
           \/ call[u] = Idle /\ call'[u] = Idle
           \/ /\ call[u] \in Creations
              /\ call'[u] = [call[u] EXCEPT !.moved = TRUE]
    BY DEF TypeOK
  <1>2. \A u \in Threads : call[u] \in Creations =>
           /\ call'[u] \in Creations
           /\ call'[u].step = call[u].step
           /\ call'[u].dsp = call[u].dsp
           /\ call'[u].linked = call[u].linked
    BY <1>1, IdleAssumption DEF Creations
  <1>3. TypeOK'
    BY <1>1, <1>2 DEF TypeOK
  <1>4. CopiesAreLinked'
    BY <1>1, <1>2 DEF CopiesAreLinked, At
  <1>5. disciplined' => CopiesAreFresh'
    BY <1>1 DEF CopiesAreFresh, At
  <1>6. Cached' = Cached
    BY DEF Cached
  <1> QED
    BY <1>3, <1>4, <1>5, <1>6 DEF CallsAreLinked, KeyNamesCode

(* A creation begins with no copy.                                            *)
LEMMA BeginInv ==
  ASSUME Inv, NEW t \in Threads, NEW d \in Dsps, NEW k \in Keys \cup {NoCode}, Begin(t, d, k)
  PROVE  Inv'
  <1> DEFINE c == [step |-> "snapshot", dsp |-> d, expected |-> k,
                   linked |-> Empty, prints |-> Empty, moved |-> FALSE]
  <1>1. c \in Creations
    BY DEF Creations, Registries, Empty
  <1>2. call' = [call EXCEPT ![t] = c] /\ UNCHANGED <<registry, cache, payloads, disciplined>>
    BY DEF Begin
  <1>3. payloads' \subseteq Keys
    BY <1>2 DEF Inv, TypeOK
  <1> QED
    BY <1>1, <1>2, <1>3, CallStep

(* The copy is taken only when it has every function the program calls.       *)
LEMMA SnapshotInv ==
  ASSUME Inv, NEW t \in Threads, Snapshot(t)
  PROVE  Inv'
  <1> DEFINE missing == \E n \in Calls(call[t].dsp) : registry[n] = NoFunction
             copied  == [call[t] EXCEPT !.step = "fingerprint", !.linked = registry]
             c       == IF missing THEN Idle ELSE copied
  <1>1. call[t] \in Creations /\ registry \in Registries
    BY DEF Inv, TypeOK, Snapshot, At
  <1>2. /\ copied \in Creations
        /\ copied.step = "fingerprint"
        /\ copied.dsp = call[t].dsp
        /\ copied.linked = registry
    BY <1>1 DEF Creations
  <1>3. call' = [call EXCEPT ![t] = c] /\ UNCHANGED <<registry, cache, payloads, disciplined>>
    BY DEF Snapshot
  <1>4. payloads' \subseteq Keys
    BY <1>3 DEF Inv, TypeOK
  <1>5. CASE missing
    BY <1>3, <1>4, <1>5, CallStep
  <1>6. CASE ~missing
    BY <1>2, <1>3, <1>4, <1>6, CallStep
  <1> QED
    BY <1>5, <1>6

(* The second read: a disciplined host has not changed what the first saw.    *)
LEMMA FingerprintInv ==
  ASSUME Inv, NEW t \in Threads, Fingerprint(t)
  PROVE  Inv'
  <1> DEFINE wanted  == call[t].expected \in {NoCode, <<call[t].dsp, registry>>}
             printed == [call[t] EXCEPT !.step = "insert", !.prints = registry]
             c       == IF wanted THEN printed ELSE Idle
  <1>1. call[t] \in Creations /\ registry \in Registries /\ At(t, "fingerprint")
    BY DEF Inv, TypeOK, Fingerprint, At
  <1>2. /\ printed \in Creations
        /\ printed.step = "insert"
        /\ printed.dsp = call[t].dsp
        /\ printed.linked = call[t].linked
        /\ printed.prints = registry
    BY <1>1 DEF Creations
  <1>3. call' = [call EXCEPT ![t] = c] /\ UNCHANGED <<registry, cache, payloads, disciplined>>
    BY DEF Fingerprint
  <1>4. payloads' \subseteq Keys
    BY <1>3 DEF Inv, TypeOK
  <1>5. \A n \in Calls(call[t].dsp) : call[t].linked[n] # NoFunction
    BY <1>1 DEF Inv, CopiesAreLinked
  <1>6. disciplined => call[t].linked = registry
    BY <1>1 DEF Inv, CopiesAreFresh
  <1>7. CASE wanted
    BY <1>2, <1>3, <1>4, <1>5, <1>6, <1>7, CallStep
  <1>8. CASE ~wanted
    BY <1>3, <1>4, <1>8, CallStep
  <1> QED
    BY <1>7, <1>8

(* The cache takes the code under a new key, and keeps what a known key has.  *)
LEMMA InsertInv ==
  ASSUME Inv, NEW t \in Threads, Insert(t)
  PROVE  Inv'
  <1> DEFINE key  == KeyOf(t)
             code == call[t].linked
  <1>1. call[t] \in Creations /\ At(t, "insert")
    BY DEF Inv, TypeOK, Insert, At
  <1>2. /\ key \in Keys
        /\ key[1] = call[t].dsp
        /\ key[2] = call[t].prints
        /\ code \in Registries
    BY <1>1 DEF KeyOf, Keys, Creations
  <1>3. /\ cache' = [cache EXCEPT ![key] = IF @ = NoCode THEN code ELSE @]
        /\ call' = [call EXCEPT ![t] = Idle]
        /\ UNCHANGED <<registry, payloads, disciplined>>
    BY DEF Insert
  <1>4. TypeOK'
    BY <1>2, <1>3 DEF Inv, TypeOK
  <1>5. \A u \in Threads : u # t => call'[u] = call[u]
    BY <1>3 DEF Inv, TypeOK
  <1>6. call'[t] = Idle
    BY <1>3 DEF Inv, TypeOK
  <1>7. CopiesAreLinked'
    BY <1>5, <1>6 DEF Inv, CopiesAreLinked, At
  <1>8. disciplined' => CopiesAreFresh'
    BY <1>3, <1>5, <1>6 DEF Inv, CopiesAreFresh, At
  <1>9. \A k \in Cached' : \/ k \in Cached /\ cache'[k] = cache[k]
                           \/ k = key /\ cache'[k] = code
    BY <1>2, <1>3 DEF Inv, TypeOK, Cached
  <1>10. \A n \in Calls(key[1]) : code[n] # NoFunction
    BY <1>1, <1>2 DEF Inv, CopiesAreLinked
  <1>11. CallsAreLinked'
    BY <1>9, <1>10 DEF Inv, CallsAreLinked
  <1>12. disciplined => code = key[2]
    BY <1>1, <1>2 DEF Inv, CopiesAreFresh
  <1>13. KeyNamesCode'
    BY <1>3, <1>9, <1>12 DEF Inv, KeyNamesCode
  <1> QED
    BY <1>4, <1>7, <1>8, <1>11, <1>13 DEF Inv

(* A factory leaves the cache.                                                *)
LEMMA DeleteInv ==
  ASSUME Inv, NEW t \in Threads, NEW k \in Keys, Delete(t, k)
  PROVE  Inv'
  <1> USE DEF Inv, Delete
  <1>1. TypeOK'
    BY DEF TypeOK
  <1>2. \A j \in Cached' : j \in Cached /\ cache'[j] = cache[j]
    BY DEF TypeOK, Cached
  <1>3. CopiesAreLinked' /\ (disciplined' => CopiesAreFresh')
    BY DEF CopiesAreLinked, CopiesAreFresh, At
  <1>4. CallsAreLinked' /\ KeyNamesCode'
    BY <1>2 DEF CallsAreLinked, KeyNamesCode
  <1> QED
    BY <1>1, <1>3, <1>4

(* A step that changes neither the registry, the cache nor a call.            *)
LEMMA FrameInv ==
  ASSUME Inv, UNCHANGED <<registry, cache, call, disciplined>>, payloads' \subseteq Keys
  PROVE  Inv'
  BY DEF Inv, TypeOK, CopiesAreLinked, CopiesAreFresh, CallsAreLinked, KeyNamesCode, Cached, At

(* Every step preserves the invariant.                                        *)
LEMMA NextInv == Inv /\ [Next]_vars => Inv'
  <1> SUFFICES ASSUME Inv, [Next]_vars PROVE Inv'
    OBVIOUS
  <1>1. CASE UNCHANGED vars
    BY <1>1, FrameInv DEF vars, Inv, TypeOK
  <1>2. ASSUME NEW t \in Threads, NEW n \in Names, Unregister(t, n) PROVE Inv'
    <2>1. [registry EXCEPT ![n] = NoFunction] \in Registries
      BY DEF Inv, TypeOK, Registries
    <2> QED
      BY <1>2, <2>1, SetRegistryInv DEF Unregister
  <1>3. ASSUME NEW t \in Threads, NEW n \in Names, NEW f \in Functions, Register(t, n, f)
        PROVE  Inv'
    <2>1. [registry EXCEPT ![n] = f] \in Registries
      BY DEF Inv, TypeOK, Registries
    <2> QED
      BY <1>3, <2>1, SetRegistryInv DEF Register
  <1>4. ASSUME NEW t \in Threads, ClearRegistry(t) PROVE Inv'
    <2>1. Empty \in Registries
      BY DEF Empty, Registries
    <2> QED
      BY <1>4, <2>1, SetRegistryInv DEF ClearRegistry
  <1>5. ASSUME NEW t \in Threads, NEW d \in Dsps, Create(t, d) PROVE Inv'
    BY <1>5, BeginInv DEF Create
  <1>6. ASSUME NEW t \in Threads, NEW k \in Keys, Restore(t, k) PROVE Inv'
    <2>1. k[1] \in Dsps
      BY DEF Keys
    <2> QED
      BY <1>6, <2>1, BeginInv DEF Restore
  <1>7. ASSUME NEW t \in Threads, NEW k \in Keys, Write(t, k) PROVE Inv'
    BY <1>7, FrameInv DEF Write, Inv, TypeOK
  <1> QED
    BY <1>1, <1>2, <1>3, <1>4, <1>5, <1>6, <1>7, SnapshotInv, FingerprintInv, InsertInv, DeleteInv
       DEF Next

(* The invariant holds in every reachable state.                              *)
THEOREM InvHolds == Spec => []Inv
  BY InitInv, NextInv, PTL DEF Spec

(* Type correctness.                                                          *)
THEOREM TypeCorrect == Spec => []TypeOK
  <1>1. Inv => TypeOK
    BY DEF Inv
  <1> QED
    BY <1>1, InvHolds, PTL

(* No cached factory has an unlinked call, however registrations interleave   *)
(* with its compilation.                                                      *)
THEOREM CallsAreLinkedHolds == Spec => []CallsAreLinked
  <1>1. Inv => CallsAreLinked
    BY DEF Inv
  <1> QED
    BY <1>1, InvHolds, PTL

(* With registrations kept clear of creations, the key of a cached factory    *)
(* names the functions its code calls.                                        *)
THEOREM KeyNamesCodeHolds == Spec => []KeyNamesCode
  <1>1. Inv => KeyNamesCode
    BY DEF Inv
  <1> QED
    BY <1>1, InvHolds, PTL

(* And under the same discipline a creation returns a factory that calls what *)
(* is registered now.                                                         *)
THEOREM DisciplinedCompilesAnewHolds == Spec => DisciplinedCompilesAnew
  <1> DEFINE Anew == disciplined => \A t \in Threads : CompilesAnew(t)
  <1>1. Inv /\ [Next]_vars => [Anew]_vars
    <2> SUFFICES ASSUME Inv, Next, disciplined, NEW t \in Threads, At(t, "insert"), call'[t] = Idle,
                        NEW n \in Calls(call[t].dsp)
                 PROVE  cache'[KeyOf(t)][n] = registry[n]
      BY DEF CompilesAnew
    <2>1. /\ call[t] \in Creations
          /\ KeyOf(t) \in Keys
          /\ KeyOf(t)[1] = call[t].dsp
          /\ KeyOf(t)[2] = registry
          /\ call[t].linked = registry
      BY DEF At, Inv, TypeOK, CopiesAreFresh, KeyOf, Keys, Creations
    <2>2. Insert(t)
      <3>1. ASSUME NEW u \in Threads, NEW r, SetRegistry(u, r) PROVE FALSE
        <4>1. call'[t] = [call[t] EXCEPT !.moved = TRUE]
          BY <3>1 DEF SetRegistry, At
        <4>2. call'[t] \in Creations
          BY <2>1, <4>1 DEF Creations
        <4> QED
          BY <4>2, IdleAssumption
      <3>2. ASSUME NEW u \in Threads, UNCHANGED call PROVE FALSE
        BY <3>2 DEF At
      <3>3. ASSUME NEW u \in Threads, NEW d, NEW k, Begin(u, d, k) PROVE FALSE
        <4>1. call'[t] = call[t]
          BY <3>3 DEF Begin, At, Inv, TypeOK
        <4> QED
          BY <4>1 DEF At
      <3>4. ASSUME NEW u \in Threads, Snapshot(u) \/ Fingerprint(u) PROVE FALSE
        <4>1. call'[t] = call[t]
          BY <3>4 DEF Snapshot, Fingerprint, At, Inv, TypeOK
        <4> QED
          BY <4>1 DEF At
      <3>5. ASSUME NEW u \in Threads, u # t, Insert(u) PROVE FALSE
        <4>1. call'[t] = call[t]
          BY <3>5 DEF Insert, Inv, TypeOK
        <4> QED
          BY <4>1 DEF At
      <3> QED
        BY <3>1, <3>2, <3>3, <3>4, <3>5
           DEF Next, Register, Unregister, ClearRegistry, Create, Restore, Delete, Write
    <2>3. CASE cache[KeyOf(t)] = NoCode
      BY <2>1, <2>2, <2>3 DEF Insert, Inv, TypeOK
    <2>4. CASE cache[KeyOf(t)] # NoCode
      <3>1. cache'[KeyOf(t)] = cache[KeyOf(t)] /\ KeyOf(t) \in Cached
        BY <2>1, <2>2, <2>4 DEF Insert, Inv, TypeOK, Cached
      <3> QED
        BY <2>1, <3>1 DEF Inv, KeyNamesCode
    <2> QED
      BY <2>3, <2>4
  <1> QED
    BY <1>1, InvHolds, PTL DEF Spec, DisciplinedCompilesAnew

(* Every cached factory is linked, and under the same discipline to the       *)
(* functions its key names.                                                   *)
THEOREM CachedCodeIsLinkedHolds == Spec => []CachedCodeIsLinked
  <1>1. TypeOK /\ CallsAreLinked /\ KeyNamesCode => CachedCodeIsLinked
    BY DEF CachedCodeIsLinked
  <1> QED
    BY <1>1, TypeCorrect, CallsAreLinkedHolds, KeyNamesCodeHolds, PTL

=============================================================================
