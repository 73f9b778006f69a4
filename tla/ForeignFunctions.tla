--------------------------- MODULE ForeignFunctions ---------------------------
(* The process-wide registry of host functions and the creation of Cranelift  *)
(* factories that call them: crates/cranelift-ffi/src/factory.rs.             *)
(*                                                                            *)
(* A creation takes the registry's mutex twice.  The first region copies the  *)
(* registry, from which the JIT links the calls; the second, when the JIT is  *)
(* done, reads it again for the fingerprint that enters the factory's key.    *)
(* The cache (module FactoryCache) then returns an existing factory of that   *)
(* key, or takes the new one.                                                 *)
EXTENDS Naturals, FiniteSets

CONSTANTS
    Threads,        \* host threads
    Names,          \* foreign function names
    Functions,      \* an address with an optional signature
    Dsps,           \* DSP programs with their options
    Calls(_),       \* the foreign functions a program calls
    NoFunction,     \* a name that is not registered
    NoCode,         \* a key that is not cached
    Idle            \* a thread in no creation

ASSUME NullAssumption == NoFunction \notin Functions /\ NoCode \notin [Names -> Functions \cup {NoFunction}]
                         /\ NoCode \notin Dsps \X [Names -> Functions \cup {NoFunction}]
ASSUME CallsAssumption == \A d \in Dsps : Calls(d) \subseteq Names

VARIABLES
    registry,   \* foreign_function_registry
    cache,      \* <<program, fingerprint>> to the functions the code calls
    payloads,   \* keys of the factories written to bitcode
    call,       \* per thread: the creation it is in, or Idle
    disciplined \* history: the registry never changed under a creation

vars == <<registry, cache, payloads, call, disciplined>>

Registries == [Names -> Functions \cup {NoFunction}]

(* The fingerprint lists every entry of the registry, called or not.          *)
Keys == Dsps \X Registries

Cached == {k \in Keys : cache[k] # NoCode}

(* expected: the key a bitcode payload asks for; linked: the copy of the      *)
(* registry the JIT linked; prints: the registry in the fingerprint; moved    *)
(* (history): the registry changed since the call began.                      *)
Creations == [step     : {"snapshot", "fingerprint", "insert"},
              dsp      : Dsps,
              expected : Keys \cup {NoCode},
              linked   : Registries,
              prints   : Registries,
              moved    : BOOLEAN]

ASSUME IdleAssumption == Idle \notin Creations

TypeOK ==
    /\ registry \in Registries
    /\ cache \in [Keys -> Registries \cup {NoCode}]
    /\ payloads \subseteq Keys
    /\ call \in [Threads -> Creations \cup {Idle}]
    /\ disciplined \in BOOLEAN

Empty == [n \in Names |-> NoFunction]

Init ==
    /\ registry = Empty
    /\ cache = [k \in Keys |-> NoCode]
    /\ payloads = {}
    /\ call = [t \in Threads |-> Idle]
    /\ disciplined = TRUE

At(t, step) == call[t] # Idle /\ call[t].step = step

-----------------------------------------------------------------------------
(* register_foreign_function, unregister and clear: one lock region each.     *)
SetRegistry(t, r) ==
    /\ call[t] = Idle
    /\ r # registry
    /\ registry' = r
    /\ call' = [u \in Threads |->
                  IF call[u] = Idle THEN Idle ELSE [call[u] EXCEPT !.moved = TRUE]]
    /\ disciplined' = (disciplined /\ \A u \in Threads : call[u] = Idle)
    /\ UNCHANGED <<cache, payloads>>

Register(t, n, f) == SetRegistry(t, [registry EXCEPT ![n] = f])

Unregister(t, n) == SetRegistry(t, [registry EXCEPT ![n] = NoFunction])

ClearRegistry(t) == SetRegistry(t, Empty)

Begin(t, d, k) ==
    /\ call[t] = Idle
    /\ call' = [call EXCEPT ![t] = [step |-> "snapshot", dsp |-> d, expected |-> k,
                                    linked |-> Empty, prints |-> Empty, moved |-> FALSE]]
    /\ UNCHANGED <<registry, cache, payloads, disciplined>>

(* create*FromFile, FromString, FromSignals and FromBoxes.                    *)
Create(t, d) == Begin(t, d, NoCode)

(* readCCraneliftDSPFactoryFromBitcode: the payload's source is compiled anew.*)
Restore(t, k) == k \in payloads /\ Begin(t, k[1], k)

(* Mutant of Snapshot: an unregistered name is no error.                      *)
SnapshotUnresolved(t) ==
    /\ At(t, "snapshot")
    /\ call' = [call EXCEPT ![t] = [@ EXCEPT !.step = "fingerprint", !.linked = registry]]
    /\ UNCHANGED <<registry, cache, payloads, disciplined>>

(* compile_fir_module_to_cranelift copies the registry and links the program  *)
(* against the copy; a call of an unregistered name fails the creation.       *)
Snapshot(t) ==
    /\ At(t, "snapshot")
    /\ call' = [call EXCEPT ![t] =
                  IF \E n \in Calls(call[t].dsp) : registry[n] = NoFunction
                  THEN Idle
                  ELSE [call[t] EXCEPT !.step = "fingerprint", !.linked = registry]]
    /\ UNCHANGED <<registry, cache, payloads, disciplined>>

(* Mutant of Fingerprint: the key of a payload is trusted.                    *)
FingerprintTrusting(t) ==
    /\ At(t, "fingerprint")
    /\ call' = [call EXCEPT ![t] =
                  [@ EXCEPT !.step = "insert",
                            !.prints = IF call[t].expected = NoCode
                                       THEN registry ELSE call[t].expected[2]]]
    /\ UNCHANGED <<registry, cache, payloads, disciplined>>

(* foreign_function_registry_fingerprint after the compilation; restoring a   *)
(* payload refuses a key that is not the expected one.                        *)
Fingerprint(t) ==
    /\ At(t, "fingerprint")
    /\ call' = [call EXCEPT ![t] =
                  IF call[t].expected \in {NoCode, <<call[t].dsp, registry>>}
                  THEN [call[t] EXCEPT !.step = "insert", !.prints = registry]
                  ELSE Idle]
    /\ UNCHANGED <<registry, cache, payloads, disciplined>>

(* Mutant of KeyOf: the key does not name the functions.                      *)
KeyWithoutFunctions(t) == <<call[t].dsp, Empty>>

KeyOf(t) == <<call[t].dsp, call[t].prints>>

(* cache_insert: a new key takes the new factory, a known one keeps its own.  *)
Insert(t) ==
    /\ At(t, "insert")
    /\ cache' = [cache EXCEPT ![KeyOf(t)] = IF @ = NoCode THEN call[t].linked ELSE @]
    /\ call' = [call EXCEPT ![t] = Idle]
    /\ UNCHANGED <<registry, payloads, disciplined>>

(* The last handle of a factory is released.                                  *)
Delete(t, k) ==
    /\ call[t] = Idle
    /\ k \in Cached
    /\ cache' = [cache EXCEPT ![k] = NoCode]
    /\ UNCHANGED <<registry, payloads, call, disciplined>>

(* writeCCraneliftDSPFactoryToBitcode records the factory's key.              *)
Write(t, k) ==
    /\ call[t] = Idle
    /\ k \in Cached
    /\ payloads' = payloads \cup {k}
    /\ UNCHANGED <<registry, cache, call, disciplined>>

Next == \E t \in Threads :
    \/ \E n \in Names : Unregister(t, n) \/ \E f \in Functions : Register(t, n, f)
    \/ ClearRegistry(t)
    \/ \E d \in Dsps : Create(t, d)
    \/ \E k \in Keys : Restore(t, k) \/ Delete(t, k) \/ Write(t, k)
    \/ Snapshot(t) \/ Fingerprint(t) \/ Insert(t)

Spec == Init /\ [][Next]_vars

-----------------------------------------------------------------------------
(* For a host that registers between creations, the key of a cached factory   *)
(* names the functions its code calls, also when the key came from bitcode.   *)
KeyNamesCode ==
    disciplined => \A k \in Cached : \A n \in Calls(k[1]) : cache[k][n] = k[2][n]

(* No factory whose program calls a function has that call unlinked, also     *)
(* when the name was registered or unregistered while it compiled.            *)
CallsAreLinked ==
    \A k \in Cached : \A n \in Calls(k[1]) : cache[k][n] # NoFunction

(* A cached factory calls some function for every call of its program, and    *)
(* for a host that registers between creations the one its key names.         *)
CachedCodeIsLinked == TypeOK /\ CallsAreLinked /\ KeyNamesCode

(* The creation that ends in this step returns a factory that calls what is   *)
(* registered.                                                                *)
CompilesAnew(t) ==
    At(t, "insert") /\ call'[t] = Idle
        => \A n \in Calls(call[t].dsp) : cache'[KeyOf(t)][n] = registry[n]

(* "A name re-registered at another address or with another signature         *)
(* compiles anew": a creation during which the registry stands still calls    *)
(* what is registered.                                                        *)
ReRegisteredCompilesAnew ==
    [][\A t \in Threads : call[t] # Idle /\ ~call[t].moved => CompilesAnew(t)]_vars

(* So it does as long as the registry never changed under any creation.       *)
DisciplinedCompilesAnew == [][disciplined => \A t \in Threads : CompilesAnew(t)]_vars
=============================================================================
