------------------------------ MODULE HostMemory ------------------------------
(***************************************************************************)
(* freeCMemory: a host hands back strings and pointer arrays through one   *)
(* function, from any thread, and a process-wide registry of the arrays    *)
(* decides how each is released.  The registry is locked for one lookup or *)
(* insertion at a time; the heap, which gives an address again once it is  *)
(* free, is not under that lock.                                           *)
(***************************************************************************)
EXTENDS Naturals

CONSTANTS
    Threads,
    Addresses,   \* bound: the addresses of the heap
    Lengths      \* lengths of arrays

MemoryAssumption == Lengths \subseteq Nat \ {0}

Free == [kind |-> "free", len |-> 0]
String == [kind |-> "string", len |-> 0]
Array(n) == [kind |-> "array", len |-> n]
Blocks == {Free, String} \cup {Array(n) : n \in Lengths}

VARIABLES
    heap,       \* what was allocated at each address
    registry,   \* OWNED_PTR_ARRAYS: the length of each array, 0 for none
    host,       \* addresses the host may free
    call,       \* [op, at, len] of the call each thread is in
    misfreed    \* an address was released as what it was not

vars == <<heap, registry, host, call, misfreed>>

Idle == [op |-> "idle", at |-> "none", len |-> 0]

Init ==
    /\ heap = [a \in Addresses |-> Free] /\ registry = [a \in Addresses |-> 0]
    /\ host = {} /\ call = [t \in Threads |-> Idle] /\ misfreed = FALSE

Enter(t, op, a, n) ==
    /\ call[t] = Idle
    /\ call' = [call EXCEPT ![t] = [op |-> op, at |-> a, len |-> n]]

\* alloc_c_string
AllocString(t, a) ==
    /\ call[t] = Idle /\ heap[a] = Free
    /\ heap' = [heap EXCEPT ![a] = String] /\ host' = host \cup {a}
    /\ UNCHANGED <<registry, call, misfreed>>

\* alloc_ptr_array, the boxed slice
AllocArray(t, a, n) ==
    /\ heap[a] = Free /\ Enter(t, "register", a, n)
    /\ heap' = [heap EXCEPT ![a] = Array(n)]
    /\ UNCHANGED <<registry, host, misfreed>>

\* Mutant of Register: the length registered leaves out the terminator.
RegisterShort(t) ==
    /\ call[t].op = "register"
    /\ registry' = [registry EXCEPT ![call[t].at] = call[t].len - 1]
    /\ host' = host \cup {call[t].at} /\ call' = [call EXCEPT ![t] = Idle]
    /\ UNCHANGED <<heap, misfreed>>

\* alloc_ptr_array, the entry; only then does the host get the pointer
Register(t) ==
    /\ call[t].op = "register"
    /\ registry' = [registry EXCEPT ![call[t].at] = call[t].len]
    /\ host' = host \cup {call[t].at} /\ call' = [call EXCEPT ![t] = Idle]
    /\ UNCHANGED <<heap, misfreed>>

\* Mutant of Lookup: the entry stays.
LookupOnly(t, a) ==
    /\ a \in host /\ host' = host \ {a}
    /\ Enter(t, IF registry[a] # 0 THEN "array" ELSE "string", a, registry[a])
    /\ UNCHANGED <<heap, registry, misfreed>>

\* free_c_memory, a call of the host with a pointer it may still free: the entry is
\* removed, or the pointer is a string
Lookup(t, a) ==
    /\ a \in host /\ host' = host \ {a}
    /\ Enter(t, IF registry[a] # 0 THEN "array" ELSE "string", a, registry[a])
    /\ registry' = [registry EXCEPT ![a] = 0]
    /\ UNCHANGED <<heap, misfreed>>

\* the allocation goes back to the heap, as what the registry said it was
Release(t) ==
    /\ call[t].op \in {"array", "string"}
    /\ misfreed' = (misfreed \/ heap[call[t].at] # [kind |-> call[t].op, len |-> call[t].len])
    /\ heap' = [heap EXCEPT ![call[t].at] = Free]
    /\ call' = [call EXCEPT ![t] = Idle]
    /\ UNCHANGED <<registry, host>>

Next ==
    \E t \in Threads :
        \/ Register(t) \/ Release(t)
        \/ \E a \in Addresses :
               AllocString(t, a) \/ Lookup(t, a) \/ \E n \in Lengths : AllocArray(t, a, n)

Spec == Init /\ [][Next]_vars

-----------------------------------------------------------------------------
\* The state is well formed.
TypeOK ==
    /\ heap \in [Addresses -> Blocks]
    /\ registry \in [Addresses -> Lengths \cup {0}]
    /\ host \subseteq Addresses
    /\ \A t \in Threads : call[t].op \in {"idle", "register", "array", "string"}

\* Every pointer is released as what it was allocated as, an array with its length,
\* whichever thread releases it and whatever the heap gave its address to in between.
ReleasedAsAllocated == ~misfreed

\* The registry names live arrays, with their lengths, and no string.
RegistryIsOfLiveArrays ==
    \A a \in Addresses : registry[a] # 0 => heap[a] = Array(registry[a])
=============================================================================
