------------------------------ MODULE HostsProofs ------------------------------
(* What the components of Hosts guarantee for every number of threads, users, *)
(* addresses, pitches and voices.                                             *)
(*                                                                            *)
(* Each part has an inductive invariant of its own.  A behaviour is about one *)
(* part, so the invariant of the specification is that of its part; the       *)
(* theorem of a part needs the other disjuncts of HostsNext only to be false. *)
EXTENDS Hosts, FactoryCacheProofs, Sequences, FiniteSetTheorems, WellFoundedInduction, TLAPS

(***************************************************************************)
(* HostMemory.  A block has one owner: the host, which may free it, or the *)
(* call that allocated it and has not registered it, or the call that      *)
(* looked it up and has not released it.  The registry speaks only of      *)
(* blocks the host owns.                                                   *)
(***************************************************************************)
Called == [op : {"idle", "register", "array", "string"}, at : Addresses \cup {"none"},
           len : Lengths \cup {0}]

Owned(t) == call[t].op # "idle"

CallsOwnBlocks ==
    \A t \in FreeingThreads :
        Owned(t) =>
            /\ call[t].at \in Addresses \ host
            /\ registry[call[t].at] = 0
            /\ heap[call[t].at] =
                 IF call[t].op = "register" THEN Memory!Array(call[t].len)
                 ELSE [kind |-> call[t].op, len |-> call[t].len]
            /\ call[t].op = "register" => call[t].len # 0

OneCallPerBlock ==
    \A t, u \in FreeingThreads :
        Owned(t) /\ Owned(u) /\ call[t].at = call[u].at => t = u

HostOwnsBlocks ==
    /\ \A a \in host :
          heap[a] = IF registry[a] = 0 THEN Memory!String ELSE Memory!Array(registry[a])
    /\ \A a \in Addresses : registry[a] # 0 => a \in host

MemoryInv ==
    /\ heap \in [Addresses -> Memory!Blocks]
    /\ registry \in [Addresses -> Lengths \cup {0}]
    /\ host \subseteq Addresses
    /\ call \in [FreeingThreads -> Called]
    /\ ~ misfreed
    /\ CallsOwnBlocks /\ OneCallPerBlock /\ HostOwnsBlocks

LEMMA MemoryInitInv == Memory!Init => MemoryInv
  BY DEF Memory!Init, MemoryInv, Memory!Blocks, Memory!Free, Memory!Idle, Called, Owned,
         CallsOwnBlocks, OneCallPerBlock, HostOwnsBlocks

LEMMA MemoryInvImplies ==
  ASSUME MemoryInv
  PROVE  Memory!TypeOK /\ Memory!ReleasedAsAllocated /\ Memory!RegistryIsOfLiveArrays
  BY DEF MemoryInv, Memory!TypeOK, Memory!ReleasedAsAllocated, Memory!RegistryIsOfLiveArrays,
         HostOwnsBlocks, Called

LEMMA FreeBlock ==
  ASSUME MemoryInv, NEW a \in Addresses, heap[a] = Memory!Free
  PROVE  /\ a \notin host /\ registry[a] = 0
         /\ \A u \in FreeingThreads : Owned(u) => call[u].at # a
  <1> USE DEF MemoryInv
  <1>1. a \notin host
    <2>1. a \in host => \/ heap[a] = [kind |-> "string", len |-> 0]
                        \/ heap[a] = [kind |-> "array", len |-> registry[a]]
      BY DEF HostOwnsBlocks, Memory!String, Memory!Array
    <2> QED
      BY <2>1 DEF Memory!Free
  <1>2. registry[a] = 0
    BY <1>1 DEF HostOwnsBlocks
  <1>3. ASSUME NEW u \in FreeingThreads, Owned(u), call[u].at = a PROVE FALSE
    <2>1. call[u].op \in {"register", "array", "string"}
      BY <1>3 DEF Owned, Called
    <2>2. heap[a] = IF call[u].op = "register" THEN Memory!Array(call[u].len)
                    ELSE [kind |-> call[u].op, len |-> call[u].len]
      BY <1>3 DEF CallsOwnBlocks
    <2> QED
      BY <2>1, <2>2 DEF Memory!Free, Memory!Array
  <1> QED
    BY <1>1, <1>2, <1>3

LEMMA MemoryStep ==
  ASSUME MemoryInv, Memory!Next \/ UNCHANGED memoryVars
  PROVE  MemoryInv'
  <1> USE HostsAssumption DEF MemoryInv, Memory!MemoryAssumption
  <1>1. CASE UNCHANGED memoryVars
    BY <1>1 DEF memoryVars, CallsOwnBlocks, OneCallPerBlock, HostOwnsBlocks, Owned
  <1> SUFFICES ASSUME NEW t \in FreeingThreads,
                      \/ Memory!Register(t) \/ Memory!Release(t)
                      \/ \E a \in Addresses :
                            \/ Memory!AllocString(t, a) \/ Memory!Lookup(t, a)
                            \/ \E n \in Lengths : Memory!AllocArray(t, a, n)
               PROVE  MemoryInv'
    BY <1>1 DEF Memory!Next
  <1> USE DEF CallsOwnBlocks, OneCallPerBlock, HostOwnsBlocks, Owned, Called,
              Memory!Array, Memory!String, Memory!Free, Memory!Idle, Memory!Blocks
  <1>2. CASE Memory!Register(t)
    <2> DEFINE a == call[t].at
    <2>1. /\ call[t].op = "register" /\ call' = [call EXCEPT ![t] = Memory!Idle]
          /\ registry' = [registry EXCEPT ![a] = call[t].len] /\ host' = host \cup {a}
          /\ UNCHANGED <<heap, misfreed>>
      BY <1>2 DEF Memory!Register
    <2>2. /\ a \in Addresses \ host /\ registry[a] = 0 /\ heap[a] = Memory!Array(call[t].len)
          /\ call[t].len # 0 /\ call[t].len \in Lengths
      BY <2>1
    <2>3. \A u \in FreeingThreads \ {t} : Owned(u) => call[u].at # a
      BY <2>1
    <2>4. \A u \in FreeingThreads : Owned(u)' => u # t /\ Owned(u) /\ call'[u] = call[u]
      BY <2>1
    <2>5. CallsOwnBlocks' /\ OneCallPerBlock'
      BY <2>1, <2>2, <2>3, <2>4
    <2>6. HostOwnsBlocks'
      BY <2>1, <2>2
    <2>7. /\ call' \in [FreeingThreads -> Called] /\ registry' \in [Addresses -> Lengths \cup {0}]
          /\ host' \subseteq Addresses
      BY <2>1, <2>2
    <2> HIDE DEF CallsOwnBlocks, OneCallPerBlock, HostOwnsBlocks, Called, Memory!Blocks
    <2> QED
      BY <2>1, <2>5, <2>6, <2>7
  <1>3. CASE Memory!Release(t)
    <2> DEFINE a == call[t].at
    <2>1. /\ call[t].op \in {"array", "string"} /\ call' = [call EXCEPT ![t] = Memory!Idle]
          /\ heap' = [heap EXCEPT ![a] = Memory!Free]
          /\ misfreed' = (misfreed \/ heap[a] # [kind |-> call[t].op, len |-> call[t].len])
          /\ UNCHANGED <<registry, host>>
      BY <1>3 DEF Memory!Release
    <2>2. /\ a \in Addresses \ host /\ registry[a] = 0
          /\ heap[a] = [kind |-> call[t].op, len |-> call[t].len]
      BY <2>1
    <2>3. \A u \in FreeingThreads \ {t} : Owned(u) => call[u].at # a
      BY <2>1
    <2>4. \A u \in FreeingThreads : Owned(u)' => u # t /\ Owned(u) /\ call'[u] = call[u]
      BY <2>1
    <2>5. CallsOwnBlocks' /\ OneCallPerBlock'
      BY <2>1, <2>2, <2>3, <2>4
    <2>6. HostOwnsBlocks'
      BY <2>1, <2>2
    <2>7. call' \in [FreeingThreads -> Called] /\ heap' \in [Addresses -> Memory!Blocks] /\ ~ misfreed'
      BY <2>1, <2>2
    <2> HIDE DEF CallsOwnBlocks, OneCallPerBlock, HostOwnsBlocks, Called, Memory!Blocks
    <2> QED
      BY <2>1, <2>5, <2>6, <2>7
  <1>4. ASSUME NEW a \in Addresses, Memory!AllocString(t, a) PROVE MemoryInv'
    <2>1. /\ heap[a] = Memory!Free /\ call[t] = Memory!Idle
          /\ heap' = [heap EXCEPT ![a] = Memory!String] /\ host' = host \cup {a}
          /\ UNCHANGED <<registry, call, misfreed>>
      BY <1>4 DEF Memory!AllocString
    <2>2. a \notin host /\ registry[a] = 0 /\ \A u \in FreeingThreads : Owned(u) => call[u].at # a
      BY <2>1, FreeBlock
    <2>3. CallsOwnBlocks'
      BY <2>1, <2>2
    <2>4. OneCallPerBlock' /\ HostOwnsBlocks'
      BY <2>1, <2>2
    <2> QED
      BY <2>1, <2>3, <2>4
  <1>5. ASSUME NEW a \in Addresses, Memory!Lookup(t, a) PROVE MemoryInv'
    <2> DEFINE r == [op |-> IF registry[a] # 0 THEN "array" ELSE "string", at |-> a,
                     len |-> registry[a]]
    <2>1. /\ a \in host /\ host' = host \ {a} /\ call[t] = Memory!Idle
          /\ call' = [call EXCEPT ![t] = r]
          /\ registry' = [registry EXCEPT ![a] = 0]
          /\ UNCHANGED <<heap, misfreed>>
      BY <1>5 DEF Memory!Lookup, Memory!Enter
    <2>2. \A u \in FreeingThreads : Owned(u) => call[u].at # a
      BY <2>1
    <2>3. heap[a] = [kind |-> r.op, len |-> r.len] /\ r \in Called
      BY <2>1
    <2>4. CallsOwnBlocks'
      <3> SUFFICES ASSUME NEW u \in FreeingThreads, Owned(u)'
                   PROVE  /\ call'[u].at \in Addresses \ host'
                          /\ registry'[call'[u].at] = 0
                          /\ heap'[call'[u].at] =
                               IF call'[u].op = "register" THEN Memory!Array(call'[u].len)
                               ELSE [kind |-> call'[u].op, len |-> call'[u].len]
                          /\ call'[u].op = "register" => call'[u].len # 0
        BY DEF CallsOwnBlocks
      <3>1. CASE u = t
        BY <3>1, <2>1, <2>3
      <3>2. CASE u # t
        BY <3>2, <2>1, <2>2
      <3> QED
        BY <3>1, <3>2
    <2>5. OneCallPerBlock'
      BY <2>1, <2>2
    <2>6. HostOwnsBlocks'
      BY <2>1
    <2>7. call' \in [FreeingThreads -> Called]
      BY <2>1, <2>3
    <2>8. /\ heap' \in [Addresses -> Memory!Blocks] /\ registry' \in [Addresses -> Lengths \cup {0}]
          /\ host' \subseteq Addresses /\ ~ misfreed'
      BY <2>1
    <2> HIDE DEF CallsOwnBlocks, OneCallPerBlock, HostOwnsBlocks, Called, Memory!Blocks
    <2> QED
      BY <2>4, <2>5, <2>6, <2>7, <2>8
  <1>6. ASSUME NEW a \in Addresses, NEW n \in Lengths, Memory!AllocArray(t, a, n) PROVE MemoryInv'
    <2>1. /\ heap[a] = Memory!Free /\ call[t] = Memory!Idle
          /\ call' = [call EXCEPT ![t] = [op |-> "register", at |-> a, len |-> n]]
          /\ heap' = [heap EXCEPT ![a] = Memory!Array(n)]
          /\ UNCHANGED <<registry, host, misfreed>>
      BY <1>6 DEF Memory!AllocArray, Memory!Enter
    <2>2. a \notin host /\ registry[a] = 0 /\ \A u \in FreeingThreads : Owned(u) => call[u].at # a
      BY <2>1, FreeBlock
    <2>3. n # 0 /\ n \in Nat
      BY DEF HostsAssumption
    <2>4. CallsOwnBlocks'
      BY <2>1, <2>2, <2>3
    <2>5. OneCallPerBlock' /\ HostOwnsBlocks'
      BY <2>1, <2>2
    <2>6. call' \in [FreeingThreads -> Called]
      BY <2>1
    <2>7. /\ heap' \in [Addresses -> Memory!Blocks] /\ registry' \in [Addresses -> Lengths \cup {0}]
          /\ host' \subseteq Addresses /\ ~ misfreed'
      BY <2>1
    <2> HIDE DEF CallsOwnBlocks, OneCallPerBlock, HostOwnsBlocks, Called, Memory!Blocks
    <2> QED
      BY <2>4, <2>5, <2>6, <2>7
  <1> QED
    BY <1>2, <1>3, <1>4, <1>5, <1>6

(* Whatever thread frees it and whatever the heap gave its address to in      *)
(* between, what the C APIs hand out is released as what it was allocated as  *)
(* (alloc_c_string, alloc_ptr_array, free_c_memory).                          *)
THEOREM ReleasedAsAllocatedHolds == HostsSpec => []ReleasedAsAllocated
  <1> DEFINE I == part = "memory" => MemoryInv
  <1>1. HostsInit => I
    BY MemoryInitInv DEF HostsInit
  <1>2. I /\ [HostsNext]_hostsVars => I'
    BY MemoryStep DEF HostsNext, hostsVars, memoryVars
  <1>3. I => ReleasedAsAllocated
    BY MemoryInvImplies DEF ReleasedAsAllocated
  <1> QED
    BY <1>1, <1>2, <1>3, PTL DEF HostsSpec

-----------------------------------------------------------------------------
(***************************************************************************)
(* CompleteError.  What waits in a thread's cell was attached since it     *)
(* reported, and while a call is failing it is that failure's own.         *)
(***************************************************************************)
AttachedSince ==
    \A t \in Threads : attached[t] # Off => attached[t] \in since[t] \cap (Typed \cup Rendered)

FailingIsAttached ==
    \A t \in Threads : failing[t] # Off => attached[t] = Errors!Attachment(failing[t], Off)

ErrorsInv ==
    /\ Errors!TypeOK /\ AttachedSince /\ FailingIsAttached
    /\ Errors!HostReadsItsLastFailure /\ Errors!NoStrayDiagnostics

LEMMA ErrorsInitInv == Errors!Init => ErrorsInv
  BY HostsAssumption
  DEF Errors!ErrorsAssumption, Errors!Errors, Errors!Init, ErrorsInv, Errors!TypeOK, AttachedSince,
      FailingIsAttached, Errors!HostReadsItsLastFailure, Errors!NoStrayDiagnostics

(* What a report of e publishes: with a failure of the call, that failure's   *)
(* own text and report; otherwise one whose summary e quotes.                 *)
LEMMA ErrorsPublish ==
  ASSUME ErrorsInv, NEW t \in Threads, NEW e \in Errors!Errors, Errors!Publish(t, e),
         failing[t] \in {e, Off}, e \in Failures => failing[t] = e
  PROVE  /\ message' = [message EXCEPT ![t] = e] /\ attached' = [attached EXCEPT ![t] = Off]
         /\ details' \in [Threads -> Rendered \cup {Off}] /\ report' \in [Threads -> Typed \cup {Off}]
         /\ \A u \in Threads \ {t} : details'[u] = details[u] /\ report'[u] = report[u]
         /\ {details'[t], report'[t]} \subseteq since[t] \cup {Off}
         /\ e \in Failures =>
               /\ details'[t] = (IF e \in Rendered THEN e ELSE Off)
               /\ report'[t] = (IF e \in Typed THEN e ELSE Off)
         /\ \A f \in {details'[t], report'[t]} \ {Off} :
               /\ Summary[f] \in Quotes[e]
               /\ details'[t] = (IF f \in Rendered THEN f ELSE Off)
               /\ report'[t] = (IF f \in Typed THEN f ELSE Off)
  <1> DEFINE kept == Errors!Kept(attached[t], e)
  <1>1. /\ details' = [details EXCEPT ![t] = IF kept \in Rendered THEN kept ELSE Off]
        /\ report' = [report EXCEPT ![t] = IF kept \in Typed THEN kept ELSE Off]
        /\ message' = [message EXCEPT ![t] = e] /\ attached' = [attached EXCEPT ![t] = Off]
    BY DEF Errors!Publish
  <1>2. /\ Off \notin Failures /\ Off \notin Rendered /\ Off \notin Typed
        /\ Rendered \subseteq Failures /\ Typed \subseteq Failures
        /\ \A f \in Failures : Summary[f] \in Quotes[f]
    BY HostsAssumption DEF Errors!ErrorsAssumption, Errors!Errors
  <1>3. /\ details \in [Threads -> Rendered \cup {Off}] /\ report \in [Threads -> Typed \cup {Off}]
        /\ attached[t] # Off => attached[t] \in since[t] \cap (Typed \cup Rendered)
        /\ failing[t] # Off => attached[t] = Errors!Attachment(failing[t], Off)
    BY DEF ErrorsInv, Errors!TypeOK, AttachedSince, FailingIsAttached
  <1>4. kept \in {attached[t], Off} /\ (kept # Off => Summary[kept] \in Quotes[e])
    BY DEF Errors!Kept
  <1>5. e \in Failures => kept = Errors!Attachment(e, Off)
    BY <1>2, <1>3 DEF Errors!Kept, Errors!Attachment
  <1>6. kept # Off => kept \in since[t] \cap (Typed \cup Rendered)
    BY <1>3, <1>4
  <1> HIDE DEF kept
  <1>7. /\ details'[t] = IF kept \in Rendered THEN kept ELSE Off
        /\ report'[t] = IF kept \in Typed THEN kept ELSE Off
    BY <1>1, <1>3
  <1>8. e \in Failures =>
          /\ details'[t] = (IF e \in Rendered THEN e ELSE Off)
          /\ report'[t] = (IF e \in Typed THEN e ELSE Off)
    BY <1>2, <1>5, <1>7 DEF Errors!Attachment
  <1>9. \A f \in {details'[t], report'[t]} \ {Off} :
           /\ Summary[f] \in Quotes[e]
           /\ details'[t] = (IF f \in Rendered THEN f ELSE Off)
           /\ report'[t] = (IF f \in Typed THEN f ELSE Off)
    BY <1>4, <1>7
  <1> QED
    BY <1>1, <1>3, <1>6, <1>7, <1>8, <1>9

LEMMA ErrorsStep ==
  ASSUME ErrorsInv, Errors!Next \/ UNCHANGED errorVars
  PROVE  ErrorsInv' /\ Errors!AttachedForOneReport /\ Errors!PointersOutliveOtherThreads
  <1> USE DEF Errors!TypeOK, AttachedSince, FailingIsAttached,
              Errors!HostReadsItsLastFailure, Errors!NoStrayDiagnostics,
              Errors!AttachedForOneReport, Errors!PointersOutliveOtherThreads
  <1>0. /\ Off \notin Failures /\ Off \notin Rendered /\ Off \notin Typed
        /\ Off \notin ArgumentErrors /\ Failures \cap ArgumentErrors = {}
        /\ Rendered \subseteq Failures /\ Typed \subseteq Failures
    BY HostsAssumption DEF Errors!ErrorsAssumption, Errors!Errors
  <1>1. CASE UNCHANGED errorVars
    BY <1>1 DEF errorVars, ErrorsInv
  <1>2. ASSUME NEW t \in Threads, NEW f \in Failures, Errors!CompileFails(t, f)
        PROVE  ErrorsInv' /\ Errors!AttachedForOneReport /\ Errors!PointersOutliveOtherThreads
    BY <1>0, <1>2 DEF ErrorsInv, Errors!CompileFails, Errors!Attachment
  <1>3. ASSUME NEW t \in Threads, NEW e \in Errors!Errors, Errors!Publish(t, e),
               failing[t] \in {e, Off}, e \in Failures => failing[t] = e,
               told' = [told EXCEPT ![t] = e], since' = [since EXCEPT ![t] = {}],
               failing' = [failing EXCEPT ![t] = Off]
        PROVE  ErrorsInv' /\ Errors!AttachedForOneReport /\ Errors!PointersOutliveOtherThreads
    <2>1. /\ message' = [message EXCEPT ![t] = e] /\ attached' = [attached EXCEPT ![t] = Off]
          /\ details' \in [Threads -> Rendered \cup {Off}] /\ report' \in [Threads -> Typed \cup {Off}]
          /\ \A u \in Threads \ {t} : details'[u] = details[u] /\ report'[u] = report[u]
          /\ {details'[t], report'[t]} \subseteq since[t] \cup {Off}
          /\ e \in Failures =>
                /\ details'[t] = (IF e \in Rendered THEN e ELSE Off)
                /\ report'[t] = (IF e \in Typed THEN e ELSE Off)
          /\ \A f \in {details'[t], report'[t]} \ {Off} :
                /\ Summary[f] \in Quotes[e]
                /\ details'[t] = (IF f \in Rendered THEN f ELSE Off)
                /\ report'[t] = (IF f \in Typed THEN f ELSE Off)
      BY <1>3, ErrorsPublish
    <2>2. e # Off
      BY <1>0 DEF Errors!Errors
    <2>3. Errors!TypeOK'
      BY <1>3, <2>1 DEF ErrorsInv, Errors!Errors
    <2>4. AttachedSince' /\ FailingIsAttached'
      BY <1>3, <2>1 DEF ErrorsInv
    <2>5. Errors!HostReadsItsLastFailure'
      <3> SUFFICES ASSUME NEW u \in Threads
                   PROVE  /\ message'[u] = told'[u]
                          /\ told'[u] \in Failures =>
                                /\ details'[u] = (IF told'[u] \in Rendered THEN told'[u] ELSE Off)
                                /\ report'[u] = (IF told'[u] \in Typed THEN told'[u] ELSE Off)
        OBVIOUS
      <3>1. CASE u = t
        BY <1>3, <2>1, <3>1 DEF ErrorsInv
      <3>2. CASE u # t
        BY <1>3, <2>1, <3>2 DEF ErrorsInv
      <3> QED
        BY <3>1, <3>2
    <2>6. Errors!NoStrayDiagnostics'
      <3> SUFFICES ASSUME NEW u \in Threads, told'[u] \notin Failures,
                          NEW f \in {details'[u], report'[u]} \ {Off}
                   PROVE  /\ told'[u] # Off /\ Summary[f] \in Quotes[told'[u]]
                          /\ details'[u] = (IF f \in Rendered THEN f ELSE Off)
                          /\ report'[u] = (IF f \in Typed THEN f ELSE Off)
        OBVIOUS
      <3>1. CASE u = t
        BY <1>3, <2>1, <2>2, <3>1 DEF ErrorsInv
      <3>2. CASE u # t
        BY <1>3, <2>1, <3>2 DEF ErrorsInv
      <3> QED
        BY <3>1, <3>2
    <2>7. Errors!AttachedForOneReport
      BY <1>3, <2>1 DEF ErrorsInv
    <2>8. Errors!PointersOutliveOtherThreads
      BY <1>3, <2>1 DEF ErrorsInv
    <2> QED
      BY <2>3, <2>4, <2>5, <2>6, <2>7, <2>8 DEF ErrorsInv
  <1>4. ASSUME NEW t \in Threads, Errors!Recover(t)
        PROVE  ErrorsInv' /\ Errors!AttachedForOneReport /\ Errors!PointersOutliveOtherThreads
    BY <1>0, <1>4 DEF ErrorsInv, Errors!Recover
  <1>5. ASSUME NEW t \in Threads, Errors!ReportFailure(t)
        PROVE  ErrorsInv' /\ Errors!AttachedForOneReport /\ Errors!PointersOutliveOtherThreads
    <2>1. /\ failing[t] \in Errors!Errors /\ Errors!Publish(t, failing[t])
          /\ told' = [told EXCEPT ![t] = failing[t]] /\ since' = [since EXCEPT ![t] = {}]
          /\ failing' = [failing EXCEPT ![t] = Off]
      BY <1>5 DEF ErrorsInv, Errors!ReportFailure, Errors!Errors
    <2> QED
      BY <1>3, <2>1
  <1>6. ASSUME NEW t \in Threads, NEW e \in ArgumentErrors, Errors!Refuse(t, e)
        PROVE  ErrorsInv' /\ Errors!AttachedForOneReport /\ Errors!PointersOutliveOtherThreads
    <2>1. failing' = [failing EXCEPT ![t] = Off] /\ e \notin Failures
      BY <1>0, <1>6 DEF ErrorsInv, Errors!Refuse
    <2> QED
      BY <1>3, <1>6, <2>1 DEF Errors!Refuse, Errors!Errors
  <1> QED
    BY <1>1, <1>2, <1>4, <1>5, <1>6 DEF Errors!Next

(* The getters of a thread describe its last call that failed, whatever it    *)
(* recovered from before; what a report publishes was attached since the one  *)
(* before it, and other threads leave it alone (complete_error.rs).           *)
THEOREM ErrorChannelTellsTheLastFailureHolds == HostsSpec => ErrorChannelTellsTheLastFailure
  <1> DEFINE I == part = "errors" => ErrorsInv
             Q == part = "errors" =>
                    Errors!TypeOK /\ Errors!HostReadsItsLastFailure /\ Errors!NoStrayDiagnostics
             A == part = "errors" =>
                    Errors!AttachedForOneReport /\ Errors!PointersOutliveOtherThreads
  <1>1. HostsInit => I
    BY ErrorsInitInv DEF HostsInit
  <1>2. I /\ [HostsNext]_hostsVars => I' /\ A
    BY ErrorsStep DEF HostsNext, hostsVars, errorVars
  <1>3. I => Q
    BY DEF ErrorsInv
  <1> QED
    BY <1>1, <1>2, <1>3, PTL DEF HostsSpec, ErrorChannelTellsTheLastFailure

-----------------------------------------------------------------------------
(***************************************************************************)
(* VoiceAllocation.  A queued note is a pitch, so that the voice it was    *)
(* queued on plays it at the next block; and no more note-offs are due     *)
(* than notes have been started.                                           *)
(***************************************************************************)
LEMMA LeastNatural ==
  ASSUME NEW T \in SUBSET Nat, T # {}
  PROVE  \E m \in T : \A k \in T : m <= k
  <1> DEFINE R == {ss \in Nat \X Nat : ss[1] < ss[2]}
  <1>1. IsWellFoundedOn(R, Nat)
    BY NatLessThanWellFounded, Zenon DEF OpToRel
  <1>2. \A k, m \in Nat : <<k, m>> \in R <=> k < m
    OBVIOUS
  <1> HIDE DEF R
  <1>3. PICK m \in T : \A k \in T : ~ (<<k, m>> \in R)
    BY <1>1, WFMin
  <1>4. \A k \in T : k \in Nat /\ m \in Nat /\ ~ (k < m)
    BY <1>2, <1>3
  <1> QED
    BY <1>4

(* Among some voices one is the oldest, the first of those of its date.       *)
LEMMA OldestExists ==
  ASSUME NEW S \in SUBSET Nat, S # {}, NEW vs, \A v \in S : vs[v].date \in Nat
  PROVE  \E v \in S : \A u \in S :
            vs[v].date < vs[u].date \/ (vs[v].date = vs[u].date /\ v <= u)
  <1> DEFINE D == {vs[v].date : v \in S}
  <1>1. PICK d \in D : \A e \in D : d <= e
    <2>1. D \in SUBSET Nat /\ D # {}
      OBVIOUS
    <2> QED
      BY <2>1, LeastNatural
  <1> DEFINE Y == {v \in S : vs[v].date = d}
  <1>2. PICK v \in Y : \A u \in Y : v <= u
    <2>1. Y \in SUBSET Nat /\ Y # {}
      OBVIOUS
    <2> QED
      BY <2>1, LeastNatural
  <1>3. \A u \in S : vs[v].date < vs[u].date \/ (vs[v].date = vs[u].date /\ v <= u)
    <2> TAKE u \in S
    <2>1. d <= vs[u].date /\ vs[v].date = d /\ d \in Nat /\ vs[u].date \in Nat
      BY <1>1, <1>2
    <2>2. CASE vs[u].date = d
      BY <1>2, <2>1, <2>2
    <2>3. CASE vs[u].date # d
      BY <2>1, <2>3
    <2> QED
      BY <2>2, <2>3
  <1> QED
    BY <1>2, <1>3

LEMMA VoicesCardinality == \A S : Voices!Cardinality(S) = Cardinality(S)
  BY Zenon DEF Voices!Cardinality, Cardinality

QueuedNotesArePitches ==
    \A v \in Voices!Voices : voices[v].note = Voices!LEGATO_VOICE => voices[v].next \in Pitches

VoicesInv ==
    /\ Voices!TypeOK /\ \A p \in Pitches : due[p] <= clock
    /\ QueuedNotesArePitches /\ Voices!NoStuckNotes /\ Voices!GateFollowsNote

LEMMA VoiceTypes ==
  ASSUME VoicesInv
  PROVE  /\ NVoices \in Nat \ {0} /\ Voices!Voices \subseteq Nat /\ IsFiniteSet(Voices!Voices)
         /\ MaxNotes \in Nat /\ clock \in 0 .. MaxNotes /\ due \in [Pitches -> 0 .. MaxNotes]
         /\ \A p \in Pitches : p \in 0 .. 127 /\ due[p] \in Nat
         /\ voices \in [Voices!Voices -> Voices!Voice]
         /\ \A v \in Voices!Voices : voices[v] \in Voices!Voice /\ voices[v].date \in Nat
  <1>1. NVoices \in Nat \ {0} /\ MaxNotes \in Nat /\ Pitches \subseteq 0 .. 127
    BY HostsAssumption DEF Voices!VoicesAssumption
  <1>2. IsFiniteSet(0 .. NVoices - 1)
    BY <1>1, FS_Interval
  <1> QED
    BY <1>1, <1>2 DEF VoicesInv, Voices!TypeOK, Voices!Voices, Voices!Voice

LEMMA OldestIn ==
  ASSUME VoicesInv, NEW S \in SUBSET Voices!Voices, S # {}
  PROVE  Voices!Oldest(voices, S) \in S
  <1>1. S \in SUBSET Nat /\ \A v \in S : voices[v].date \in Nat
    BY VoiceTypes
  <1> QED
    BY <1>1, OldestExists DEF Voices!Oldest

(* get_free_voice returns a voice, and one that plays nothing when there is   *)
(* one.                                                                       *)
LEMMA TakenIsAVoice ==
  ASSUME VoicesInv
  PROVE  /\ Voices!Taken(voices) \in Voices!Voices
         /\ LET quiet == Voices!In(voices, {Voices!FREE_VOICE, Voices!RELEASE_VOICE}) IN
            quiet # {} => Voices!Taken(voices) \in quiet
  <1> DEFINE F == Voices!In(voices, {Voices!FREE_VOICE})
             R == Voices!In(voices, {Voices!RELEASE_VOICE})
  <1>1. F \subseteq Voices!Voices /\ R \subseteq Voices!Voices /\ Voices!Voices # {}
        /\ Voices!In(voices, {Voices!FREE_VOICE, Voices!RELEASE_VOICE}) = F \cup R
    BY VoiceTypes DEF Voices!In, Voices!Voices
  <1>2. CASE F # {}
    <2>1. \E v \in F : \A u \in F : v <= u
      BY <1>1, <1>2, VoiceTypes, LeastNatural
    <2> HIDE DEF F
    <2>2. (CHOOSE v \in F : \A u \in F : v <= u) \in F
      BY <2>1
    <2>3. Voices!Taken(voices) \in F
      BY <1>2, <2>2 DEF Voices!Taken, F
    <2> QED
      BY <1>1, <2>3
  <1>3. CASE F = {}
    <2>1. Voices!Taken(voices) = Voices!Oldest(voices, Voices!Candidates(voices))
      BY <1>3 DEF Voices!Taken
    <2>2. Voices!Candidates(voices) = IF R # {} THEN R ELSE Voices!Voices
      BY DEF Voices!Candidates
    <2>3. Voices!Taken(voices) \in Voices!Candidates(voices)
      <3> HIDE DEF R
      <3> QED
        BY <1>1, <2>1, <2>2, OldestIn
    <2> QED
      BY <1>1, <1>3, <2>2, <2>3
  <1> QED
    BY <1>2, <1>3

LEMMA PlayingIsFinite ==
  ASSUME VoicesInv, NEW vs, NEW p
  PROVE  /\ Voices!Playing(vs, p) \subseteq Voices!Voices
         /\ IsFiniteSet(Voices!Playing(vs, p)) /\ Cardinality(Voices!Playing(vs, p)) \in Nat
  <1>1. Voices!Playing(vs, p) \subseteq Voices!Voices
    BY DEF Voices!Playing, Voices!In
  <1>2. IsFiniteSet(Voices!Playing(vs, p))
    BY <1>1, VoiceTypes, FS_Subset
  <1> QED
    BY <1>1, <1>2, FS_CardinalityType

(* A note-on adds its voice to those that play the pitch; it takes a voice    *)
(* that plays another note only when every voice plays.                       *)
LEMMA KeyOnVoices ==
  ASSUME VoicesInv, NEW p \in Pitches, clock < MaxNotes, voices' = Voices!AfterOn(voices, p)
  PROVE  /\ voices' \in [Voices!Voices -> Voices!Voice]
         /\ \A v \in Voices!Voices : voices'[v].date <= clock + 1
         /\ QueuedNotesArePitches' /\ Voices!GateFollowsNote'
         /\ \A q \in Pitches : Voices!Playing(voices', q) \subseteq
               Voices!Playing(voices, q) \cup (IF q = p THEN {Voices!Taken(voices)} ELSE {})
         /\ Voices!In(voices, {Voices!FREE_VOICE, Voices!RELEASE_VOICE}) # {} =>
               \A q \in Pitches : Voices!Playing(voices, q) \subseteq Voices!Playing(voices', q)
  <1> DEFINE v == Voices!Taken(voices)
             old == voices[v]
             new == IF old.note = -1
                    THEN [note |-> p, next |-> old.next, date |-> old.date + 1, gate |-> TRUE, freq |-> p]
                    ELSE [note |-> -3, next |-> p, date |-> old.date + 1, gate |-> old.gate, freq |-> old.freq]
             quiet == Voices!In(voices, {Voices!FREE_VOICE, Voices!RELEASE_VOICE})
  <1>1. /\ v \in Voices!Voices /\ (quiet # {} => v \in quiet)
    BY TakenIsAVoice
  <1> HIDE DEF v
  <1> USE DEF Voices!FREE_VOICE, Voices!RELEASE_VOICE, Voices!LEGATO_VOICE, Voices!NoPitch
  <1>2. /\ voices \in [Voices!Voices -> Voices!Voice] /\ old \in Voices!Voice /\ old.date <= clock
        /\ (\A q \in Pitches : q \in 0 .. 127) /\ clock \in Nat /\ MaxNotes \in Nat /\ old.date \in Nat
        /\ \A u \in Voices!Voices : voices[u].date <= clock /\ voices[u].date \in Nat
    BY <1>1, VoiceTypes DEF VoicesInv, Voices!TypeOK
  <1>3. voices' = [voices EXCEPT ![v] = new]
    <2> DEFINE dated == [old EXCEPT !.date = @ + 1]
    <2>1. voices' = [voices EXCEPT ![v] =
                        IF dated.note = -1
                        THEN [dated EXCEPT !.note = p, !.freq = p, !.gate = TRUE]
                        ELSE [dated EXCEPT !.note = -3, !.next = p]]
      BY DEF Voices!AfterOn, Voices!Sounding, v
    <2>2. dated = [note |-> old.note, next |-> old.next, date |-> old.date + 1,
                   gate |-> old.gate, freq |-> old.freq]
      BY <1>2 DEF Voices!Voice
    <2> HIDE DEF dated
    <2> QED
      BY <2>1, <2>2
  <1>4. new \in Voices!Voice /\ new.date <= clock + 1
    <2>1. old.date + 1 \in 0 .. MaxNotes /\ old.date + 1 <= clock + 1
      BY <1>2
    <2>2. old.next \in Pitches \cup {-1} /\ old.gate \in BOOLEAN /\ old.freq \in Pitches \cup {-1}
      BY <1>2 DEF Voices!Voice
    <2> QED
      BY <2>1, <2>2 DEF Voices!Voice
  <1>5. \/ new.note = p /\ new.gate = TRUE /\ new.freq = p
        \/ new.note = -3 /\ new.next = p
    <2>1. CASE old.note = -1
      <3>1. new = [note |-> p, next |-> old.next, date |-> old.date + 1, gate |-> TRUE, freq |-> p]
        BY <2>1
      <3> QED
        BY <3>1
    <2>2. CASE old.note # -1
      <3>1. new = [note |-> -3, next |-> p, date |-> old.date + 1, gate |-> old.gate, freq |-> old.freq]
        BY <2>2
      <3> QED
        BY <3>1
    <2> QED
      BY <2>1, <2>2
  <1>6. \A u \in Voices!Voices : voices'[u] = IF u = v THEN new ELSE voices[u]
    BY <1>2, <1>3
  <1>7. voices' \in [Voices!Voices -> Voices!Voice]
    BY <1>2, <1>3, <1>4
  <1> HIDE DEF new
  <1>8. \A u \in Voices!Voices : voices'[u].date <= clock + 1
    BY <1>2, <1>4, <1>6
  <1>9. QueuedNotesArePitches'
    BY <1>2, <1>5, <1>6 DEF QueuedNotesArePitches, VoicesInv
  <1>10. Voices!GateFollowsNote'
    <2>1. (new.note \in Pitches => new.gate = TRUE /\ new.freq = new.note) /\ new.note \notin {-1, -2}
      BY <1>2, <1>5
    <2> QED
      BY <1>6, <2>1 DEF Voices!GateFollowsNote, VoicesInv
  <1>11. \A q \in Pitches : Voices!Playing(voices', q) \subseteq
            Voices!Playing(voices, q) \cup (IF q = p THEN {v} ELSE {})
    <2> SUFFICES ASSUME NEW q \in Pitches, NEW u \in Voices!Playing(voices', q)
                 PROVE  u \in Voices!Playing(voices, q) \/ (q = p /\ u = v)
      OBVIOUS
    <2>1. u \in Voices!Voices /\ q \in 0 .. 127
          /\ (voices'[u].note = q \/ (voices'[u].note = -3 /\ voices'[u].next = q))
      BY <1>2 DEF Voices!Playing, Voices!In
    <2>2. CASE u = v
      BY <1>2, <1>5, <1>6, <2>1, <2>2
    <2>3. CASE u # v
      BY <1>6, <2>1, <2>3 DEF Voices!Playing, Voices!In
    <2> QED
      BY <2>2, <2>3
  <1>12. ASSUME quiet # {}, NEW q \in Pitches
         PROVE  Voices!Playing(voices, q) \subseteq Voices!Playing(voices', q)
    <2>1. old.note \in {-1, -2} /\ q \in 0 .. 127
      BY <1>1, <1>12, VoiceTypes DEF Voices!In
    <2> QED
      BY <1>6, <2>1 DEF Voices!Playing, Voices!In
  <1> QED
    BY <1>7, <1>8, <1>9, <1>10, <1>11, <1>12 DEF v

(* A note-off takes one voice from those that play the pitch, if there is one. *)
LEMMA KeyOffVoices ==
  ASSUME VoicesInv, NEW p \in Pitches, NEW hard, voices' = Voices!AfterOff(voices, p, hard)
  PROVE  /\ voices' \in [Voices!Voices -> Voices!Voice]
         /\ \A v \in Voices!Voices : voices'[v].date <= clock
         /\ QueuedNotesArePitches' /\ Voices!GateFollowsNote'
         /\ \A q \in Pitches \ {p} : Voices!Playing(voices', q) = Voices!Playing(voices, q)
         /\ Voices!Playing(voices, p) = {} => voices' = voices
         /\ Voices!Playing(voices, p) # {} => \E v \in Voices!Playing(voices, p) :
               Voices!Playing(voices', p) = Voices!Playing(voices, p) \ {v}
  <1>1. CASE Voices!Playing(voices, p) = {}
    BY <1>1, VoiceTypes DEF Voices!AfterOff, VoicesInv, Voices!TypeOK, QueuedNotesArePitches,
                Voices!GateFollowsNote
  <1>2. CASE Voices!Playing(voices, p) # {}
    <2> DEFINE v == Voices!Oldest(voices, Voices!Playing(voices, p))
               old == voices[v]
               new == [note |-> IF hard THEN -1 ELSE -2, next |-> old.next, date |-> old.date,
                       gate |-> FALSE, freq |-> old.freq]
    <2>1. v \in Voices!Playing(voices, p)
      BY <1>2, PlayingIsFinite, OldestIn
    <2>2. voices' = [voices EXCEPT ![v] = [@ EXCEPT !.note = IF hard THEN -1 ELSE -2, !.gate = FALSE]]
      BY <1>2 DEF Voices!AfterOff, Voices!FREE_VOICE, Voices!RELEASE_VOICE
    <2> HIDE DEF v
    <2> USE DEF Voices!FREE_VOICE, Voices!RELEASE_VOICE, Voices!LEGATO_VOICE, Voices!NoPitch
    <2>3. /\ voices \in [Voices!Voices -> Voices!Voice] /\ old \in Voices!Voice /\ v \in Voices!Voices
          /\ \A u \in Voices!Voices : voices[u].date <= clock
          /\ \A q \in Pitches : q \in 0 .. 127
      BY <2>1, VoiceTypes, PlayingIsFinite DEF VoicesInv, Voices!TypeOK
    <2>4. voices' = [voices EXCEPT ![v] = new] /\ new \in Voices!Voice
      BY <2>2, <2>3 DEF Voices!Voice
    <2>5. new.note \in {-1, -2} /\ new.gate = FALSE /\ new.date = old.date
      OBVIOUS
    <2>6. \A u \in Voices!Voices : voices'[u] = IF u = v THEN new ELSE voices[u]
      BY <2>3, <2>4
    <2>7. voices' \in [Voices!Voices -> Voices!Voice]
      BY <2>3, <2>4
    <2>8. old.note = p \/ (old.note = -3 /\ old.next = p)
      BY <2>1 DEF Voices!Playing, Voices!In
    <2> HIDE DEF new
    <2>9. \A u \in Voices!Voices : voices'[u].date <= clock
      BY <2>3, <2>5, <2>6
    <2>10. QueuedNotesArePitches' /\ Voices!GateFollowsNote'
      BY <2>3, <2>5, <2>6 DEF QueuedNotesArePitches, Voices!GateFollowsNote, VoicesInv
    <2>11. ASSUME NEW q \in Pitches
           PROVE  Voices!Playing(voices', q) = Voices!Playing(voices, q) \ {v}
      BY <2>3, <2>5, <2>6 DEF Voices!Playing, Voices!In
    <2>12. ASSUME NEW q \in Pitches \ {p}
           PROVE  Voices!Playing(voices', q) = Voices!Playing(voices, q)
      <3>1. v \notin Voices!Playing(voices, q)
        BY <2>3, <2>8, <2>12 DEF Voices!Playing, Voices!In
      <3> QED
        BY <2>11, <3>1
    <2> QED
      BY <1>2, <2>1, <2>7, <2>9, <2>10, <2>11, <2>12
  <1> QED
    BY <1>1, <1>2

(* A block makes a queued note sound and frees quiet voices: what plays stays. *)
LEMMA BlockVoices ==
  ASSUME VoicesInv, NEW quiet, voices' = Voices!AfterBlock(voices, quiet)
  PROVE  /\ voices' \in [Voices!Voices -> Voices!Voice]
         /\ \A v \in Voices!Voices : voices'[v].date <= clock
         /\ QueuedNotesArePitches' /\ Voices!GateFollowsNote'
         /\ \A q \in Pitches : Voices!Playing(voices', q) = Voices!Playing(voices, q)
  <1> USE DEF Voices!FREE_VOICE, Voices!RELEASE_VOICE, Voices!LEGATO_VOICE, Voices!NoPitch
  <1>1. /\ voices \in [Voices!Voices -> Voices!Voice] /\ \A q \in Pitches : q \in 0 .. 127
        /\ \A v \in Voices!Voices : voices[v].date <= clock /\ voices[v] \in Voices!Voice
        /\ QueuedNotesArePitches /\ Voices!GateFollowsNote
    BY VoiceTypes DEF VoicesInv, Voices!TypeOK
  <1>2. ASSUME NEW v \in Voices!Voices
        PROVE  /\ voices'[v] \in Voices!Voice /\ voices'[v].date = voices[v].date
               /\ \/ /\ voices[v].note = -3 /\ voices'[v].note = voices[v].next
                     /\ voices'[v].freq = voices'[v].note /\ voices'[v].gate
                     /\ voices'[v].note \in Pitches
                  \/ /\ voices[v].note = -2 /\ voices'[v].note = -1 /\ voices'[v].gate = voices[v].gate
                  \/ voices[v].note # -3 /\ voices'[v] = voices[v]
    <2>1. CASE voices[v].note = -3
      <3>1. voices'[v] = [note |-> voices[v].next, next |-> voices[v].next, date |-> voices[v].date,
                          gate |-> TRUE, freq |-> voices[v].next]
        BY <1>1, <2>1 DEF Voices!AfterBlock, Voices!Sounding, Voices!Voice
      <3>2. voices[v].next \in Pitches
        BY <1>1, <2>1 DEF QueuedNotesArePitches
      <3> QED
        BY <1>1, <2>1, <3>1, <3>2 DEF Voices!Voice
    <2>2. CASE voices[v].note = -2 /\ v \in quiet
      <3>1. voices'[v] = [note |-> -1, next |-> voices[v].next, date |-> voices[v].date,
                          gate |-> voices[v].gate, freq |-> voices[v].freq]
        BY <1>1, <2>2 DEF Voices!AfterBlock, Voices!Voice
      <3> QED
        BY <1>1, <2>2, <3>1 DEF Voices!Voice
    <2>3. CASE voices[v].note # -3 /\ ~ (voices[v].note = -2 /\ v \in quiet)
      BY <1>1, <2>3 DEF Voices!AfterBlock
    <2> QED
      BY <2>1, <2>2, <2>3
  <1>3. voices' \in [Voices!Voices -> Voices!Voice]
    BY <1>2 DEF Voices!AfterBlock
  <1>4. \A v \in Voices!Voices : voices'[v].date <= clock
    BY <1>1, <1>2
  <1>5. QueuedNotesArePitches'
    BY <1>1, <1>2 DEF QueuedNotesArePitches
  <1>6. Voices!GateFollowsNote'
    BY <1>1, <1>2 DEF Voices!GateFollowsNote
  <1>7. \A q \in Pitches : Voices!Playing(voices', q) = Voices!Playing(voices, q)
    BY <1>1, <1>2 DEF Voices!Playing, Voices!In
  <1> QED
    BY <1>3, <1>4, <1>5, <1>6, <1>7

LEMMA VoicesInitInv == Voices!Init => VoicesInv
  <1> SUFFICES ASSUME Voices!Init PROVE VoicesInv
    OBVIOUS
  <1> USE DEF Voices!Init, Voices!Bus, Voices!FreeVoice, Voices!FREE_VOICE, Voices!RELEASE_VOICE,
              Voices!LEGATO_VOICE, Voices!NoPitch
  <1>1. MaxNotes \in Nat /\ Pitches \subseteq 0 .. 127
    BY HostsAssumption DEF Voices!VoicesAssumption
  <1>2. Voices!TypeOK
    BY <1>1 DEF Voices!TypeOK, Voices!Voice
  <1>3. QueuedNotesArePitches /\ Voices!GateFollowsNote
    BY <1>1 DEF QueuedNotesArePitches, Voices!GateFollowsNote
  <1>4. \A p \in Pitches : Voices!Playing(voices, p) = {}
    BY <1>1 DEF Voices!Playing, Voices!In
  <1>5. \A p \in Pitches : Cardinality(Voices!Playing(voices, p)) = 0 /\ due[p] = 0
    BY <1>4, FS_EmptySet
  <1> HIDE DEF Voices!Init, Voices!Bus
  <1>6. Voices!NoStuckNotes
    <2> SUFFICES ASSUME NEW p \in Pitches
                 PROVE  Voices!Cardinality(Voices!Playing(voices, p)) <= due[p]
      BY DEF Voices!NoStuckNotes
    <2> QED
      BY VoicesCardinality, <1>5
  <1> QED
    BY <1>2, <1>3, <1>5, <1>6 DEF VoicesInv, Voices!Init

LEMMA VoicesStep ==
  ASSUME VoicesInv, Voices!Next \/ UNCHANGED voiceVars
  PROVE  VoicesInv' /\ Voices!HeldNotesSound
  <1>0. /\ clock \in Nat /\ MaxNotes \in Nat /\ clock <= MaxNotes
        /\ due \in [Pitches -> 0 .. MaxNotes]
        /\ \A p \in Pitches : due[p] \in Nat /\ due[p] <= clock
        /\ \A p \in Pitches : Cardinality(Voices!Playing(voices, p)) <= due[p]
    BY VoicesCardinality, VoiceTypes DEF VoicesInv, Voices!NoStuckNotes
  <1>1. \A vs, p : /\ IsFiniteSet(Voices!Playing(vs, p))
                   /\ Cardinality(Voices!Playing(vs, p)) \in Nat
    BY PlayingIsFinite
  <1>2. CASE UNCHANGED voiceVars
    <2>1. VoicesInv'
      BY <1>2 DEF voiceVars, VoicesInv, Voices!TypeOK, QueuedNotesArePitches,
                  Voices!NoStuckNotes, Voices!GateFollowsNote
    <2>2. Voices!HeldNotesSound
      BY VoicesCardinality, <1>1, <1>2 DEF voiceVars, Voices!HeldNotesSound
    <2> QED
      BY <2>1, <2>2
  <1>3. ASSUME NEW p \in Pitches, Voices!KeyOn(p)
        PROVE  VoicesInv' /\ Voices!HeldNotesSound
    <2>1. /\ clock < MaxNotes /\ clock' = clock + 1 /\ voices' = Voices!AfterOn(voices, p)
          /\ due' = [due EXCEPT ![p] = due[p] + 1]
      BY <1>3 DEF Voices!KeyOn
    <2>2. /\ voices' \in [Voices!Voices -> Voices!Voice]
          /\ \A v \in Voices!Voices : voices'[v].date <= clock + 1
          /\ QueuedNotesArePitches' /\ Voices!GateFollowsNote'
          /\ \A q \in Pitches : Voices!Playing(voices', q) \subseteq
                Voices!Playing(voices, q) \cup (IF q = p THEN {Voices!Taken(voices)} ELSE {})
          /\ Voices!In(voices, {Voices!FREE_VOICE, Voices!RELEASE_VOICE}) # {} =>
                \A q \in Pitches : Voices!Playing(voices, q) \subseteq Voices!Playing(voices', q)
      BY <2>1, KeyOnVoices
    <2>3. Voices!TypeOK' /\ \A q \in Pitches : due'[q] <= clock'
      BY <1>0, <2>1, <2>2 DEF Voices!TypeOK
    <2>4. ASSUME NEW q \in Pitches
          PROVE  Cardinality(Voices!Playing(voices', q)) <= due'[q]
      <3> DEFINE old == Voices!Playing(voices, q)
                 new == Voices!Playing(voices', q)
      <3>1. IsFiniteSet(old) /\ Cardinality(old) \in Nat /\ Cardinality(new) \in Nat
            /\ Cardinality(old) <= due[q]
        BY <1>0, <1>1
      <3>2. CASE q = p
        <4> DEFINE more == old \cup {Voices!Taken(voices)}
        <4>1. new \subseteq more
          BY <2>2, <3>2
        <4> HIDE DEF old, new
        <4>2. IsFiniteSet(more) /\ Cardinality(more) <= Cardinality(old) + 1 /\ Cardinality(more) \in Nat
          <5>1. IsFiniteSet(more) /\ Cardinality(more) =
                  IF Voices!Taken(voices) \in old THEN Cardinality(old) ELSE Cardinality(old) + 1
            BY <3>1, FS_AddElement
          <5> QED
            BY <3>1, <5>1
        <4>3. Cardinality(new) <= Cardinality(more)
          BY <4>1, <4>2, FS_Subset
        <4>4. due'[q] = due[q] + 1 /\ due[q] \in Nat
          BY <1>0, <2>1, <3>2
        <4>5. Cardinality(new) <= due'[q]
          BY <3>1, <4>2, <4>3, <4>4
        <4> QED
          BY <4>5 DEF new
      <3>3. CASE q # p
        <4>1. new \subseteq old
          BY <2>2, <3>3
        <4> HIDE DEF old, new
        <4>2. Cardinality(new) <= Cardinality(old)
          BY <3>1, <4>1, FS_Subset
        <4>3. due'[q] = due[q] /\ due[q] \in Nat
          BY <1>0, <2>1, <3>3
        <4>4. Cardinality(new) <= due'[q]
          BY <3>1, <4>2, <4>3
        <4> QED
          BY <4>4 DEF new
      <3> QED
        BY <3>2, <3>3
    <2>5. Voices!HeldNotesSound
      <3> SUFFICES ASSUME NEW q \in Pitches,
                          Cardinality(Voices!Playing(voices', q)) < Cardinality(Voices!Playing(voices, q))
                   PROVE  /\ clock' > clock
                          /\ Voices!In(voices, {Voices!FREE_VOICE, Voices!RELEASE_VOICE}) = {}
        BY VoicesCardinality DEF Voices!HeldNotesSound
      <3>1. ~ (Voices!Playing(voices, q) \subseteq Voices!Playing(voices', q))
        <4>1. SUFFICES ASSUME Voices!Playing(voices, q) \subseteq Voices!Playing(voices', q)
                       PROVE  FALSE
          OBVIOUS
        <4>2. Cardinality(Voices!Playing(voices, q)) <= Cardinality(Voices!Playing(voices', q))
          BY <1>1, <4>1, FS_Subset
        <4> QED
          BY <1>1, <4>2
      <3> QED
        BY <1>0, <2>1, <2>2, <3>1
    <2> QED
      BY VoicesCardinality, <2>2, <2>3, <2>4, <2>5 DEF VoicesInv, Voices!NoStuckNotes
  <1>4. ASSUME NEW p \in Pitches, NEW hard \in BOOLEAN, Voices!KeyOff(p, hard)
        PROVE  VoicesInv' /\ Voices!HeldNotesSound
    <2>1. /\ clock' = clock /\ voices' = Voices!AfterOff(voices, p, hard)
          /\ due' = [due EXCEPT ![p] = IF due[p] > 0 THEN due[p] - 1 ELSE 0]
      BY <1>4 DEF Voices!KeyOff
    <2>2. /\ voices' \in [Voices!Voices -> Voices!Voice]
          /\ \A v \in Voices!Voices : voices'[v].date <= clock
          /\ QueuedNotesArePitches' /\ Voices!GateFollowsNote'
          /\ \A q \in Pitches \ {p} : Voices!Playing(voices', q) = Voices!Playing(voices, q)
          /\ Voices!Playing(voices, p) = {} => voices' = voices
          /\ Voices!Playing(voices, p) # {} => \E v \in Voices!Playing(voices, p) :
                Voices!Playing(voices', p) = Voices!Playing(voices, p) \ {v}
      BY <2>1, KeyOffVoices
    <2>3. Voices!TypeOK' /\ \A q \in Pitches : due'[q] <= clock'
      BY <1>0, <2>1, <2>2 DEF Voices!TypeOK
    <2>4. ASSUME NEW q \in Pitches
          PROVE  /\ Cardinality(Voices!Playing(voices', q)) <= due'[q]
                 /\ Cardinality(Voices!Playing(voices', q)) < Cardinality(Voices!Playing(voices, q))
                      => due'[q] < due[q]
      <3>1. CASE q # p
        <4>1. due'[q] = due[q] /\ Voices!Playing(voices', q) = Voices!Playing(voices, q)
          BY <1>0, <2>1, <2>2, <3>1
        <4> QED
          BY <1>0, <1>1, <4>1
      <3>2. CASE q = p /\ Voices!Playing(voices, p) = {}
        <4>1. Cardinality(Voices!Playing(voices, p)) = 0 /\ voices' = voices
          BY <2>2, <3>2, FS_EmptySet
        <4>2. due'[p] \in Nat
          BY <1>0, <2>1
        <4> QED
          BY <3>2, <4>1, <4>2
      <3>3. CASE q = p /\ Voices!Playing(voices, p) # {}
        <4> DEFINE old == Voices!Playing(voices, p)
        <4>1. PICK v \in old : Voices!Playing(voices', p) = old \ {v}
          BY <2>2, <3>3
        <4>2. IsFiniteSet(old) /\ Cardinality(old) \in Nat /\ Cardinality(old) <= due[p] /\ old # {}
          BY <1>0, <1>1, <3>3
        <4> HIDE DEF old
        <4>3. Cardinality(old \ {v}) = Cardinality(old) - 1 /\ Cardinality(old) # 0
          BY <4>1, <4>2, FS_RemoveElement, FS_EmptySet
        <4>4. due'[p] = due[p] - 1 /\ due[p] \in Nat
          BY <1>0, <2>1, <4>2, <4>3
        <4> QED
          BY <3>3, <4>1, <4>2, <4>3, <4>4
      <3> QED
        BY <3>1, <3>2, <3>3
    <2> QED
      BY VoicesCardinality, <2>2, <2>3, <2>4 DEF VoicesInv, Voices!NoStuckNotes, Voices!HeldNotesSound
  <1>5. ASSUME NEW quiet \in SUBSET Voices!Voices, Voices!Compute(quiet)
        PROVE  VoicesInv' /\ Voices!HeldNotesSound
    <2>1. voices' = Voices!AfterBlock(voices, quiet) /\ UNCHANGED <<clock, due>>
      BY <1>5 DEF Voices!Compute
    <2>2. /\ voices' \in [Voices!Voices -> Voices!Voice]
          /\ \A v \in Voices!Voices : voices'[v].date <= clock
          /\ QueuedNotesArePitches' /\ Voices!GateFollowsNote'
          /\ \A q \in Pitches : Voices!Playing(voices', q) = Voices!Playing(voices, q)
      BY <2>1, BlockVoices
    <2>3. Voices!TypeOK' /\ (\A q \in Pitches : due'[q] <= clock') /\ Voices!NoStuckNotes'
      BY VoicesCardinality, <1>0, <2>1, <2>2 DEF Voices!TypeOK, Voices!NoStuckNotes
    <2>4. Voices!HeldNotesSound
      BY VoicesCardinality, <1>1, <2>2 DEF Voices!HeldNotesSound
    <2> QED
      BY <2>2, <2>3, <2>4 DEF VoicesInv
  <1>6. ASSUME Voices!Reset PROVE VoicesInv' /\ Voices!HeldNotesSound
    <2>1. voices' = Voices!Bus /\ due' = [p \in Pitches |-> 0] /\ clock' = clock
      BY <1>6 DEF Voices!Reset
    <2> USE DEF Voices!Bus, Voices!FreeVoice, Voices!FREE_VOICE, Voices!RELEASE_VOICE,
                Voices!LEGATO_VOICE, Voices!NoPitch
    <2>2. \A p \in Pitches : p \in 0 .. 127
      BY VoiceTypes
    <2>3. Voices!TypeOK' /\ \A q \in Pitches : due'[q] <= clock'
      BY <1>0, <2>1 DEF Voices!TypeOK, Voices!Voice
    <2>4. QueuedNotesArePitches' /\ Voices!GateFollowsNote'
      BY <2>1, <2>2 DEF QueuedNotesArePitches, Voices!GateFollowsNote
    <2>5. \A p \in Pitches : Voices!Playing(voices', p) = {}
      BY <2>1, <2>2 DEF Voices!Playing, Voices!In
    <2>6. \A p \in Pitches : Cardinality(Voices!Playing(voices', p)) = 0
      BY <2>5, FS_EmptySet
    <2>7. \A p \in Pitches :
             /\ Cardinality(Voices!Playing(voices', p)) <= due'[p]
             /\ Cardinality(Voices!Playing(voices', p)) < Cardinality(Voices!Playing(voices, p))
                  => due'[p] < due[p]
      <3> TAKE p \in Pitches
      <3>1. due'[p] = 0 /\ Cardinality(Voices!Playing(voices', p)) = 0
            /\ Cardinality(Voices!Playing(voices, p)) \in Nat /\ due[p] \in Nat
            /\ Cardinality(Voices!Playing(voices, p)) <= due[p]
        BY <1>0, <1>1, <2>1, <2>6
      <3> QED
        BY <3>1
    <2>8. Voices!NoStuckNotes' /\ Voices!HeldNotesSound
      BY VoicesCardinality, <2>7 DEF Voices!NoStuckNotes, Voices!HeldNotesSound
    <2> QED
      BY <2>3, <2>4, <2>8 DEF VoicesInv
  <1> QED
    BY <1>2, <1>3, <1>4, <1>5, <1>6 DEF Voices!Next

(* No stuck note, the instances follow the bookkeeping, and a note is cut     *)
(* only by its note-off or, with every voice playing, by a steal (poly.rs).   *)
THEOREM VoicesFollowTheirNotesHolds == HostsSpec => VoicesFollowTheirNotes
  <1> DEFINE I == part = "voices" => VoicesInv
             Q == part = "voices" =>
                    Voices!TypeOK /\ Voices!NoStuckNotes /\ Voices!GateFollowsNote
             A == part = "voices" => Voices!HeldNotesSound
  <1>1. HostsInit => I
    BY VoicesInitInv DEF HostsInit
  <1>2. I /\ [HostsNext]_hostsVars => I' /\ A
    BY VoicesStep DEF HostsNext, hostsVars, voiceVars
  <1>3. I => Q
    BY DEF VoicesInv
  <1> QED
    BY <1>1, <1>2, <1>3, PTL DEF HostsSpec, VoicesFollowTheirNotes

(***************************************************************************)
(* TreeHandles.  Nodes come before those they are used in, so what a node  *)
(* stands for is a function on the naturals that this much of the arena    *)
(* determines; it stays as the arena grows, and two nodes stand for two    *)
(* trees because no node and no control is interned twice.                 *)
(***************************************************************************)
(* A node of the arena, and a control, as the model looks them up.            *)
NodeIn(nodes, i) == IF i \in DOMAIN nodes THEN nodes[i] ELSE <<"none", "none">>
ControlIn(list, i) == IF i \in DOMAIN list THEN list[i] ELSE <<0, 0>>

(* What node i stands for, T giving what its children stand for.              *)
TreeOf(nodes, list, i, T) ==
    LET node == NodeIn(nodes, i) IN
    IF node[1] = "neg" THEN <<"neg", T[node[2]]>>
    ELSE IF node[1] = "ui"
    THEN LET c == ControlIn(list, node[2]) IN <<"slider", NodeIn(nodes, c[1])[2], T[c[2]]>>
    ELSE node

(* What every node stands for.                                                *)
TreesOf(nodes, list) == CHOOSE T : T = [i \in Nat |-> TreeOf(nodes, list, i, T)]

(* Children come before their parents.                                        *)
Descends(nodes, list) ==
    \A i \in Nat :
        /\ NodeIn(nodes, i)[1] = "neg" => NodeIn(nodes, i)[2] \in 0 .. i - 1
        /\ NodeIn(nodes, i)[1] = "ui" => ControlIn(list, NodeIn(nodes, i)[2])[2] \in 0 .. i - 1

(* What a node stands for depends on its children only.                       *)
LEMMA TreeOfChildren ==
  ASSUME NEW nodes, NEW list, Descends(nodes, list), NEW i \in Nat, NEW T, NEW U,
         \A k \in 0 .. i - 1 : T[k] = U[k]
  PROVE  TreeOf(nodes, list, i, T) = TreeOf(nodes, list, i, U)
  BY DEF Descends, TreeOf

(* The trees are defined below n.                                             *)
Spells(nodes, list, T, n) == \A k \in 0 .. n - 1 : T[k] = TreeOf(nodes, list, k, T)

(* Only one way to say it,                                                    *)
LEMMA OneSpelling ==
  ASSUME NEW nodes, NEW list, Descends(nodes, list), NEW n \in Nat, NEW T, NEW U,
         Spells(nodes, list, T, n), Spells(nodes, list, U, n)
  PROVE  \A k \in 0 .. n - 1 : T[k] = U[k]
  <1> DEFINE B == {k \in 0 .. n - 1 : T[k] # U[k]}
  <1> SUFFICES ASSUME B # {} PROVE FALSE
    OBVIOUS
  <1>1. PICK m \in B : \A k \in B : m <= k
    <2>1. B \in SUBSET Nat
      OBVIOUS
    <2> QED
      BY <2>1, LeastNatural
  <1>2. m \in Nat /\ m \in 0 .. n - 1 /\ \A k \in 0 .. m - 1 : T[k] = U[k]
    BY <1>1
  <1>3. TreeOf(nodes, list, m, T) = TreeOf(nodes, list, m, U)
    BY <1>2, TreeOfChildren
  <1> QED
    BY <1>1, <1>2, <1>3 DEF Spells

(* and always one,                                                            *)
LEMMA SpellingExists ==
  ASSUME NEW nodes, NEW list, Descends(nodes, list)
  PROVE  \A n \in Nat : \E T : Spells(nodes, list, T, n)
  <1> DEFINE B == {n \in Nat : ~ \E T : Spells(nodes, list, T, n)}
  <1> SUFFICES ASSUME B # {} PROVE FALSE
    OBVIOUS
  <1>1. PICK m \in B : \A k \in B : m <= k
    BY LeastNatural
  <1>2. m # 0
    <2>1. \A T : Spells(nodes, list, T, 0)
      BY DEF Spells
    <2> QED
      BY <1>1, <2>1
  <1>3. m \in Nat /\ m - 1 \in Nat /\ m - 1 \notin B
    BY <1>1, <1>2
  <1>4. PICK T : Spells(nodes, list, T, m - 1)
    BY <1>3
  <1> DEFINE U == [k \in 0 .. m - 1 |-> IF k < m - 1 THEN T[k] ELSE TreeOf(nodes, list, k, T)]
  <1>5. Spells(nodes, list, U, m)
    <2> SUFFICES ASSUME NEW k \in 0 .. m - 1 PROVE U[k] = TreeOf(nodes, list, k, U)
      BY DEF Spells
    <2>1. k \in Nat /\ \A l \in 0 .. k - 1 : U[l] = T[l]
      BY <1>3
    <2>2. TreeOf(nodes, list, k, U) = TreeOf(nodes, list, k, T)
      <3> HIDE DEF U
      <3> QED
        BY <2>1, TreeOfChildren
    <2>3. k < m - 1 => U[k] = T[k] /\ T[k] = TreeOf(nodes, list, k, T)
      BY <1>3, <1>4 DEF Spells
    <2>4. ~ (k < m - 1) => U[k] = TreeOf(nodes, list, k, T)
      BY <1>3
    <2> QED
      BY <2>2, <2>3, <2>4
  <1> HIDE DEF U
  <1> QED
    BY <1>1, <1>5

(* so that the recursive definition has the meaning it is written with.       *)
LEMMA TreesUnfold ==
  ASSUME NEW nodes, NEW list, Descends(nodes, list)
  PROVE  \A i \in Nat : TreesOf(nodes, list)[i] = TreeOf(nodes, list, i, TreesOf(nodes, list))
  <1> DEFINE S(n) == CHOOSE T : Spells(nodes, list, T, n)
             W == [i \in Nat |-> S(i + 1)[i]]
  <1>1. \A n \in Nat : Spells(nodes, list, S(n), n)
    BY SpellingExists
  <1> HIDE DEF S
  <1>2. \A i \in Nat : W[i] = TreeOf(nodes, list, i, W)
    <2> SUFFICES ASSUME NEW i \in Nat PROVE W[i] = TreeOf(nodes, list, i, W)
      OBVIOUS
    <2>1. \A k \in 0 .. i - 1 : W[k] = S(i + 1)[k]
      <3> SUFFICES ASSUME NEW k \in 0 .. i - 1 PROVE S(k + 1)[k] = S(i + 1)[k]
        OBVIOUS
      <3>1. k \in Nat /\ k + 1 \in Nat /\ i + 1 \in Nat
        OBVIOUS
      <3>2. Spells(nodes, list, S(k + 1), k + 1) /\ Spells(nodes, list, S(i + 1), i + 1)
        BY <1>1, <3>1
      <3>3. Spells(nodes, list, S(i + 1), k + 1)
        BY <3>1, <3>2 DEF Spells
      <3>4. \A l \in 0 .. (k + 1) - 1 : S(k + 1)[l] = S(i + 1)[l]
        BY <3>1, <3>2, <3>3, OneSpelling
      <3> QED
        BY <3>1, <3>4
    <2>2. W[i] = S(i + 1)[i] /\ S(i + 1)[i] = TreeOf(nodes, list, i, S(i + 1))
      BY <1>1 DEF Spells
    <2>3. TreeOf(nodes, list, i, W) = TreeOf(nodes, list, i, S(i + 1))
      <3> HIDE DEF W
      <3> QED
        BY <2>1, TreeOfChildren
    <2> QED
      BY <2>2, <2>3
  <1>3. W = [i \in Nat |-> TreeOf(nodes, list, i, W)]
    BY <1>2
  <1>4. TreesOf(nodes, list) = [i \in Nat |-> TreeOf(nodes, list, i, TreesOf(nodes, list))]
    <2> HIDE DEF W
    <2>1. \E T : T = [i \in Nat |-> TreeOf(nodes, list, i, T)]
      BY <1>3
    <2> QED
      BY <2>1 DEF TreesOf
  <1> DEFINE V == TreesOf(nodes, list)
  <1>5. V = [i \in Nat |-> TreeOf(nodes, list, i, V)]
    BY <1>4
  <1> HIDE DEF V
  <1>6. \A i \in Nat : V[i] = TreeOf(nodes, list, i, V)
    BY <1>5
  <1> QED
    BY <1>6 DEF V

-----------------------------------------------------------------------------
(* What nodes are made of: a label, a constant, a child or a control.         *)
Tags == {"nil", "leaf", "sym", "neg", "ui"}
Marks == Leaves \cup Labels \cup Nat \cup {"nil"}

(* The arena and the controls of a context.                                   *)
Interns(nodes, list) ==
    /\ nodes \in Seq(Tags \X Marks) /\ list \in Seq(Nat \X Nat)
    /\ \A i \in 1 .. Len(nodes) : nodes[i][1] = "neg" => nodes[i][2] \in 1 .. i - 1
    /\ \A i \in 1 .. Len(nodes) :
          nodes[i][1] = "ui" => nodes[i][2] \in 1 .. Len(list) /\ list[nodes[i][2]][2] \in 1 .. i - 1
    /\ \A c \in 1 .. Len(list) :
          /\ list[c][1] \in 1 .. Len(nodes) /\ nodes[list[c][1]][1] = "sym"
          /\ list[c][2] \in 1 .. Len(nodes)
    /\ \A i, j \in 1 .. Len(nodes) : nodes[i] = nodes[j] => i = j
    /\ \A c, e \in 1 .. Len(list) : list[c] = list[e] => c = e

LEMMA ControlAt ==
  ASSUME NEW list \in Seq(Nat \X Nat), NEW c \in 1 .. Len(list)
  PROVE  list[c] \in Nat \X Nat
  OBVIOUS

(* In such an arena children come first.                                      *)
LEMMA InternsDescends ==
  ASSUME NEW nodes, NEW list, Interns(nodes, list)
  PROVE  Descends(nodes, list)
  <1> SUFFICES ASSUME NEW i \in Nat
               PROVE  /\ NodeIn(nodes, i)[1] = "neg" => NodeIn(nodes, i)[2] \in 0 .. i - 1
                      /\ NodeIn(nodes, i)[1] = "ui" =>
                            ControlIn(list, NodeIn(nodes, i)[2])[2] \in 0 .. i - 1
    BY DEF Descends
  <1>1. CASE i \in 1 .. Len(nodes)
    <2>1. NodeIn(nodes, i) = nodes[i]
      BY <1>1 DEF NodeIn, Interns
    <2>2. nodes[i][1] = "ui" => ControlIn(list, nodes[i][2]) = list[nodes[i][2]]
      BY <1>1 DEF ControlIn, Interns
    <2>3. nodes[i][1] = "neg" => nodes[i][2] \in 1 .. i - 1
      BY <1>1 DEF Interns
    <2>4. nodes[i][1] = "ui" => list[nodes[i][2]][2] \in 1 .. i - 1
      BY <1>1 DEF Interns
    <2>5. 1 .. i - 1 \subseteq 0 .. i - 1
      OBVIOUS
    <2> QED
      BY <2>1, <2>2, <2>3, <2>4, <2>5
  <1>2. CASE i \notin 1 .. Len(nodes)
    BY <1>2 DEF NodeIn, Interns
  <1> QED
    BY <1>1, <1>2

(* What the nodes of an arena stand for, by their tags.                       *)
LEMMA TreeRules ==
  ASSUME NEW nodes, NEW list, Interns(nodes, list), NEW i \in 1 .. Len(nodes), NEW T,
         T = TreesOf(nodes, list)
  PROVE  /\ nodes[i][1] = "neg" => T[i] = <<"neg", T[nodes[i][2]]>>
         /\ nodes[i][1] = "ui" => T[i] = <<"slider", nodes[list[nodes[i][2]][1]][2], T[list[nodes[i][2]][2]]>>
         /\ nodes[i][1] \notin {"neg", "ui"} => T[i] = nodes[i]
  <1>1. T[i] = TreeOf(nodes, list, i, T)
    BY InternsDescends, TreesUnfold
  <1>2. NodeIn(nodes, i) = nodes[i]
    BY DEF NodeIn, Interns
  <1>3. nodes[i][1] = "ui" => /\ ControlIn(list, nodes[i][2]) = list[nodes[i][2]]
                              /\ NodeIn(nodes, list[nodes[i][2]][1]) = nodes[list[nodes[i][2]][1]]
    BY DEF ControlIn, NodeIn, Interns
  <1> QED
    BY <1>1, <1>2, <1>3 DEF TreeOf

(* The same, part by part.                                                    *)
LEMMA TreeParts ==
  ASSUME NEW nodes, NEW list, Interns(nodes, list), NEW i \in 1 .. Len(nodes), NEW T,
         T = TreesOf(nodes, list)
  PROVE  /\ T[i][1] = IF nodes[i][1] = "ui" THEN "slider" ELSE nodes[i][1]
         /\ nodes[i][1] = "neg" => T[i][2] = T[nodes[i][2]]
         /\ nodes[i][1] = "ui" =>
               T[i][2] = nodes[list[nodes[i][2]][1]][2] /\ T[i][3] = T[list[nodes[i][2]][2]]
         /\ nodes[i][1] \in Tags /\ nodes[i] = <<nodes[i][1], nodes[i][2]>>
  <1>1. nodes[i] \in Tags \X Marks
    BY DEF Interns
  <1> QED
    BY <1>1, TreeRules

(* Two nodes stand for two trees.                                             *)
LEMMA TreesApart ==
  ASSUME NEW nodes, NEW list, Interns(nodes, list), NEW T, T = TreesOf(nodes, list)
  PROVE  \A i, j \in 1 .. Len(nodes) : T[i] = T[j] => i = j
  <1> DEFINE B == {i \in 1 .. Len(nodes) : \E j \in 1 .. Len(nodes) : T[i] = T[j] /\ i # j}
  <1> SUFFICES ASSUME B # {} PROVE FALSE
    OBVIOUS
  <1>0. Len(nodes) \in Nat /\ Len(list) \in Nat
    BY DEF Interns
  <1>1. PICK m \in B : \A k \in B : m <= k
    <2>1. B \in SUBSET Nat
      BY <1>0
    <2> QED
      BY <2>1, LeastNatural
  <1>a. PICK j \in 1 .. Len(nodes) : T[m] = T[j] /\ m # j
    OBVIOUS
  <1>2. j \in 1 .. Len(nodes) /\ T[m] = T[j] /\ m # j
    BY <1>a
  <1>3. m \in 1 .. Len(nodes) /\ m \in Nat /\ j \in Nat
    BY <1>0
  <1>4. \A a, b \in 1 .. Len(nodes) : a < m /\ T[a] = T[b] => a = b
    <2> SUFFICES ASSUME NEW a \in 1 .. Len(nodes), NEW b \in 1 .. Len(nodes), a < m, T[a] = T[b], a # b
                 PROVE  FALSE
      OBVIOUS
    <2>1. a \in B /\ a \in Nat
      BY <1>0
    <2> QED
      BY <1>1, <1>3, <2>1
  <1> HIDE DEF B
  <1>5. nodes[m] # nodes[j]
    BY <1>2, <1>3 DEF Interns
  <1>6. /\ nodes[m] = <<nodes[m][1], nodes[m][2]>> /\ nodes[j] = <<nodes[j][1], nodes[j][2]>>
        /\ nodes[m][1] \in Tags /\ nodes[j][1] \in Tags
    BY <1>3 DEF Interns
  <1>7. CASE nodes[m][1] = "neg"
    <2>2. nodes[j][1] = "neg"
      <3>1. T[m][1] = "neg"
        BY <1>3, <1>7, TreeParts
      <3> QED
        BY <1>2, <3>1, TreeParts DEF Tags
    <2>4. nodes[m][2] \in 1 .. m - 1 /\ nodes[j][2] \in 1 .. j - 1
      BY <1>3, <1>7, <2>2 DEF Interns
    <2>5. nodes[m][2] = nodes[j][2]
      <3>1. T[nodes[m][2]] = T[nodes[j][2]]
        BY <1>2, <1>3, <1>7, <2>2, TreeParts
      <3>2. nodes[m][2] \in 1 .. Len(nodes) /\ nodes[j][2] \in 1 .. Len(nodes) /\ nodes[m][2] < m
        BY <1>0, <1>3, <2>4
      <3> QED
        BY <1>4, <3>1, <3>2
    <2> QED
      BY <1>5, <1>6, <1>7, <2>2, <2>5
  <1>8. CASE nodes[m][1] = "ui"
    <2> DEFINE c == nodes[m][2]
               e == nodes[j][2]
    <2>2. nodes[j][1] = "ui"
      <3>1. T[m][1] = "slider"
        BY <1>3, <1>8, TreeParts
      <3> QED
        BY <1>2, <3>1, TreeParts DEF Tags
    <2>4. /\ c \in 1 .. Len(list) /\ e \in 1 .. Len(list)
          /\ list[c][2] \in 1 .. m - 1 /\ list[e][2] \in 1 .. Len(nodes)
      BY <1>3, <1>8, <2>2 DEF Interns
    <2>5. list[c][2] = list[e][2]
      <3>1. T[list[c][2]] = T[list[e][2]]
        BY <1>2, <1>3, <1>8, <2>2, TreeParts
      <3>2. list[c][2] \in 1 .. Len(nodes) /\ list[c][2] < m
        BY <1>0, <1>3, <2>4
      <3> QED
        BY <1>4, <2>4, <3>1, <3>2
    <2>6. nodes[list[c][1]] = nodes[list[e][1]]
      <3>1. /\ list[c][1] \in 1 .. Len(nodes) /\ list[e][1] \in 1 .. Len(nodes)
            /\ nodes[list[c][1]][1] = "sym" /\ nodes[list[e][1]][1] = "sym"
        BY <2>4 DEF Interns
      <3>2. \A i \in 1 .. Len(nodes) : nodes[i] = <<nodes[i][1], nodes[i][2]>>
        BY DEF Interns
      <3>3. nodes[list[c][1]][2] = nodes[list[e][1]][2]
        BY <1>2, <1>3, <1>8, <2>2, TreeParts
      <3> QED
        BY <3>1, <3>2, <3>3
    <2>7. list[c] = list[e]
      <3>1. list[c][1] = list[e][1]
        BY <2>4, <2>6 DEF Interns
      <3>2. list[c] = <<list[c][1], list[c][2]>> /\ list[e] = <<list[e][1], list[e][2]>>
        <4>1. list[c] \in Nat \X Nat /\ list[e] \in Nat \X Nat
          <5>1. list \in Seq(Nat \X Nat)
            BY DEF Interns
          <5> QED
            BY ONLY <2>4, <5>1, ControlAt
        <4> QED
          BY ONLY <4>1
      <3> QED
        BY <2>5, <3>1, <3>2
    <2>8. c = e
      BY <2>4, <2>7 DEF Interns
    <2> QED
      BY <1>5, <1>6, <1>8, <2>2, <2>8
  <1>9. CASE nodes[m][1] \notin {"neg", "ui"}
    <2>1. T[m] = nodes[m]
      BY <1>3, <1>9, TreeRules
    <2>2. nodes[j][1] \notin {"neg", "ui"}
      <3>1. T[m][1] = nodes[m][1]
        BY <2>1
      <3>2. T[j][1] = IF nodes[j][1] = "ui" THEN "slider" ELSE nodes[j][1]
        BY <1>a, TreeParts
      <3>3. nodes[m][1] # "slider"
        BY <1>6 DEF Tags
      <3> QED
        BY <1>2, <1>9, <3>1, <3>2, <3>3
    <2>3. T[j] = nodes[j]
      BY <1>a, <2>2, TreeRules
    <2> QED
      BY <1>2, <1>5, <2>1, <2>3
  <1> QED
    BY <1>7, <1>8, <1>9

(* s is the beginning of t.                                                   *)
Begins(s, t) == Len(s) <= Len(t) /\ \A i \in 1 .. Len(s) : t[i] = s[i]

(* What a node stands for does not change as the context grows.               *)
LEMMA TreesStay ==
  ASSUME NEW nodes, NEW list, NEW more, NEW controls2, Interns(nodes, list), Interns(more, controls2),
         Begins(nodes, more), Begins(list, controls2)
  PROVE  \A i \in 1 .. Len(nodes) : TreesOf(more, controls2)[i] = TreesOf(nodes, list)[i]
  <1>a. PICK T, U : T = TreesOf(nodes, list) /\ U = TreesOf(more, controls2)
    OBVIOUS
  <1> DEFINE B == {i \in 1 .. Len(nodes) : U[i] # T[i]}
  <1> SUFFICES ASSUME B # {} PROVE FALSE
    BY <1>a
  <1>0. Len(nodes) \in Nat /\ Len(list) \in Nat /\ Len(more) \in Nat /\ Len(controls2) \in Nat
    BY DEF Interns
  <1>1. PICK m \in B : \A k \in B : m <= k
    <2>1. B \in SUBSET Nat
      BY <1>0
    <2> QED
      BY <2>1, LeastNatural
  <1>2. m \in 1 .. Len(nodes) /\ m \in Nat /\ U[m] # T[m]
    BY <1>0
  <1>3. \A k \in 1 .. m - 1 : U[k] = T[k]
    <2> SUFFICES ASSUME NEW k \in 1 .. m - 1, U[k] # T[k] PROVE FALSE
      OBVIOUS
    <2>1. k \in B /\ k \in Nat
      BY <1>0, <1>2
    <2> QED
      BY <1>1, <1>2, <2>1
  <1> HIDE DEF B
  <1>4. m \in 1 .. Len(more) /\ more[m] = nodes[m]
    BY <1>0, <1>2 DEF Begins
  <1>5. CASE nodes[m][1] = "neg"
    <2>1. T[m] = <<"neg", T[nodes[m][2]]>> /\ U[m] = <<"neg", U[nodes[m][2]]>>
      BY <1>a, <1>2, <1>4, <1>5, TreeRules
    <2>2. nodes[m][2] \in 1 .. m - 1
      BY <1>2, <1>5 DEF Interns
    <2> QED
      BY <1>2, <1>3, <2>1, <2>2
  <1>6. CASE nodes[m][1] = "ui"
    <2>1. PICK c : c = nodes[m][2]
      OBVIOUS
    <2>2. /\ T[m] = <<"slider", nodes[list[c][1]][2], T[list[c][2]]>>
          /\ U[m] = <<"slider", more[controls2[c][1]][2], U[controls2[c][2]]>>
      BY <1>a, <1>2, <1>4, <1>6, <2>1, TreeRules
    <2>3. c \in 1 .. Len(list) /\ list[c][2] \in 1 .. m - 1 /\ list[c][1] \in 1 .. Len(nodes)
      BY <1>2, <1>6, <2>1 DEF Interns
    <2>4. controls2[c] = list[c] /\ more[list[c][1]] = nodes[list[c][1]]
      BY <2>3 DEF Begins
    <2> QED
      BY <1>2, <1>3, <2>2, <2>3, <2>4
  <1>7. CASE nodes[m][1] \notin {"neg", "ui"}
    BY <1>a, <1>2, <1>4, <1>7, TreeRules
  <1> QED
    BY <1>5, <1>6, <1>7

-----------------------------------------------------------------------------
(* A node is interned in one place.                                           *)
LEMMA IdOfNode ==
  ASSUME NEW nodes, NEW list, Interns(nodes, list), NEW i \in 1 .. Len(nodes)
  PROVE  Trees!IdOf(nodes, nodes[i]) = i
  <1>1. DOMAIN nodes = 1 .. Len(nodes)
    BY DEF Interns
  <1>2. \A k \in DOMAIN nodes : nodes[k] = nodes[i] => k = i
    BY <1>1 DEF Interns
  <1> QED
    BY <1>1, <1>2 DEF Trees!IdOf

(* s holds what at i.                                                         *)
HoldsAt(s, i, what) == i \in 1 .. Len(s) /\ s[i] = what

(* node is one that can follow these nodes.                                   *)
Follows(nodes, list, node) ==
    /\ node \in Tags \X Marks
    /\ node[1] = "neg" => node[2] \in 1 .. Len(nodes)
    /\ node[1] = "ui" => node[2] \in 1 .. Len(list)

(* Interning a node finds it or adds it at the end.                           *)
LEMMA InternNode ==
  ASSUME NEW nodes, NEW list, Interns(nodes, list), NEW node, Follows(nodes, list, node),
         NEW more, more = Trees!Interned(nodes, node)
  PROVE  /\ Interns(more, list) /\ Begins(nodes, more)
         /\ HoldsAt(more, Trees!IdOf(more, node), node)
  <1>a. /\ node \in Tags \X Marks
        /\ node[1] = "neg" => node[2] \in 1 .. Len(nodes)
        /\ node[1] = "ui" => node[2] \in 1 .. Len(list)
    BY DEF Follows
  <1>0. nodes \in Seq(Tags \X Marks) /\ Len(nodes) \in Nat /\ list \in Seq(Nat \X Nat)
    BY DEF Interns
  <1>1. CASE \E i \in 1 .. Len(nodes) : nodes[i] = node
    <2>1. more = nodes
      BY <1>1 DEF Trees!Interned, Trees!Contains
    <2> QED
      BY <1>0, <1>1, <2>1, IdOfNode DEF Begins, HoldsAt
  <1>2. CASE \A i \in 1 .. Len(nodes) : nodes[i] # node
    <2>1. more = Append(nodes, node)
      BY <1>2 DEF Trees!Interned, Trees!Contains
    <2>2. /\ more \in Seq(Tags \X Marks) /\ Len(more) = Len(nodes) + 1 /\ more[Len(nodes) + 1] = node
          /\ \A i \in 1 .. Len(nodes) : more[i] = nodes[i]
          /\ \A i \in 1 .. Len(more) : i \in 1 .. Len(nodes) \/ i = Len(nodes) + 1
      BY <1>0, <1>a, <2>1
    <2>3. Interns(more, list)
      <3>1. \A i \in 1 .. Len(more) : more[i][1] = "neg" => more[i][2] \in 1 .. i - 1
        <4> SUFFICES ASSUME NEW i \in 1 .. Len(more), more[i][1] = "neg" PROVE more[i][2] \in 1 .. i - 1
          OBVIOUS
        <4>1. CASE i \in 1 .. Len(nodes)
          <5>1. more[i] = nodes[i]
            BY <2>2, <4>1
          <5> QED
            BY <4>1, <5>1 DEF Interns
        <4>2. CASE i = Len(nodes) + 1
          <5>1. more[i] = node
            BY <2>2, <4>2
          <5> QED
            BY <1>0, <1>a, <4>2, <5>1
        <4> QED
          BY <2>2, <4>1, <4>2
      <3>2. \A i \in 1 .. Len(more) :
              more[i][1] = "ui" => more[i][2] \in 1 .. Len(list) /\ list[more[i][2]][2] \in 1 .. i - 1
        <4> SUFFICES ASSUME NEW i \in 1 .. Len(more), more[i][1] = "ui"
                     PROVE  more[i][2] \in 1 .. Len(list) /\ list[more[i][2]][2] \in 1 .. i - 1
          OBVIOUS
        <4>1. CASE i \in 1 .. Len(nodes)
          <5>1. more[i] = nodes[i]
            BY <2>2, <4>1
          <5> QED
            BY <4>1, <5>1 DEF Interns
        <4>2. CASE i = Len(nodes) + 1
          <5>1. node[1] = "ui" /\ more[i] = node
            BY <2>2, <4>2
          <5>2. node[2] \in 1 .. Len(list) /\ list[node[2]][2] \in 1 .. Len(nodes)
            BY <1>a, <5>1 DEF Interns
          <5> QED
            BY <1>0, <4>2, <5>1, <5>2
        <4> QED
          BY <2>2, <4>1, <4>2
      <3>3. \A c \in 1 .. Len(list) :
              /\ list[c][1] \in 1 .. Len(more) /\ more[list[c][1]][1] = "sym"
              /\ list[c][2] \in 1 .. Len(more)
        <4> SUFFICES ASSUME NEW c \in 1 .. Len(list)
                     PROVE  /\ list[c][1] \in 1 .. Len(more) /\ more[list[c][1]][1] = "sym"
                            /\ list[c][2] \in 1 .. Len(more)
          OBVIOUS
        <4>1. /\ list[c][1] \in 1 .. Len(nodes) /\ nodes[list[c][1]][1] = "sym"
              /\ list[c][2] \in 1 .. Len(nodes)
          BY DEF Interns
        <4>2. more[list[c][1]] = nodes[list[c][1]]
          BY <2>2, <4>1
        <4> QED
          BY <1>0, <2>2, <4>1, <4>2
      <3>4. \A i, j \in 1 .. Len(more) : more[i] = more[j] => i = j
        <4> SUFFICES ASSUME NEW i \in 1 .. Len(more), NEW j \in 1 .. Len(more), more[i] = more[j]
                     PROVE  i = j
          OBVIOUS
        <4>1. \A k \in 1 .. Len(nodes) : more[k] = nodes[k] /\ nodes[k] # node
          BY <1>2, <2>2
        <4>2. \A k, l \in 1 .. Len(nodes) : nodes[k] = nodes[l] => k = l
          BY DEF Interns
        <4> QED
          BY <2>2, <4>1, <4>2
      <3>5. \A c, e \in 1 .. Len(list) : list[c] = list[e] => c = e
        BY DEF Interns
      <3> QED
        BY <1>0, <2>2, <3>1, <3>2, <3>3, <3>4, <3>5 DEF Interns
    <2>4. Begins(nodes, more)
      BY <1>0, <2>2 DEF Begins
    <2>5. Len(nodes) + 1 \in 1 .. Len(more)
      BY <1>0, <2>2
    <2> QED
      BY <2>2, <2>3, <2>4, <2>5, IdOfNode DEF HoldsAt
  <1> QED
    BY <1>1, <1>2

(* The least of a set of naturals is one of them.                             *)
LEMMA LeastIn ==
  ASSUME NEW I \in SUBSET Nat, I # {}
  PROVE  Trees!Min(I) \in I
  BY LeastNatural DEF Trees!Min

(* The controls after registering one of this label and init.                 *)
WithControl(list, label, init) ==
    IF Trees!ControlOf(list, label, init) # 0 THEN list ELSE Append(list, <<label, init>>)

(* Registering a control finds the one of that label and init or adds it.     *)
LEMMA RegisterControl ==
  ASSUME NEW nodes, NEW list, Interns(nodes, list), NEW label, NEW name, HoldsAt(nodes, label, <<"sym", name>>),
         NEW init, init \in 1 .. Len(nodes), NEW more, more = WithControl(list, label, init)
  PROVE  /\ Interns(nodes, more) /\ Begins(list, more)
         /\ HoldsAt(more, Trees!ControlOf(more, label, init), <<label, init>>)
  <1>a. /\ label \in 1 .. Len(nodes) /\ nodes[label][1] = "sym"
        /\ more = IF Trees!ControlOf(list, label, init) # 0 THEN list ELSE Append(list, <<label, init>>)
    BY DEF HoldsAt, WithControl
  <1> DEFINE I(s) == {c \in 1 .. Len(s) : s[c] = <<label, init>>}
  <1>0. /\ nodes \in Seq(Tags \X Marks) /\ Len(nodes) \in Nat
        /\ list \in Seq(Nat \X Nat) /\ Len(list) \in Nat /\ <<label, init>> \in Nat \X Nat
    BY <1>a DEF Interns
  <1>1. \A s \in Seq(Nat \X Nat) : Trees!ControlOf(s, label, init) = IF I(s) = {} THEN 0 ELSE Trees!Min(I(s))
    <2> SUFFICES ASSUME NEW s \in Seq(Nat \X Nat)
                 PROVE  Trees!ControlOf(s, label, init) = IF I(s) = {} THEN 0 ELSE Trees!Min(I(s))
      OBVIOUS
    <2>1. Trees!ControlOf(s, label, init) =
            LET J == {c \in 1 .. Len(s) : <<s[c][1], s[c][2]>> = <<label, init>>}
            IN  IF J # {} THEN Trees!Min(J) ELSE 0
      BY Zenon DEF Trees!ControlOf, Trees!SelectInSeq, Trees!Key
    <2>2. {c \in 1 .. Len(s) : <<s[c][1], s[c][2]>> = <<label, init>>} = I(s)
      <3>1. \A c \in 1 .. Len(s) : s[c] = <<s[c][1], s[c][2]>>
        <4>1. \A c \in 1 .. Len(s) : s[c] \in Nat \X Nat
          OBVIOUS
        <4> QED
          BY <4>1
      <3> QED
        BY <3>1
    <2> HIDE DEF I
    <2> QED
      BY <2>1, <2>2
  <1>2. \A s \in Seq(Nat \X Nat) : I(s) # {} => Trees!Min(I(s)) \in I(s) /\ Trees!Min(I(s)) # 0
    <2> SUFFICES ASSUME NEW s \in Seq(Nat \X Nat), I(s) # {} PROVE Trees!Min(I(s)) \in I(s) /\ Trees!Min(I(s)) # 0
      OBVIOUS
    <2>1. I(s) \in SUBSET Nat /\ 0 \notin I(s)
      OBVIOUS
    <2> HIDE DEF I
    <2> QED
      BY <2>1, LeastIn
  <1>3. CASE I(list) # {}
    <2>1. more = list
      <3> HIDE DEF I
      <3> QED
        BY <1>0, <1>1, <1>2, <1>3, <1>a
    <2>2. Trees!ControlOf(more, label, init) \in I(more)
      <3> HIDE DEF I
      <3> QED
        BY <1>0, <1>1, <1>2, <1>3, <2>1
    <2> QED
      BY <1>0, <2>1, <2>2 DEF Begins, HoldsAt
  <1>4. CASE I(list) = {}
    <2>1. more = Append(list, <<label, init>>)
      <3> HIDE DEF I
      <3> QED
        BY <1>0, <1>1, <1>4, <1>a
    <2>a. \A c \in 1 .. Len(list) : list[c] # <<label, init>>
      BY <1>4
    <2>2. /\ more \in Seq(Nat \X Nat) /\ Len(more) = Len(list) + 1 /\ more[Len(list) + 1] = <<label, init>>
          /\ \A c \in 1 .. Len(list) : more[c] = list[c] /\ list[c] # <<label, init>>
          /\ \A c \in 1 .. Len(more) : c \in 1 .. Len(list) \/ c = Len(list) + 1
      <3> DEFINE p == <<label, init>>
      <3>1. p \in Nat \X Nat /\ more = Append(list, p)
        BY <1>0, <2>1
      <3> HIDE DEF p
      <3>2. /\ more \in Seq(Nat \X Nat) /\ Len(more) = Len(list) + 1 /\ more[Len(list) + 1] = p
            /\ \A c \in 1 .. Len(list) : more[c] = list[c]
            /\ \A c \in 1 .. Len(more) : c \in 1 .. Len(list) \/ c = Len(list) + 1
        BY <1>0, <3>1
      <3> QED
        BY <2>a, <3>2 DEF p
    <2>3. Interns(nodes, more)
      <3>1. \A i \in 1 .. Len(nodes) :
              nodes[i][1] = "ui" => nodes[i][2] \in 1 .. Len(more) /\ more[nodes[i][2]][2] \in 1 .. i - 1
        <4> SUFFICES ASSUME NEW i \in 1 .. Len(nodes), nodes[i][1] = "ui"
                     PROVE  nodes[i][2] \in 1 .. Len(more) /\ more[nodes[i][2]][2] \in 1 .. i - 1
          OBVIOUS
        <4>1. nodes[i][2] \in 1 .. Len(list) /\ list[nodes[i][2]][2] \in 1 .. i - 1
          BY DEF Interns
        <4>2. more[nodes[i][2]] = list[nodes[i][2]]
          BY <2>2, <4>1
        <4>3. 1 .. Len(list) \subseteq 1 .. Len(more)
          BY <1>0, <2>2
        <4> QED
          BY <4>1, <4>2, <4>3
      <3>2. \A c \in 1 .. Len(more) :
              /\ more[c][1] \in 1 .. Len(nodes) /\ nodes[more[c][1]][1] = "sym"
              /\ more[c][2] \in 1 .. Len(nodes)
        BY <1>0, <1>a, <2>2 DEF Interns
      <3>3. \A c, e \in 1 .. Len(more) : more[c] = more[e] => c = e
        <4>1. \A k, l \in 1 .. Len(list) : list[k] = list[l] => k = l
          BY DEF Interns
        <4>2. PICK p : p = <<label, init>>
          OBVIOUS
        <4>3. /\ more[Len(list) + 1] = p /\ \A c \in 1 .. Len(list) : more[c] = list[c] /\ list[c] # p
              /\ \A c \in 1 .. Len(more) : c \in 1 .. Len(list) \/ c = Len(list) + 1
          BY <2>2, <4>2
        <4> SUFFICES ASSUME NEW c \in 1 .. Len(more), NEW e \in 1 .. Len(more), more[c] = more[e]
                     PROVE  c = e
          OBVIOUS
        <4>4. CASE c \in 1 .. Len(list) /\ e \in 1 .. Len(list)
          BY <4>1, <4>3, <4>4
        <4>5. CASE c = Len(list) + 1 \/ e = Len(list) + 1
          <5>1. c = Len(list) + 1 /\ e # Len(list) + 1 => FALSE
            BY <4>3
          <5>2. e = Len(list) + 1 /\ c # Len(list) + 1 => FALSE
            BY <4>3
          <5> QED
            BY <4>5, <5>1, <5>2
        <4> QED
          BY <4>3, <4>4, <4>5
      <3> QED
        BY <1>0, <2>2, <3>1, <3>2, <3>3 DEF Interns
    <2>4. Begins(list, more)
      BY <1>0, <2>2 DEF Begins
    <2>5. Len(list) + 1 \in I(more)
      BY <1>0, <2>2
    <2>6. Trees!ControlOf(more, label, init) \in I(more)
      <3> HIDE DEF I
      <3> QED
        BY <1>1, <1>2, <2>2, <2>5
    <2> QED
      BY <2>3, <2>4, <2>6 DEF HoldsAt
  <1> QED
    BY <1>3, <1>4

(* No two places of s hold the same.                                          *)
Differ(s) == \A g, h \in 1 .. Len(s) : s[g] = s[h] => g = h

(* The handle of a node among those given.                                    *)
HandleOf(given, id) == Trees!SelectLastInSeq(given, LAMBDA n : n = id)

(* more has no value that given has not, but id.                              *)
More(given, more, id) == \A g \in 1 .. Len(more) : g \in 1 .. Len(given) \/ more[g] = id

(* A node has the handle it was given, or gets the next.                      *)
LEMMA EncodeNode ==
  ASSUME NEW given, given \in Seq(Nat), Differ(given),
         NEW id, id \in Nat, NEW more, more = Trees!Encoded(given, id), NEW h,
         h = HandleOf(more, id)
  PROVE  /\ more \in Seq(Nat) /\ Differ(more)
         /\ Begins(given, more) /\ HoldsAt(more, h, id)
         /\ More(given, more, id)
  <1>1. /\ more \in Seq(Nat) /\ \A g, k \in 1 .. Len(more) : more[g] = more[k] => g = k
        /\ Begins(given, more) /\ \E g \in 1 .. Len(more) : more[g] = id
        /\ \A g \in 1 .. Len(more) : g \in 1 .. Len(given) \/ more[g] = id
    <2>1. CASE \E i \in 1 .. Len(given) : given[i] = id
      <3>1. more = given
        BY <2>1 DEF Trees!Encoded, Trees!Contains
      <3> QED
        BY <2>1, <3>1 DEF Begins, Differ
    <2>2. CASE \A i \in 1 .. Len(given) : given[i] # id
      <3>1. more = Append(given, id)
        BY <2>2 DEF Trees!Encoded, Trees!Contains
      <3> QED
        BY <2>2, <3>1 DEF Begins, Differ
    <2> QED
      BY <2>1, <2>2
  <1>2. PICK g \in 1 .. Len(more) : more[g] = id
    BY <1>1
  <1>3. {i \in 1 .. Len(more) : more[i] = id} = {g} /\ g \in Nat
    BY <1>1, <1>2
  <1>4. h = LET J == {i \in 1 .. Len(more) : more[i] = id} IN IF J # {} THEN Trees!Max(J) ELSE 0
    BY Zenon DEF HandleOf, Trees!SelectLastInSeq
  <1>5. Trees!Max({g}) = g
    BY <1>3 DEF Trees!Max
  <1>6. h = g
    BY <1>3, <1>4, <1>5
  <1> QED
    BY <1>1, <1>2, <1>6 DEF Differ, HoldsAt, More

-----------------------------------------------------------------------------
(* x, kept by a user, is a handle for its tree as long as its context lives.  *)
KeepsTree(x, nodes, list, given, now) ==
    /\ x.life \in Nat /\ x.life <= now
    /\ x.life = now => /\ x.handle \in 1 .. Len(given)
                       /\ TreesOf(nodes, list)[given[x.handle]] = x.tree

(* The inductive invariant: a well-formed context, distinct handles of its    *)
(* nodes, and every handle that is kept decoding to its tree.                 *)
TreesInv ==
    /\ Interns(arena, controls)
    /\ treeHandles \in Seq(1 .. Len(arena))
    /\ Differ(treeHandles)
    /\ life \in 1 .. MaxLives
    /\ DOMAIN treeHeld = Users
    /\ \A u \in Users : \A x \in treeHeld[u] : KeepsTree(x, arena, controls, treeHandles, life)

(* A call gives one more handle, and those given before decode as they did.   *)
LEMMA GiveStep ==
  ASSUME TreesInv, NEW u \in Users, NEW nodes, NEW list, Interns(nodes, list),
         Begins(arena, nodes), Begins(controls, list), NEW node, NEW id,
         id = Trees!IdOf(nodes, node), id \in 1 .. Len(nodes), NEW tree, NEW born \in Nat, born <= life,
         born = life => TreesOf(nodes, list)[id] = tree,
         Trees!Give(u, nodes, node, tree, born), controls' = list, life' = life
  PROVE  TreesInv'
  <1>1. PICK given, h : /\ given = Trees!Encoded(treeHandles, id)
                        /\ h = HandleOf(given, id)
    OBVIOUS
  <1> DEFINE new == [handle |-> h, tree |-> tree, life |-> born]
  <1>2. /\ arena' = nodes /\ treeHandles' = given
        /\ treeHeld' = [treeHeld EXCEPT ![u] = treeHeld[u] \cup {new}]
    <2> DEFINE i == Trees!IdOf(nodes, node)
               g == Trees!Encoded(treeHandles, i)
    <2>1. /\ arena' = nodes /\ treeHandles' = g
          /\ treeHeld' = [treeHeld EXCEPT ![u] =
                 treeHeld[u] \cup {[handle |-> HandleOf(g, i), tree |-> tree, life |-> born]}]
      BY Zenon DEF Trees!Give, HandleOf
    <2>2. i = id /\ g = given /\ HandleOf(g, i) = h
      BY <1>1
    <2> HIDE DEF i, g
    <2> QED
      BY <2>1, <2>2
  <1>3. /\ Len(arena) \in Nat /\ Len(nodes) \in Nat /\ Len(arena) <= Len(nodes)
        /\ treeHandles \in Seq(Nat) /\ id \in Nat /\ Len(treeHandles) \in Nat
        /\ life \in Nat
    <2>1. Len(arena) \in Nat /\ Len(nodes) \in Nat /\ Len(arena) <= Len(nodes)
      BY DEF TreesInv, Interns, Begins
    <2>2. 1 .. Len(arena) \subseteq Nat /\ treeHandles \in Seq(1 .. Len(arena)) /\ life \in 1 .. MaxLives
      BY <2>1 DEF TreesInv
    <2>3. treeHandles \in Seq(Nat) /\ Len(treeHandles) \in Nat
      BY <2>2
    <2> QED
      BY <2>1, <2>2, <2>3
  <1>4. /\ given \in Seq(Nat) /\ Differ(given)
        /\ Begins(treeHandles, given) /\ h \in 1 .. Len(given) /\ given[h] = id
        /\ \A g \in 1 .. Len(given) : g \in 1 .. Len(treeHandles) \/ given[g] = id
    <2>1. Differ(treeHandles)
      BY DEF TreesInv
    <2>2. treeHandles \in Seq(Nat) /\ id \in Nat
      BY <1>3
    <2>3. /\ given \in Seq(Nat) /\ Differ(given) /\ Begins(treeHandles, given)
          /\ HoldsAt(given, h, id) /\ More(treeHandles, given, id)
      BY <1>1, <2>1, <2>2, EncodeNode
    <2> QED
      BY <2>3 DEF HoldsAt, More
  <1>5. given \in Seq(1 .. Len(nodes))
    <2>1. \A g \in 1 .. Len(treeHandles) : treeHandles[g] \in 1 .. Len(arena)
      BY DEF TreesInv
    <2>2. ASSUME NEW g \in 1 .. Len(given) PROVE given[g] \in 1 .. Len(nodes)
      <3>1. CASE g \in 1 .. Len(treeHandles)
        <4>1. given[g] = treeHandles[g]
          BY <1>4, <3>1 DEF Begins
        <4> QED
          BY <1>3, <2>1, <3>1, <4>1
      <3>2. CASE given[g] = id
        BY <3>2
      <3> QED
        BY <1>4, <3>1, <3>2
    <2>3. given \in Seq(Nat) /\ \A g \in 1 .. Len(given) : given[g] \in 1 .. Len(nodes)
      BY <1>4, <2>2
    <2> QED
      BY <2>3
  <1>6. \A v \in Users : \A x \in treeHeld[v] : KeepsTree(x, nodes, list, given, life)
    <2> SUFFICES ASSUME NEW v \in Users, NEW x \in treeHeld[v] PROVE KeepsTree(x, nodes, list, given, life)
      OBVIOUS
    <2>1. KeepsTree(x, arena, controls, treeHandles, life)
      BY DEF TreesInv
    <2>2. ASSUME x.life = life
          PROVE  /\ x.handle \in 1 .. Len(given)
                 /\ TreesOf(nodes, list)[given[x.handle]] = x.tree
      <3>1. /\ x.handle \in 1 .. Len(treeHandles)
            /\ TreesOf(arena, controls)[treeHandles[x.handle]] = x.tree
        BY <2>1, <2>2 DEF KeepsTree
      <3>2. treeHandles[x.handle] \in 1 .. Len(arena)
        BY <3>1 DEF TreesInv
      <3>3. given[x.handle] = treeHandles[x.handle] /\ x.handle \in 1 .. Len(given)
        <4>1. Len(treeHandles) <= Len(given) /\ \A i \in 1 .. Len(treeHandles) : given[i] = treeHandles[i]
          BY <1>4 DEF Begins
        <4>2. Len(given) \in Nat
          BY <1>4
        <4> QED
          BY <1>3, <3>1, <4>1, <4>2
      <3>4. TreesOf(nodes, list)[treeHandles[x.handle]] = TreesOf(arena, controls)[treeHandles[x.handle]]
        BY <3>2, TreesStay DEF TreesInv
      <3> QED
        BY <3>1, <3>3, <3>4
    <2> QED
      BY <2>1, <2>2 DEF KeepsTree
  <1>7. KeepsTree(new, nodes, list, given, life)
    BY <1>3, <1>4 DEF KeepsTree
  <1>8. /\ DOMAIN treeHeld' = Users
        /\ \A v \in Users : \A x \in treeHeld'[v] : x = new \/ x \in treeHeld[v]
    <2> HIDE DEF new
    <2> QED
      BY <1>2 DEF TreesInv
  <1>9. \A v \in Users : \A x \in treeHeld'[v] : KeepsTree(x, nodes, list, given, life)
    <2> HIDE DEF new
    <2> QED
      BY <1>6, <1>7, <1>8
  <1>10. TreesInv' = (/\ Interns(nodes, list)
                      /\ given \in Seq(1 .. Len(nodes))
                      /\ Differ(given)
                      /\ life \in 1 .. MaxLives
                      /\ DOMAIN treeHeld' = Users
                      /\ \A v \in Users : \A x \in treeHeld'[v] : KeepsTree(x, nodes, list, given, life))
    BY <1>2 DEF TreesInv, Interns, KeepsTree, Differ
  <1>11. life \in 1 .. MaxLives
    BY DEF TreesInv
  <1> HIDE DEF new, KeepsTree, Interns, TreesInv
  <1> QED
    BY <1>4, <1>5, <1>8, <1>9, <1>10, <1>11

(* It holds of a fresh context,                                               *)
LEMMA TreesInitInv == Trees!Init => TreesInv
  <1> SUFFICES ASSUME Trees!Init PROVE TreesInv
    OBVIOUS
  <1> DEFINE nil == <<"nil", "nil">>
  <1>1. nil \in Tags \X Marks /\ nil[1] = "nil" /\ nil[1] # "neg" /\ nil[1] # "ui"
    BY DEF Tags, Marks
  <1>2. arena = <<nil>> /\ treeHandles = <<1>> /\ controls = <<>> /\ life = 1 /\ treeHeld = [u \in Users |-> {}]
    BY DEF Trees!Init
  <1> HIDE DEF nil
  <1>3. arena \in Seq(Tags \X Marks) /\ Len(arena) = 1 /\ arena[1] = nil
    BY <1>1, <1>2
  <1>4. Interns(arena, controls)
    BY <1>1, <1>2, <1>3 DEF Interns
  <1>5. MaxLives \in Nat /\ MaxLives >= 1
    BY HostsAssumption DEF Trees!HandlesAssumption
  <1> QED
    BY <1>2, <1>3, <1>4, <1>5 DEF TreesInv, Differ

(* and every call keeps it.                                                   *)
LEMMA TreesStep == TreesInv /\ Trees!Next => TreesInv'
  <1> SUFFICES ASSUME TreesInv, Trees!Next PROVE TreesInv'
    OBVIOUS
  <1>a. /\ Interns(arena, controls) /\ life \in Nat /\ Len(arena) \in Nat /\ Len(controls) \in Nat
        /\ DOMAIN arena = 1 .. Len(arena) /\ DOMAIN controls = 1 .. Len(controls)
        /\ DOMAIN treeHandles = 1 .. Len(treeHandles)
        /\ \A h \in 1 .. Len(treeHandles) : treeHandles[h] \in 1 .. Len(arena)
        /\ Begins(arena, arena) /\ Begins(controls, controls)
    BY DEF TreesInv, Interns, Begins
  <1>b. PICK T : T = TreesOf(arena, controls)
    OBVIOUS
  <1>c. ASSUME NEW u \in Users, NEW x \in treeHeld[u], Trees!Decodes(x.handle)
        PROVE  /\ x.life \in Nat /\ x.life <= life /\ x.handle \in 1 .. Len(treeHandles)
               /\ treeHandles[x.handle] \in 1 .. Len(arena)
               /\ x.life = life => T[treeHandles[x.handle]] = x.tree
    <2>1. KeepsTree(x, arena, controls, treeHandles, life)
      BY DEF TreesInv
    <2>2. x.handle \in 1 .. Len(treeHandles)
      BY <1>a, <1>c DEF Trees!Decodes
    <2> QED
      BY <1>a, <1>b, <2>1, <2>2 DEF KeepsTree
  <1>1. ASSUME NEW u \in Users, NEW l \in Leaves, Trees!Leaf(u, l) PROVE TreesInv'
    <2> DEFINE node == <<"leaf", l>>
    <2>1. PICK nodes : nodes = Trees!Interned(arena, node)
      OBVIOUS
    <2>2. node \in Tags \X Marks /\ node[1] = "leaf"
      BY DEF Tags, Marks
    <2>3. Trees!Give(u, nodes, node, node, life) /\ controls' = controls /\ life' = life
      BY <1>1, <2>1 DEF Trees!Leaf
    <2> HIDE DEF node
    <2>4. /\ Interns(nodes, controls) /\ Begins(arena, nodes)
          /\ Trees!IdOf(nodes, node) \in 1 .. Len(nodes) /\ nodes[Trees!IdOf(nodes, node)] = node
      <3>1. Follows(arena, controls, node)
        BY <2>2 DEF Follows
      <3>2. Interns(nodes, controls) /\ Begins(arena, nodes) /\ HoldsAt(nodes, Trees!IdOf(nodes, node), node)
        BY <1>a, <2>1, <3>1, InternNode
      <3> QED
        BY <3>2 DEF HoldsAt
    <2>5. TreesOf(nodes, controls)[Trees!IdOf(nodes, node)] = node
      BY <2>2, <2>4, TreeRules
    <2> QED
      BY <1>a, <2>3, <2>4, <2>5, GiveStep
  <1>2. ASSUME NEW u \in Users, NEW x \in treeHeld[u], Trees!Unary(u, x) PROVE TreesInv'
    <2>0. PICK child : child = treeHandles[x.handle]
      OBVIOUS
    <2> DEFINE node == <<"neg", child>>
               tree == <<"neg", x.tree>>
    <2>1. PICK nodes : nodes = Trees!Interned(arena, node)
      OBVIOUS
    <2>2. /\ Trees!Give(u, nodes, node, tree, x.life) /\ controls' = controls /\ life' = life
          /\ Trees!Decodes(x.handle)
      BY <1>2, <2>0, <2>1 DEF Trees!Unary
    <2>3. /\ x.life \in Nat /\ x.life <= life /\ child \in 1 .. Len(arena)
          /\ x.life = life => T[child] = x.tree
      BY <1>c, <2>0, <2>2
    <2>4. node \in Tags \X Marks /\ node[1] = "neg" /\ node[2] = child
      BY <1>a, <2>3 DEF Tags, Marks
    <2> HIDE DEF node, tree
    <2>5. /\ Interns(nodes, controls) /\ Begins(arena, nodes)
          /\ Trees!IdOf(nodes, node) \in 1 .. Len(nodes) /\ nodes[Trees!IdOf(nodes, node)] = node
      <3>1. Follows(arena, controls, node)
        BY <2>3, <2>4 DEF Follows
      <3>2. Interns(nodes, controls) /\ Begins(arena, nodes) /\ HoldsAt(nodes, Trees!IdOf(nodes, node), node)
        BY <1>a, <2>1, <3>1, InternNode
      <3> QED
        BY <3>2 DEF HoldsAt
    <2>6. x.life = life => TreesOf(nodes, controls)[Trees!IdOf(nodes, node)] = tree
      <3>1. TreesOf(nodes, controls)[Trees!IdOf(nodes, node)] = <<"neg", TreesOf(nodes, controls)[child]>>
        BY <2>4, <2>5, TreeRules
      <3>2. TreesOf(nodes, controls)[child] = T[child]
        BY <1>a, <1>b, <2>3, <2>5, TreesStay
      <3> QED
        BY <2>3, <3>1, <3>2 DEF tree
    <2> QED
      BY <1>a, <2>2, <2>3, <2>5, <2>6, GiveStep
  <1>3. ASSUME NEW u \in Users, NEW x \in treeHeld[u], NEW l \in Labels, Trees!Slider(u, l, x)
        PROVE  TreesInv'
    <2>0. PICK init : init = treeHandles[x.handle]
      OBVIOUS
    <2> DEFINE symbol == <<"sym", l>>
               tree == <<"slider", l, x.tree>>
    <2>1. PICK nodes, label, list : /\ nodes = Trees!Interned(arena, symbol)
                                    /\ label = Trees!IdOf(nodes, symbol)
                                    /\ list = Trees!Registered(label, init)
      OBVIOUS
    <2>2. PICK c : c = Trees!ControlOf(list, label, init)
      OBVIOUS
    <2> DEFINE node == <<"ui", c>>
    <2>3. PICK more : more = Trees!Interned(nodes, node)
      OBVIOUS
    <2>4. /\ controls' = list /\ Trees!Give(u, more, node, tree, x.life) /\ life' = life
          /\ Trees!Decodes(x.handle)
      BY <1>3, <2>0, <2>1, <2>2, <2>3, Zenon DEF Trees!Slider
    <2>5. /\ x.life \in Nat /\ x.life <= life /\ init \in 1 .. Len(arena)
          /\ x.life = life => T[init] = x.tree
      BY <1>c, <2>0, <2>4
    <2>6. symbol \in Tags \X Marks /\ symbol[1] = "sym" /\ symbol[2] = l
      BY DEF Tags, Marks
    <2> HIDE DEF symbol
    <2>7. /\ Interns(nodes, controls) /\ Begins(arena, nodes)
          /\ HoldsAt(nodes, label, symbol)
      <3>1. Follows(arena, controls, symbol)
        BY <2>6 DEF Follows
      <3> QED
        BY <1>a, <2>1, <3>1, InternNode
    <2>8. init \in 1 .. Len(nodes) /\ Len(nodes) \in Nat
      BY <1>a, <2>5, <2>7 DEF Begins, Interns
    <2>9. list = WithControl(controls, label, init)
      BY <2>1, Zenon DEF Trees!Registered, WithControl
    <2>10. /\ Interns(nodes, list) /\ Begins(controls, list)
           /\ c \in 1 .. Len(list) /\ list[c] = <<label, init>>
      <3>1. HoldsAt(nodes, label, <<"sym", l>>)
        BY <2>7 DEF symbol
      <3>2. /\ Interns(nodes, list) /\ Begins(controls, list)
            /\ HoldsAt(list, Trees!ControlOf(list, label, init), <<label, init>>)
        BY <2>7, <2>8, <2>9, <3>1, RegisterControl
      <3> QED
        BY <2>2, <3>2 DEF HoldsAt
    <2>11. node \in Tags \X Marks /\ node[1] = "ui" /\ node[2] = c
      <3>1. Len(list) \in Nat
        BY <2>10 DEF Interns
      <3> QED
        BY <2>10, <3>1 DEF Tags, Marks
    <2> HIDE DEF node
    <2>12. /\ Interns(more, list) /\ Begins(nodes, more)
           /\ Trees!IdOf(more, node) \in 1 .. Len(more) /\ more[Trees!IdOf(more, node)] = node
      <3>1. Interns(nodes, list) /\ Follows(nodes, list, node)
        BY <2>10, <2>11 DEF Follows
      <3>2. Interns(more, list) /\ Begins(nodes, more) /\ HoldsAt(more, Trees!IdOf(more, node), node)
        BY <2>3, <3>1, InternNode
      <3> QED
        BY <3>2, Zenon DEF HoldsAt
    <2>13. Begins(arena, more) /\ more[label] = symbol
      <3>1. Begins(arena, more)
        <4>1. Begins(arena, nodes) /\ Begins(nodes, more)
          BY <2>7, <2>12
        <4>2. Len(arena) \in Nat /\ Len(nodes) \in Nat /\ Len(more) \in Nat
          BY <1>a, <2>8, <2>12 DEF Interns
        <4> QED
          BY <4>1, <4>2 DEF Begins
      <3>2. label \in 1 .. Len(nodes) /\ nodes[label] = symbol
        BY <2>7 DEF HoldsAt
      <3>3. \A i \in 1 .. Len(nodes) : more[i] = nodes[i]
        BY <2>12 DEF Begins
      <3> QED
        BY <3>1, <3>2, <3>3
    <2>14. x.life = life => TreesOf(more, list)[Trees!IdOf(more, node)] = tree
      <3>1. TreesOf(more, list)[Trees!IdOf(more, node)] =
              <<"slider", more[list[c][1]][2], TreesOf(more, list)[list[c][2]]>>
        BY <2>11, <2>12, TreeRules
      <3>2. list[c][1] = label /\ list[c][2] = init /\ more[label][2] = l
        BY <2>6, <2>10, <2>13
      <3>3. TreesOf(more, list)[init] = T[init]
        BY <1>a, <1>b, <2>5, <2>10, <2>12, <2>13, TreesStay
      <3> QED
        BY <2>5, <3>1, <3>2, <3>3
    <2> HIDE DEF tree
    <2> QED
      BY <2>4, <2>5, <2>10, <2>12, <2>13, <2>14, GiveStep
  <1>4. ASSUME NEW u \in Users, NEW x \in treeHeld[u], Trees!Match(u, x) PROVE TreesInv'
    <2>0. PICK id, node : id = treeHandles[x.handle] /\ node = Trees!Node(id)
      OBVIOUS
    <2>1. PICK child : child = IF node[1] = "ui" THEN Trees!Control(node[2])[2] ELSE node[2]
      OBVIOUS
    <2>2. /\ Trees!Decodes(x.handle)
          /\ <<node[1], x.tree[1]>> \in {<<"neg", "neg">>, <<"ui", "slider">>}
          /\ child \in DOMAIN arena
          /\ Trees!Give(u, arena, arena[child], Trees!Last(x.tree), x.life)
          /\ UNCHANGED <<controls, life>>
      BY <1>4, <2>0, <2>1 DEF Trees!Match
    <2>3. /\ x.life \in Nat /\ x.life <= life /\ id \in 1 .. Len(arena)
          /\ x.life = life => T[id] = x.tree
      BY <1>c, <2>0, <2>2
    <2>4. node = arena[id] /\ child \in 1 .. Len(arena) /\ (node[1] = "neg" \/ node[1] = "ui")
      BY <1>a, <2>0, <2>2, <2>3 DEF Trees!Node
    <2>5. Trees!IdOf(arena, arena[child]) = child
      BY <1>a, <2>4, IdOfNode
    <2>6. ASSUME x.life = life PROVE T[child] = Trees!Last(x.tree)
      <3>1. CASE node[1] = "neg"
        <4>1. x.tree = <<"neg", T[child]>>
          BY <1>a, <1>b, <2>1, <2>3, <2>4, <2>6, <3>1, TreeRules
        <4> QED
          BY <4>1 DEF Trees!Last
      <3>2. CASE node[1] = "ui"
        <4>1. T[id] = <<"slider", arena[controls[node[2]][1]][2], T[controls[node[2]][2]]>>
          <5>1. Interns(arena, controls) /\ id \in 1 .. Len(arena) /\ arena[id][1] = "ui"
            BY <1>a, <2>3, <2>4, <3>2
          <5>2. T[id] = <<"slider", arena[controls[arena[id][2]][1]][2], T[controls[arena[id][2]][2]]>>
            BY <1>b, <5>1, TreeRules
          <5> QED
            BY <2>4, <5>2
        <4>2. Trees!Control(node[2]) = controls[node[2]]
          BY <1>a, <2>3, <2>4, <3>2 DEF Trees!Control, Interns
        <4>3. x.tree = <<"slider", arena[controls[node[2]][1]][2], T[child]>>
          BY <2>1, <2>3, <2>6, <3>2, <4>1, <4>2
        <4> QED
          BY <4>3 DEF Trees!Last
      <3> QED
        BY <2>4, <3>1, <3>2
    <2> QED
      BY <1>a, <1>b, <2>2, <2>3, <2>4, <2>5, <2>6, GiveStep
  <1>5. CASE Trees!Reset
    <2> DEFINE nil == <<"nil", "nil">>
    <2>1. nil \in Tags \X Marks /\ nil[1] = "nil" /\ nil[1] # "neg" /\ nil[1] # "ui"
      BY DEF Tags, Marks
    <2>2. /\ arena' = <<nil>> /\ treeHandles' = <<1>> /\ controls' = <<>> /\ life' = life + 1
          /\ treeHeld' = treeHeld /\ life < MaxLives
      BY <1>5 DEF Trees!Reset, Trees!Fresh
    <2> HIDE DEF nil
    <2>3. arena' \in Seq(Tags \X Marks) /\ Len(arena') = 1 /\ arena'[1] = nil
      BY <2>1, <2>2
    <2>4. Interns(arena', controls')
      BY <2>1, <2>2, <2>3 DEF Interns
    <2>5. \A u \in Users : \A x \in treeHeld[u] : KeepsTree(x, arena', controls', treeHandles', life')
      BY <1>a, <2>2 DEF TreesInv, KeepsTree
    <2>6. life' \in 1 .. MaxLives
      BY <1>a, <2>2, HostsAssumption DEF Trees!HandlesAssumption
    <2>7. treeHandles' \in Seq(1 .. Len(arena')) /\ Len(treeHandles') = 1
      BY <2>2, <2>3
    <2>8. /\ Interns(arena, controls)' /\ DOMAIN treeHeld' = Users
          /\ \A u \in Users : \A x \in treeHeld'[u] : KeepsTree(x, arena, controls, treeHandles, life)'
      BY <2>2, <2>4, <2>5 DEF TreesInv, Interns, KeepsTree, Differ
    <2> QED
      BY <2>6, <2>7, <2>8 DEF TreesInv, Differ
  <1>6. ASSUME NEW u \in Users, NEW x \in treeHeld[u], Trees!Forget(u, x) PROVE TreesInv'
    <2>1. /\ UNCHANGED <<arena, treeHandles, controls, life>> /\ DOMAIN treeHeld' = Users
          /\ \A v \in Users : treeHeld'[v] \subseteq treeHeld[v]
      BY <1>6 DEF Trees!Forget, TreesInv
    <2> QED
      BY <2>1 DEF TreesInv, Interns, KeepsTree, Differ
  <1> QED
    BY <1>1, <1>2, <1>3, <1>4, <1>5, <1>6 DEF Trees!Next

(* What the context promises follows: a kept handle decodes to its tree, and  *)
(* since no two nodes stand for one tree, equal trees have one handle.        *)
LEMMA KeptTreesFollow == TreesInv => Trees!TypeOK /\ Trees!HandlesKeepTheirTree /\ Trees!OneHandlePerTree
  <1> SUFFICES ASSUME TreesInv PROVE Trees!TypeOK /\ Trees!HandlesKeepTheirTree /\ Trees!OneHandlePerTree
    OBVIOUS
  <1>0. /\ Interns(arena, controls) /\ Len(arena) \in Nat /\ Len(controls) \in Nat
        /\ DOMAIN arena = 1 .. Len(arena) /\ DOMAIN controls = 1 .. Len(controls)
        /\ DOMAIN treeHandles = 1 .. Len(treeHandles)
        /\ \A h \in 1 .. Len(treeHandles) : treeHandles[h] \in 1 .. Len(arena)
    <2>1. /\ Interns(arena, controls) /\ Len(arena) \in Nat /\ Len(controls) \in Nat
          /\ DOMAIN arena = 1 .. Len(arena) /\ DOMAIN controls = 1 .. Len(controls)
      BY DEF TreesInv, Interns
    <2>2. treeHandles \in Seq(1 .. Len(arena))
      BY DEF TreesInv
    <2> QED
      BY <2>1, <2>2
  <1>1. Trees!TypeOK
    <2>1. \A i \in 1 .. Len(arena) : arena[i][1] = "neg" => arena[i][2] \in 1 .. i - 1
      BY <1>0 DEF Interns
    <2>2. \A i \in 1 .. Len(arena) : arena[i][1] = "ui" => arena[i][2] \in 1 .. Len(controls)
      BY <1>0 DEF Interns
    <2>3. \A c \in 1 .. Len(controls) :
            controls[c][1] \in 1 .. Len(arena) /\ controls[c][2] \in 1 .. Len(arena)
      BY <1>0 DEF Interns
    <2>4. life \in 1 .. MaxLives
      BY DEF TreesInv
    <2> QED
      BY <1>0, <2>1, <2>2, <2>3, <2>4 DEF Trees!TypeOK
  <1>2. PICK T : T = TreesOf(arena, controls)
    OBVIOUS
  <1>3. Trees!Tree = T
    <2>1. Trees!Tree = TreesOf(arena, controls)
      BY Zenon DEF Trees!Tree, TreesOf, TreeOf, NodeIn, ControlIn, Trees!Node, Trees!Control
    <2> QED
      BY <1>2, <2>1
  <1>4. ASSUME NEW u \in Users, NEW x \in treeHeld[u], x.life = life
        PROVE  x.handle \in 1 .. Len(treeHandles) /\ T[treeHandles[x.handle]] = x.tree
    <2>1. KeepsTree(x, arena, controls, treeHandles, life)
      BY DEF TreesInv
    <2> QED
      BY <1>2, <1>4, <2>1 DEF KeepsTree
  <1>5. Trees!HandlesKeepTheirTree
    BY <1>0, <1>3, <1>4 DEF Trees!HandlesKeepTheirTree, Trees!Decodes
  <1>6. ASSUME NEW u \in Users, NEW v \in Users, NEW x \in treeHeld[u], NEW y \in treeHeld[v],
               x.life = life, y.life = life
        PROVE  x.tree = y.tree <=> x.handle = y.handle
    <2>1. /\ x.handle \in 1 .. Len(treeHandles) /\ T[treeHandles[x.handle]] = x.tree
          /\ y.handle \in 1 .. Len(treeHandles) /\ T[treeHandles[y.handle]] = y.tree
      BY <1>4, <1>6
    <2>2. treeHandles[x.handle] \in 1 .. Len(arena) /\ treeHandles[y.handle] \in 1 .. Len(arena)
      BY <1>0, <2>1
    <2>3. \A i, j \in 1 .. Len(arena) : T[i] = T[j] => i = j
      BY <1>0, <1>2, TreesApart
    <2>4. treeHandles[x.handle] = treeHandles[y.handle] => x.handle = y.handle
      BY <2>1 DEF TreesInv, Differ
    <2> QED
      BY <2>1, <2>2, <2>3, <2>4
  <1>7. Trees!OneHandlePerTree
    BY <1>6 DEF Trees!OneHandlePerTree
  <1> QED
    BY <1>1, <1>5, <1>7

(* Within a life of the context a handle decodes to the tree its holder built *)
(* or matched, whatever the other users intern and register, and one tree has *)
(* one handle (encode, intern, register_signal_control).                      *)
THEOREM HandlesKeepTheirTreeHolds == HostsSpec => []HandlesKeepTheirTree
  <1> DEFINE I == part = "trees" => TreesInv
  <1>1. HostsInit => I
    BY TreesInitInv DEF HostsInit
  <1>2. TreesInv /\ UNCHANGED treeVars => TreesInv'
    <2> SUFFICES ASSUME TreesInv, UNCHANGED treeVars PROVE TreesInv'
      OBVIOUS
    <2>1. /\ arena' = arena /\ treeHandles' = treeHandles /\ controls' = controls
          /\ life' = life /\ treeHeld' = treeHeld
      BY DEF treeVars
    <2>2. Interns(arena, controls)' /\ Differ(treeHandles)'
      BY <2>1 DEF TreesInv, Interns, Differ
    <2>3. \A u \in Users : \A x \in treeHeld'[u] : KeepsTree(x, arena, controls, treeHandles, life)'
      BY <2>1 DEF TreesInv, KeepsTree
    <2> QED
      BY <2>1, <2>2, <2>3 DEF TreesInv
  <1>3. I /\ [HostsNext]_hostsVars => I'
    <2> HIDE DEF TreesInv
    <2> QED
      BY <1>2, TreesStep DEF HostsNext, hostsVars, treeVars
  <1>4. I => HandlesKeepTheirTree
    BY KeptTreesFollow DEF HandlesKeepTheirTree
  <1> QED
    BY <1>1, <1>3, <1>4, PTL DEF HostsSpec

-----------------------------------------------------------------------------
(***************************************************************************)
(* RustBindings.  The cache keeps its invariant whatever its host does; the *)
(* bindings add that one call at a time works in it, so the strengthening  *)
(* is about Arcs: an inner without a factory, or with its factory about to *)
(* be deleted, has none left, and the references are those of the inners.  *)
(***************************************************************************)
(* What each call is about while it runs.  An instantiation has its Dsp before *)
(* the instance; a removal keeps the Dsp after the instance is gone.          *)
Shaped(j) ==
    /\ j.op = "none" => j = NoJob
    /\ j.op = "create" => j.inner = NoInner /\ j.dsp = NoDsp /\ j.at \in {"waiting", "locked"}
    /\ j.op = "json" => j.inner # NoInner /\ j.dsp = NoDsp /\ j.at \in {"waiting", "locked"}
    /\ j.op = "delete" =>
          j.inner # NoInner /\ j.dsp = NoDsp /\ j.at \in {"waiting", "locked", "dropping"}
    /\ j.op \in {"instantiate", "remove", "init", "compute"} =>
          j.inner # NoInner /\ j.dsp # NoDsp /\ of[j.dsp] = j.inner
    /\ j.op = "instantiate" =>
          j.at \in {"waiting", "locked", "optimizing", "building"} /\ inst[j.dsp] = NoInstance
    /\ j.op = "remove" =>
          /\ j.at \in {"waiting", "locked", "dropping"}
          /\ j.at # "dropping" => inst[j.dsp] # NoInstance
          /\ j.at = "dropping" => inst[j.dsp] = NoInstance
    /\ j.op \in {"init", "compute"} => j.at = "running" /\ inst[j.dsp] # NoInstance

JobsAreShaped == \A t \in Threads : Shaped(job[t])

(* The places between taking the lifecycle lock and releasing it.             *)
Inside == {"locked", "optimizing", "building", "dropping"}

LockIsHeld == \A t \in Threads : lock = t <=> job[t].at \in Inside

(* A Dsp is owned, or borrowed for one call.                                  *)
OneCallPerDsp ==
    \A t, u \in Threads : t # u /\ job[t].dsp # NoDsp => job[t].dsp # job[u].dsp

(* A handle lent to a call outlives the call.                                 *)
LentHandlesStay ==
    \A t \in Threads : job[t].op \in {"json", "instantiate"} => handles[job[t].inner] > 0

(* What a thread builds and destroys in the cache it does under the lock.     *)
WorkIsInside ==
    \A t \in Threads :
        /\ creating[t] # NoFactory =>
              At(t, "instantiate", "building") /\ creating[t] = raw[job[t].inner]
        /\ dropF[t] \cup dropI[t] # {} => job[t].at = "dropping"

(* No Arc of an inner is left.  An inner without a factory is so, and one that *)
(* is about to be deleted, by one thread.                                     *)
Unowned(n) == handles[n] = 0 /\ \A d \in Dsps : of[d] # n

VoidIsUnowned == \A n \in Inners : raw[n] = NoFactory => Unowned(n)

Deleting(t) == job[t].op = "delete" /\ job[t].at # "dropping"

DeletesAreLast ==
    \A t \in Threads :
        Deleting(t) =>
            /\ raw[job[t].inner] # NoFactory /\ Unowned(job[t].inner)
            /\ \A u \in Threads : Deleting(u) /\ job[u].inner = job[t].inner => u = t

(* A program some instance runs has been optimised, so a thread optimises only *)
(* a program no instance of which exists.                                     *)
UsedIsOptimized ==
    /\ \A d \in Dsps : inst[d] # NoInstance => ~ NeedsOptimizing(raw[of[d]])
    /\ \A t \in Threads :
          /\ At(t, "instantiate", "building") => ~ NeedsOptimizing(raw[job[t].inner])
          /\ At(t, "instantiate", "optimizing") => NeedsOptimizing(raw[job[t].inner])

(* The references of the cache are those of the inners.                       *)
ReferencesAreInners == \A f \in Factories : held[f] = Cardinality({n \in Inners : raw[n] = f})

(* The inductive invariant: that of the cache, and what the calls under way,  *)
(* the Arcs and the loaded instances rest on.                                 *)
OwnTypes ==
    /\ lock \in Threads \cup {NoThread} /\ raw \in [Inners -> Factories \cup {NoFactory}]
    /\ handles \in [Inners -> 0 .. MaxHandles] /\ of \in [Dsps -> Inners \cup {NoInner}]
    /\ inst \in [Dsps -> Instances \cup {NoInstance}]
    /\ optimized \subseteq Factories /\ job \in [Threads -> Job]

JobsInv == OwnTypes /\ JobsAreShaped /\ LockIsHeld /\ OneCallPerDsp /\ LentHandlesStay

CountsInv ==
    WorkIsInside /\ VoidIsUnowned /\ DeletesAreLast /\ ReferencesAreInners /\ disciplined

AliveInv == DspsAreAlive /\ UsedIsOptimized

BindingsInv == Inv /\ JobsInv /\ CountsInv /\ AliveInv

(* Thread t goes to job j, and the jobs of the others keep what they rest on. *)
Moved(t, j) ==
    /\ job' = [job EXCEPT ![t] = j]
    /\ OwnTypes' /\ Shaped(j)'
    /\ lock' = IF j.at \in Inside THEN t ELSE IF job[t].at \in Inside THEN NoThread ELSE lock
    /\ j.at \in Inside /\ job[t].at \notin Inside => lock = NoThread
    /\ \A u \in Threads \ {t} :
          /\ job[u].dsp # NoDsp =>
                /\ of'[job[u].dsp] = of[job[u].dsp] /\ inst'[job[u].dsp] = inst[job[u].dsp]
                /\ job[u].dsp # j.dsp
          /\ job[u].op \in {"json", "instantiate"} => handles'[job[u].inner] > 0
    /\ j.op \in {"json", "instantiate"} => handles'[j.inner] > 0

LEMMA JobMoves ==
  ASSUME JobsInv, NEW t \in Threads, NEW j \in Job, Moved(t, j)
  PROVE  JobsInv'
  <1> USE BindingsAssumption DEF JobsInv, Moved
  <1>1. \A u \in Threads : job'[u] = IF u = t THEN j ELSE job[u]
    BY DEF OwnTypes
  <1>2. OwnTypes'
    BY DEF OwnTypes
  <1>3. JobsAreShaped'
    <2> SUFFICES ASSUME NEW u \in Threads PROVE Shaped(job[u])'
      BY DEF JobsAreShaped
    <2>1. CASE u = t
      BY <1>1, <2>1 DEF Shaped
    <2>2. CASE u # t
      BY <1>1, <2>2 DEF Shaped, JobsAreShaped
    <2> QED
      BY <2>1, <2>2
  <1>4. LockIsHeld'
    BY <1>1 DEF LockIsHeld, OwnTypes
  <1>5. OneCallPerDsp'
    BY <1>1 DEF OneCallPerDsp, OwnTypes
  <1>6. LentHandlesStay'
    BY <1>1 DEF LentHandlesStay
  <1> QED
    BY <1>2, <1>3, <1>4, <1>5, <1>6

(* Without a change of the cache or of raw, each inner keeps its reference.   *)
Counted(t, j) ==
    /\ job' = [job EXCEPT ![t] = j]
    /\ UNCHANGED <<vars, raw>>
    /\ \A n \in Inners : raw[n] = NoFactory => Unowned(n)'
    /\ \A u \in Threads \ {t} : Deleting(u) => Unowned(job[u].inner)'
    /\ j.op = "delete" /\ j.at # "dropping" =>
          /\ raw[j.inner] # NoFactory /\ Unowned(j.inner)'
          /\ \A u \in Threads \ {t} : Deleting(u) => job[u].inner # j.inner
    /\ creating[t] # NoFactory => j = job[t]
    /\ dropF[t] \cup dropI[t] # {} => j.at = "dropping"

LEMMA CountsFrame ==
  ASSUME BindingsInv, NEW t \in Threads, NEW j \in Job, Counted(t, j)
  PROVE  CountsInv'
  <1> USE DEF BindingsInv, CountsInv, Counted
  <1>1. \A u \in Threads : job'[u] = IF u = t THEN j ELSE job[u]
    BY DEF JobsInv, OwnTypes
  <1>2. WorkIsInside'
    BY <1>1 DEF WorkIsInside, At, vars
  <1>3. DeletesAreLast'
    <2> SUFFICES ASSUME NEW u \in Threads, Deleting(u)'
                 PROVE  /\ raw'[job'[u].inner] # NoFactory /\ Unowned(job[u].inner)'
                        /\ \A w \in Threads : Deleting(w)' /\ job'[w].inner = job'[u].inner => w = u
      BY DEF DeletesAreLast, Unowned
    <2>1. CASE u = t
      BY <1>1, <2>1 DEF Deleting, Unowned
    <2>2. CASE u # t
      BY <1>1, <2>2 DEF Deleting, DeletesAreLast, Unowned
    <2> QED
      BY <2>1, <2>2
  <1>4. ReferencesAreInners'
    BY DEF ReferencesAreInners, vars
  <1> QED
    BY <1>2, <1>3, <1>4 DEF vars, VoidIsUnowned

(* Without a change of the cache or of raw, what is loaded stays alive.       *)
Kept(t, j) ==
    /\ job' = [job EXCEPT ![t] = j]
    /\ UNCHANGED <<cache, raw, optimized>>
    /\ \A d \in Dsps : inst'[d] # NoInstance => of'[d] = of[d] /\ inst'[d] = inst[d]
    /\ j.op = "instantiate" =>
          /\ j.at = "building" => ~ NeedsOptimizing(raw[j.inner])
          /\ j.at = "optimizing" => NeedsOptimizing(raw[j.inner])

LEMMA AliveFrame ==
  ASSUME BindingsInv, NEW t \in Threads, NEW j \in Job, Kept(t, j)
  PROVE  AliveInv'
  <1> USE DEF BindingsInv, AliveInv, Kept
  <1>1. \A f : NeedsOptimizing(f)' <=> NeedsOptimizing(f)
    BY DEF NeedsOptimizing, Names, Cached
  <1>2. Keys' = Keys
    BY DEF Keys, Cached
  <1>3. \A u \in Threads : job'[u] = IF u = t THEN j ELSE job[u]
    BY DEF JobsInv, OwnTypes
  <1>4. DspsAreAlive'
    BY <1>2 DEF DspsAreAlive
  <1>5. UsedIsOptimized'
    BY <1>1, <1>3 DEF UsedIsOptimized, At
  <1> QED
    BY <1>4, <1>5

(* A thread outside the lock has nothing to destroy and builds nothing.       *)
LEMMA IdleThread ==
  ASSUME BindingsInv, NEW t \in Threads, job[t].op = "none" \/ job[t].at \in {"waiting", "running"}
  PROVE  /\ lock # t /\ Free(t) /\ job[t] \in Job
         /\ job[t].op = "none" => job[t] = NoJob /\ job[t].at = "waiting"
  <1>1. job[t] \in Job /\ (job[t].op = "none" => job[t] = NoJob /\ job[t].at = "waiting")
    BY DEF BindingsInv, JobsInv, OwnTypes, JobsAreShaped, Shaped, NoJob
  <1>2. lock # t
    BY <1>1 DEF BindingsInv, JobsInv, LockIsHeld, Inside
  <1>3. Free(t)
    BY <1>1 DEF BindingsInv, CountsInv, WorkIsInside, Free, At
  <1> QED
    BY <1>1, <1>2, <1>3

(* A strong count of one is a handle without a Dsp or a Dsp without a handle. *)
LEMMA ArcsOne ==
  ASSUME BindingsInv, NEW n \in Inners, Arcs(n) = 1
  PROVE  /\ handles[n] > 0 => handles[n] = 1 /\ \A d \in Dsps : of[d] # n
         /\ \A d \in Dsps : of[d] = n => handles[n] = 0 /\ \A c \in Dsps : of[c] = n => c = d
  <1> DEFINE D == {d \in Dsps : of[d] = n}
  <1>1. IsFiniteSet(D)
    BY BindingsAssumption, FS_Subset
  <1>2. Cardinality(D) \in Nat /\ (Cardinality(D) = 0 <=> D = {})
        /\ (Cardinality(D) = 1 => \E x : D = {x})
    BY <1>1, FS_CardinalityType, FS_EmptySet, FS_Singleton
  <1>3. handles[n] \in Nat /\ handles[n] + Cardinality(D) = 1
    BY BindingsAssumption DEF Arcs, BindingsInv, JobsInv, OwnTypes
  <1> HIDE DEF D
  <1>4. handles[n] > 0 => handles[n] = 1 /\ D = {}
    BY <1>2, <1>3
  <1>5. ASSUME D # {} PROVE handles[n] = 0 /\ \E x : D = {x}
    <2>1. Cardinality(D) = 1 /\ handles[n] = 0
      BY <1>2, <1>3, <1>5
    <2> QED
      BY <1>2, <2>1
  <1> QED
    BY <1>4, <1>5 DEF D

(* A handle that may be dropped while another call has one lent is not alone. *)
LEMMA LentCounts ==
  ASSUME BindingsInv, NEW n \in Inners, NEW t \in Threads,
         job[t].inner = n, job[t].op \in {"json", "instantiate"}, handles[n] > Lent(n)
  PROVE  handles[n] > 1
  <1> DEFINE L == {u \in Threads : job[u].inner = n /\ job[u].op \in {"json", "instantiate"}}
  <1>1. IsFiniteSet(L) /\ t \in L
    BY BindingsAssumption, FS_Subset
  <1>2. Cardinality(L) \in Nat /\ Cardinality(L) # 0
    BY <1>1, FS_CardinalityType, FS_EmptySet
  <1>3. handles[n] \in Nat
    BY BindingsAssumption DEF BindingsInv, JobsInv, OwnTypes
  <1> QED
    BY <1>2, <1>3 DEF Lent

-----------------------------------------------------------------------------

(* The parts of the invariant the steps use.                                  *)
LEMMA BindingsFacts ==
  ASSUME BindingsInv
  PROVE  /\ OwnTypes /\ LockIsHeld /\ OneCallPerDsp /\ Inv /\ MaxHandles \in Nat \ {0}
         /\ \A u \in Threads :
               /\ job[u] \in Job /\ Shaped(job[u]) /\ u # NoThread
               /\ job[u].op \in {"json", "instantiate"} => handles[job[u].inner] > 0
               /\ job[u].inner # NoInner =>
                     job[u].inner \in Inners /\ handles[job[u].inner] \in Nat
               /\ Deleting(u) => raw[job[u].inner] # NoFactory /\ Unowned(job[u].inner)
               /\ Deleting(u) => job[u].inner \in Inners
         /\ \A n \in Inners : handles[n] \in Nat /\ (raw[n] = NoFactory => Unowned(n))
  <1> USE BindingsAssumption DEF BindingsInv, JobsInv
  <1>1. \A u \in Threads : job[u] \in Job /\ Shaped(job[u]) /\ u # NoThread
    BY DEF OwnTypes, JobsAreShaped
  <1>2. \A u \in Threads : job[u].inner # NoInner => job[u].inner \in Inners
    BY <1>1 DEF Job
  <1>3. \A n \in Inners : handles[n] \in Nat /\ (raw[n] = NoFactory => Unowned(n))
    BY DEF OwnTypes, CountsInv, VoidIsUnowned
  <1>4. \A u \in Threads : job[u].op \in {"json", "instantiate"} => handles[job[u].inner] > 0
    BY DEF LentHandlesStay
  <1>5. \A u \in Threads : Deleting(u) => raw[job[u].inner] # NoFactory /\ Unowned(job[u].inner)
    BY DEF CountsInv, DeletesAreLast
  <1>6. \A u \in Threads : Deleting(u) => job[u].inner \in Inners
    BY <1>1, <1>2 DEF Deleting, Shaped
  <1> QED
    BY <1>1, <1>2, <1>3, <1>4, <1>5, <1>6

(* A call on a Dsp is on the inner the Dsp holds an Arc of.                   *)
LEMMA DspOfJob ==
  ASSUME BindingsInv, NEW u \in Threads, job[u].dsp # NoDsp
  PROVE  /\ job[u].dsp \in Dsps /\ of[job[u].dsp] = job[u].inner
         /\ job[u].inner \in Inners /\ job[u].inner # NoInner
         /\ job[u].op \in {"instantiate", "remove", "init", "compute"}
  <1>1. job[u] \in Job /\ Shaped(job[u])
    BY BindingsFacts
  <1>2. job[u].op \in {"instantiate", "remove", "init", "compute"}
    BY <1>1 DEF Job, Ops, Shaped, NoJob
  <1> QED
    BY <1>1, <1>2 DEF Job, Shaped

(* Calls of safe code.                                                        *)
LEMMA CallCreateStep ==
  ASSUME BindingsInv, NEW t \in Threads, CallCreate(t)
  PROVE  JobsInv' /\ CountsInv' /\ AliveInv'
  <1> DEFINE j == [op |-> "create", inner |-> NoInner, dsp |-> NoDsp, at |-> "waiting"]
  <1>1. /\ job[t] = NoJob /\ job' = [job EXCEPT ![t] = j]
        /\ UNCHANGED <<vars, lock, raw, handles, of, inst, optimized>>
    BY DEF CallCreate, Idle, Runs
  <1>2. j \in Job
    BY DEF Job, Ops, Places
  <1>3. lock # t /\ Free(t)
    BY <1>1, IdleThread DEF NoJob
  <1>4. \A u \in Threads : job'[u] = IF u = t THEN j ELSE job[u]
    BY <1>1, BindingsFacts DEF OwnTypes
  <1>5. Moved(t, j)
    <2>1. OwnTypes'
      BY <1>1, <1>2, BindingsFacts DEF OwnTypes
    <2> QED
      BY <1>1, <1>3, <2>1, BindingsFacts DEF Moved, Shaped, Inside, NoJob
  <1>6. Counted(t, j)
    BY <1>1, <1>3, <1>4, BindingsFacts DEF Counted, Free, Unowned, Deleting
  <1>7. Kept(t, j)
    BY <1>1 DEF Kept, vars
  <1> HIDE DEF j
  <1> QED
    BY <1>2, <1>5, <1>6, <1>7, JobMoves, CountsFrame, AliveFrame DEF BindingsInv

(* A handle or a usable Dsp keeps an Arc, so the new one is not the first.    *)
LEMMA CallCloneStep ==
  ASSUME BindingsInv, NEW t \in Threads, NEW n \in Inners, CallClone(t, n)
  PROVE  JobsInv' /\ CountsInv' /\ AliveInv'
  <1>1. /\ job[t] = NoJob /\ job' = [job EXCEPT ![t] = NoJob] /\ ~ Unowned(n)
        /\ handles[n] < MaxHandles /\ handles' = [handles EXCEPT ![n] = handles[n] + 1]
        /\ UNCHANGED <<vars, lock, raw, of, inst, optimized>>
    BY BindingsFacts DEF CallClone, Idle, OwnTypes, Unowned
  <1>2. NoJob \in Job
    BY DEF Job, Ops, Places, NoJob
  <1>3. lock # t /\ Free(t)
    BY <1>1, IdleThread DEF NoJob
  <1>4. \A u \in Threads : job'[u] = job[u]
    BY <1>1, BindingsFacts DEF OwnTypes
  <1>5. \A m \in Inners : handles'[m] = IF m = n THEN handles[n] + 1 ELSE handles[m]
    BY <1>1, BindingsFacts DEF OwnTypes
  <1>6. Moved(t, NoJob)
    <2>1. OwnTypes'
      BY <1>1, <1>2, BindingsFacts DEF OwnTypes
    <2>2. \A u \in Threads : job[u].op \in {"json", "instantiate"} => handles'[job[u].inner] > 0
      BY <1>5, BindingsFacts DEF Shaped
    <2> QED
      BY <1>1, <1>3, <2>1, <2>2, BindingsFacts DEF Moved, Shaped, Inside, NoJob
  <1>7. Counted(t, NoJob)
    BY <1>1, <1>3, <1>4, <1>5, BindingsFacts DEF Counted, Free, Unowned, NoJob
  <1>8. Kept(t, NoJob)
    BY <1>1 DEF Kept, vars, NoJob
  <1> QED
    BY <1>2, <1>6, <1>7, <1>8, JobMoves, CountsFrame, AliveFrame DEF BindingsInv

(* The last Arc begins the deletion, and no call of another thread has lent   *)
(* the handle.                                                                *)
LEMMA CallDropHandleStep ==
  ASSUME BindingsInv, NEW t \in Threads, NEW n \in Inners, CallDropHandle(t, n)
  PROVE  JobsInv' /\ CountsInv' /\ AliveInv'
  <1>0. PICK j : j = IF Arcs(n) = 1 THEN DeleteJob(n) ELSE NoJob
    OBVIOUS
  <1>1. /\ job[t] = NoJob /\ job' = [job EXCEPT ![t] = j] /\ handles[n] > Lent(n)
        /\ handles' = [handles EXCEPT ![n] = handles[n] - 1]
        /\ UNCHANGED <<vars, lock, raw, of, inst, optimized>>
    BY <1>0 DEF CallDropHandle, Idle, GiveUp
  <1>2. j \in Job /\ (j.at = "waiting" /\ j.dsp = NoDsp /\ j.op \in {"none", "delete"})
    BY <1>0 DEF Job, Ops, Places, NoJob, DeleteJob
  <1>3. lock # t /\ Free(t)
    BY <1>1, IdleThread DEF NoJob
  <1>4. \A u \in Threads : job'[u] = IF u = t THEN j ELSE job[u]
    BY <1>1, BindingsFacts DEF OwnTypes
  <1>5. \A m \in Inners : handles'[m] = IF m = n THEN handles[n] - 1 ELSE handles[m]
    BY <1>1, BindingsFacts DEF OwnTypes
  <1>6. handles[n] \in Nat /\ handles[n] > 0 /\ raw[n] # NoFactory
    <2>1. Cardinality({u \in Threads : job[u].inner = n /\ job[u].op \in {"json", "instantiate"}}) \in Nat
      BY BindingsAssumption, FS_Subset, FS_CardinalityType
    <2> QED
      BY <1>1, <2>1, BindingsFacts DEF Lent, Unowned
  <1>7. \A u \in Threads : job[u].op \in {"json", "instantiate"} => handles'[job[u].inner] > 0
    <2> SUFFICES ASSUME NEW u \in Threads, job[u].op \in {"json", "instantiate"}
                 PROVE  handles'[job[u].inner] > 0
      OBVIOUS
    <2>1. job[u].inner \in Inners /\ handles[job[u].inner] > 0
      BY BindingsFacts DEF Shaped
    <2>2. job[u].inner = n => handles[n] > 1
      BY <1>1, LentCounts
    <2> QED
      BY <1>5, <1>6, <2>1, <2>2
  <1>8. j.op = "delete" => Unowned(n)' /\ j.inner = n
    <2>1. CASE Arcs(n) = 1
      <3>1. handles[n] = 1 /\ \A d \in Dsps : of[d] # n
        BY <1>6, <2>1, ArcsOne
      <3> QED
        BY <1>0, <1>1, <1>5, <2>1, <3>1 DEF Unowned, DeleteJob
    <2>2. CASE Arcs(n) # 1
      BY <1>0, <2>2 DEF NoJob
    <2> QED
      BY <2>1, <2>2
  <1>9. Moved(t, j)
    <2>1. OwnTypes'
      <3>1. handles' \in [Inners -> 0 .. MaxHandles]
        BY <1>1, <1>6, BindingsFacts DEF OwnTypes
      <3> QED
        BY <1>1, <1>2, <3>1, BindingsFacts DEF OwnTypes
    <2>2. Shaped(j)'
      BY <1>0, BindingsAssumption DEF Shaped, NoJob, DeleteJob
    <2> QED
      BY <1>1, <1>2, <1>3, <1>7, <2>1, <2>2, BindingsFacts DEF Moved, Inside, NoJob
  <1>10. Counted(t, j)
    <2>1. \A m \in Inners : Unowned(m) => m # n /\ Unowned(m)'
      BY <1>1, <1>5, <1>6 DEF Unowned
    <2>2. \A u \in Threads \ {t} : Deleting(u) => job[u].inner # n /\ Unowned(job[u].inner)'
      <3> SUFFICES ASSUME NEW u \in Threads \ {t}, Deleting(u)
                   PROVE  job[u].inner # n /\ Unowned(job[u].inner)'
        OBVIOUS
      <3>1. job[u].inner \in Inners /\ Unowned(job[u].inner) /\ job'[u] = job[u]
        BY <1>4, BindingsFacts
      <3> QED
        BY <1>1, <1>5, <2>1, <3>1 DEF Unowned
    <2>3. j.op = "delete" => Unowned(j.inner)'
      <3> QED
        BY <1>8 DEF Unowned
    <2> QED
      BY <1>1, <1>2, <1>3, <1>6, <1>8, <2>1, <2>2, <2>3, BindingsFacts DEF Counted, Free
  <1>11. Kept(t, j)
    BY <1>1, <1>2 DEF Kept, vars
  <1> QED
    BY <1>2, <1>9, <1>10, <1>11, JobMoves, CountsFrame, AliveFrame DEF BindingsInv

(* A call on a borrowed handle.                                               *)
LEMMA CallJsonStep ==
  ASSUME BindingsInv, NEW t \in Threads, NEW n \in Inners, CallJson(t, n)
  PROVE  JobsInv' /\ CountsInv' /\ AliveInv'
  <1> DEFINE j == [op |-> "json", inner |-> n, dsp |-> NoDsp, at |-> "waiting"]
  <1>1. /\ job[t] = NoJob /\ job' = [job EXCEPT ![t] = j] /\ handles[n] > 0
        /\ UNCHANGED <<vars, lock, raw, handles, of, inst, optimized>>
    BY DEF CallJson, Idle, Runs
  <1>2. j \in Job
    BY DEF Job, Ops, Places
  <1>3. lock # t /\ Free(t)
    BY <1>1, IdleThread DEF NoJob
  <1>4. \A u \in Threads : job'[u] = IF u = t THEN j ELSE job[u]
    BY <1>1, BindingsFacts DEF OwnTypes
  <1>5. Moved(t, j)
    <2>1. OwnTypes'
      BY <1>1, <1>2, BindingsFacts DEF OwnTypes
    <2>2. Shaped(j)'
      BY BindingsAssumption DEF Shaped
    <2> QED
      BY <1>1, <1>3, <2>1, <2>2, BindingsFacts DEF Moved, Inside, NoJob
  <1>6. Counted(t, j)
    BY <1>1, <1>3, <1>4, BindingsFacts DEF Counted, Free, Unowned, Deleting
  <1>7. Kept(t, j)
    BY <1>1 DEF Kept, vars
  <1> HIDE DEF j
  <1> QED
    BY <1>2, <1>5, <1>6, <1>7, JobMoves, CountsFrame, AliveFrame DEF BindingsInv

(* The Dsp of an instantiation is one no other call has.                      *)
LEMMA CallInstantiateStep ==
  ASSUME BindingsInv, NEW t \in Threads, NEW n \in Inners, NEW d \in Dsps, CallInstantiate(t, n, d)
  PROVE  JobsInv' /\ CountsInv' /\ AliveInv'
  <1> DEFINE j == [op |-> "instantiate", inner |-> n, dsp |-> d, at |-> "waiting"]
  <1>1. /\ job[t] = NoJob /\ job' = [job EXCEPT ![t] = j] /\ handles[n] > 0 /\ of[d] = NoInner
        /\ of' = [of EXCEPT ![d] = n]
        /\ UNCHANGED <<vars, lock, raw, handles, inst, optimized>>
    BY DEF CallInstantiate, Idle, Runs
  <1>2. j \in Job
    BY DEF Job, Ops, Places
  <1>3. lock # t /\ Free(t)
    BY <1>1, IdleThread DEF NoJob
  <1>4. \A u \in Threads : job'[u] = IF u = t THEN j ELSE job[u]
    BY <1>1, BindingsFacts DEF OwnTypes
  <1>5. \A c \in Dsps : of'[c] = IF c = d THEN n ELSE of[c]
    BY <1>1, BindingsFacts DEF OwnTypes
  <1>6. inst[d] = NoInstance
    BY <1>1 DEF BindingsInv, AliveInv, DspsAreAlive
  <1>7. \A u \in Threads : job[u].dsp # NoDsp => job[u].dsp \in Dsps /\ job[u].dsp # d
    BY <1>1, DspOfJob
  <1>8. Moved(t, j)
    <2>1. OwnTypes'
      BY <1>1, <1>2, BindingsFacts DEF OwnTypes
    <2>2. Shaped(j)'
      BY <1>1, <1>5, <1>6, BindingsAssumption DEF Shaped
    <2>3. \A u \in Threads : job[u].dsp # NoDsp =>
            of'[job[u].dsp] = of[job[u].dsp] /\ inst'[job[u].dsp] = inst[job[u].dsp]
      BY <1>1, <1>5, <1>7
    <2> QED
      BY <1>1, <1>3, <1>7, <2>1, <2>2, <2>3, BindingsFacts DEF Moved, Inside, NoJob
  <1>9. Counted(t, j)
    BY <1>1, <1>3, <1>4, <1>5, BindingsFacts DEF Counted, Free, Unowned
  <1>10. Kept(t, j)
    BY <1>1, <1>5, <1>6 DEF Kept, vars
  <1> HIDE DEF j
  <1> QED
    BY <1>2, <1>8, <1>9, <1>10, JobMoves, CountsFrame, AliveFrame DEF BindingsInv

(* Dsp's Drop, init and compute have the Dsp to themselves.                   *)
LEMMA CallOnDspStep ==
  ASSUME BindingsInv, NEW t \in Threads, NEW d \in Dsps,
         CallDropDsp(t, d) \/ \E op \in {"init", "compute"} : CallUnlocked(t, op, d)
  PROVE  JobsInv' /\ CountsInv' /\ AliveInv'
  <1>1. PICK j : /\ j = [op |-> j.op, inner |-> of[d], dsp |-> d, at |-> j.at]
                 /\ \/ j.op = "remove" /\ j.at = "waiting"
                    \/ j.op \in {"init", "compute"} /\ j.at = "running"
                 /\ job' = [job EXCEPT ![t] = j]
    <2>1. CASE CallDropDsp(t, d)
      <3> DEFINE k == [op |-> "remove", inner |-> of[d], dsp |-> d, at |-> "waiting"]
      <3>1. job' = [job EXCEPT ![t] = k]
        BY <2>1 DEF CallDropDsp, Runs
      <3> QED
        BY <3>1
    <2>2. ASSUME NEW op \in {"init", "compute"}, CallUnlocked(t, op, d)
          PROVE  \E j : /\ j = [op |-> j.op, inner |-> of[d], dsp |-> d, at |-> j.at]
                        /\ \/ j.op = "remove" /\ j.at = "waiting"
                           \/ j.op \in {"init", "compute"} /\ j.at = "running"
                        /\ job' = [job EXCEPT ![t] = j]
      <3> DEFINE k == [op |-> op, inner |-> of[d], dsp |-> d, at |-> "running"]
      <3>1. job' = [job EXCEPT ![t] = k]
        BY <2>2 DEF CallUnlocked, Runs
      <3> QED
        BY <3>1
    <2> QED
      BY <2>1, <2>2
  <1>2. /\ job[t] = NoJob /\ Usable(d)
        /\ UNCHANGED <<vars, lock, raw, handles, of, inst, optimized>>
    BY DEF CallDropDsp, CallUnlocked, Idle
  <1>3. of[d] \in Inners /\ of[d] # NoInner /\ inst[d] # NoInstance /\ \A u \in Threads : job[u].dsp # d
    BY <1>2, BindingsFacts DEF Usable, OwnTypes
  <1>4. j \in Job /\ j.inner = of[d] /\ j.dsp = d
    BY <1>1, <1>3 DEF Job, Ops, Places
  <1>5. lock # t /\ Free(t)
    BY <1>2, IdleThread DEF NoJob
  <1>6. \A u \in Threads : job'[u] = IF u = t THEN j ELSE job[u]
    BY <1>1, BindingsFacts DEF OwnTypes
  <1>7. Moved(t, j)
    <2>1. OwnTypes'
      BY <1>1, <1>2, <1>4, BindingsFacts DEF OwnTypes
    <2>2. Shaped(j)'
      BY <1>1, <1>2, <1>3, <1>4, BindingsAssumption DEF Shaped
    <2> QED
      BY <1>1, <1>2, <1>3, <1>4, <1>5, <2>1, <2>2, BindingsFacts DEF Moved, Inside, NoJob
  <1>8. Counted(t, j)
    BY <1>1, <1>2, <1>5, <1>6, BindingsFacts DEF Counted, Free, Unowned
  <1>9. Kept(t, j)
    BY <1>1, <1>2 DEF Kept, vars
  <1> QED
    BY <1>4, <1>7, <1>8, <1>9, JobMoves, CountsFrame, AliveFrame DEF BindingsInv

(* A running call moves on and leaves its values as they are.                 *)
LEMMA MovesTo ==
  ASSUME BindingsInv, NEW t \in Threads, NEW at \in Places, Moves(t, at)
  PROVE  job' = [job EXCEPT ![t] = [op |-> job[t].op, inner |-> job[t].inner,
                                    dsp |-> job[t].dsp, at |-> at]]
  <1>1. job' = [job EXCEPT ![t] = [job[t] EXCEPT !.at = at]]
    BY BindingsFacts DEF Moves, OwnTypes, Job
  <1>2. job[t] \in Job
    BY BindingsFacts
  <1>3. [job[t] EXCEPT !.at = at] = [op |-> job[t].op, inner |-> job[t].inner,
                                     dsp |-> job[t].dsp, at |-> at]
    BY <1>2 DEF Job
  <1> QED
    BY <1>1, <1>3

(* No two calls are about one Dsp, and one call at a time is inside the lock. *)
LEMMA CallsApart ==
  ASSUME BindingsInv, NEW t \in Threads
  PROVE  /\ \A u \in Threads \ {t} : job[u].dsp # NoDsp => job[u].dsp # job[t].dsp
         /\ \A u \in Threads : job[u].at \in Inside => u = lock
  BY BindingsFacts DEF OneCallPerDsp, LockIsHeld

(* The lock is taken when no one has it.                                      *)
LEMMA LockStep ==
  ASSUME BindingsInv, NEW t \in Threads, Lock(t)
  PROVE  JobsInv' /\ CountsInv' /\ AliveInv'
  <1>0. PICK j : j = [op |-> job[t].op, inner |-> job[t].inner, dsp |-> job[t].dsp, at |-> "locked"]
    OBVIOUS
  <1>1. /\ job[t].op # "none" /\ job[t].at = "waiting" /\ lock = NoThread /\ lock' = t
        /\ job' = [job EXCEPT ![t] = j]
        /\ UNCHANGED <<vars, raw, handles, of, inst, optimized>>
    BY <1>0, MovesTo DEF Lock, Places
  <1>2. j \in Job
    BY <1>0, BindingsFacts DEF Job, Places
  <1>3. Free(t)
    BY <1>1, IdleThread
  <1>4. \A u \in Threads : job'[u] = IF u = t THEN j ELSE job[u]
    BY <1>1, BindingsFacts DEF OwnTypes
  <1>5. Shaped(job[t]) /\ job[t] \in Job
    BY BindingsFacts
  <1>6. Moved(t, j)
    <2>1. OwnTypes'
      BY <1>1, <1>2, BindingsFacts DEF OwnTypes
    <2>2. Shaped(j)'
      BY <1>0, <1>1, <1>5 DEF Shaped, Job, Ops
    <2>3. j.op \in {"json", "instantiate"} => handles'[j.inner] > 0
      BY <1>0, <1>1, BindingsFacts
    <2>5. \A u \in Threads \ {t} : job[u].dsp # NoDsp => job[u].dsp # j.dsp
      BY <1>0, CallsApart
    <2>6. lock = IF job[t].at \in Inside THEN t ELSE lock
      BY CallsApart
    <2> QED
      BY <1>0, <1>1, <2>1, <2>2, <2>3, <2>5, <2>6, BindingsFacts DEF Moved, Inside
  <1>7. Counted(t, j)
    <2>1. j.op = "delete" => Deleting(t) /\ \A u \in Threads \ {t} : Deleting(u) => job[u].inner # j.inner
      BY <1>0, <1>1 DEF Deleting, BindingsInv, CountsInv, DeletesAreLast
    <2> QED
      BY <1>0, <1>1, <1>3, <1>4, <2>1, BindingsFacts DEF Counted, Free, Unowned
  <1>8. Kept(t, j)
    BY <1>0, <1>1 DEF Kept, vars
  <1> QED
    BY <1>2, <1>6, <1>7, <1>8, JobMoves, CountsFrame, AliveFrame DEF BindingsInv

(* A call that ends with nothing to destroy.                                  *)
LEMMA EndStep ==
  ASSUME BindingsInv, NEW t \in Threads,
         CreateFails(t) \/ Json(t) \/ Deleted(t) \/ Return(t)
  PROVE  JobsInv' /\ CountsInv' /\ AliveInv'
  <1>1. /\ job[t].op # "none" /\ (job[t].at \in Inside \/ job[t].op \in {"init", "compute"})
        /\ lock' = IF job[t].at \in Inside THEN NoThread ELSE lock
        /\ job' = [job EXCEPT ![t] = NoJob]
        /\ UNCHANGED <<vars, raw, handles, of, inst, optimized>>
    <2>1. job[t].op \in {"init", "compute"} => job[t].at = "running"
      BY BindingsFacts DEF Shaped
    <2> QED
      BY <2>1 DEF CreateFails, Json, Deleted, Return, At, Inside
  <1>2. NoJob \in Job
    BY DEF Job, Ops, Places, NoJob
  <1>3. Free(t)
    <2>1. CASE Deleted(t)
      BY <2>1 DEF Deleted
    <2>2. CASE CreateFails(t) \/ Json(t) \/ Return(t)
      <3>1. job[t].at # "building" /\ job[t].at # "dropping"
        BY <2>2, BindingsFacts DEF CreateFails, Json, Return, At, Shaped
      <3> QED
        BY <3>1 DEF BindingsInv, CountsInv, WorkIsInside, Free, At
    <2> QED
      BY <2>1, <2>2
  <1>4. \A u \in Threads : job'[u] = IF u = t THEN NoJob ELSE job[u]
    BY <1>1, BindingsFacts DEF OwnTypes
  <1>5. Moved(t, NoJob)
    <2>1. OwnTypes'
      BY <1>1, <1>2, BindingsFacts DEF OwnTypes
    <2> QED
      BY <1>1, <2>1, BindingsFacts DEF Moved, Shaped, Inside, NoJob
  <1>6. Counted(t, NoJob)
    BY <1>1, <1>3, <1>4, BindingsFacts DEF Counted, Free, Unowned, Deleting, NoJob
  <1>7. Kept(t, NoJob)
    BY <1>1 DEF Kept, vars, NoJob
  <1> QED
    BY <1>2, <1>5, <1>6, <1>7, JobMoves, CountsFrame, AliveFrame DEF BindingsInv

(* Optimising begins on a program no instance of which exists.                *)
LEMMA BeginOptimizeStep ==
  ASSUME BindingsInv, NEW t \in Threads, BeginOptimize(t)
  PROVE  JobsInv' /\ CountsInv' /\ AliveInv'
  <1>0. PICK j : j = [op |-> job[t].op, inner |-> job[t].inner, dsp |-> job[t].dsp, at |-> "optimizing"]
    OBVIOUS
  <1>1. /\ job[t].op = "instantiate" /\ job[t].at = "locked"
        /\ NeedsOptimizing(raw[job[t].inner])
        /\ job' = [job EXCEPT ![t] = j]
        /\ UNCHANGED <<vars, lock, raw, handles, of, inst, optimized>>
    BY <1>0, MovesTo DEF BeginOptimize, At, Places
  <1>2. j \in Job
    BY <1>0, BindingsFacts DEF Job, Places
  <1>3. Free(t)
    BY <1>1 DEF BindingsInv, CountsInv, WorkIsInside, Free, At
  <1>4. \A u \in Threads : job'[u] = IF u = t THEN j ELSE job[u]
    BY <1>1, BindingsFacts DEF OwnTypes
  <1>5. Shaped(job[t]) /\ job[t] \in Job
    BY BindingsFacts
  <1>6. Moved(t, j)
    <2>1. OwnTypes'
      BY <1>1, <1>2, BindingsFacts DEF OwnTypes
    <2>2. Shaped(j)'
      BY <1>0, <1>1, <1>5 DEF Shaped
    <2>3. j.op \in {"json", "instantiate"} => handles'[j.inner] > 0
      BY <1>0, <1>1, BindingsFacts
    <2>5. \A u \in Threads \ {t} : job[u].dsp # NoDsp => job[u].dsp # j.dsp
      BY <1>0, CallsApart
    <2>6. lock = IF job[t].at \in Inside THEN t ELSE lock
      BY CallsApart
    <2> QED
      BY <1>0, <1>1, <2>1, <2>2, <2>3, <2>5, <2>6, BindingsFacts DEF Moved, Inside
  <1>7. Counted(t, j)
    <2>1. \A n : Unowned(n)' = Unowned(n)
      BY ONLY <1>1, Zenon DEF Unowned
    <2>2. \A n \in Inners : raw[n] = NoFactory => Unowned(n)'
      BY <2>1, BindingsFacts
    <2>3. ASSUME NEW u \in Threads \ {t}, Deleting(u) PROVE Unowned(job[u].inner)'
      <3>1. Unowned(job[u].inner)
        BY <2>3, BindingsFacts
      <3>2. job'[u].inner = job[u].inner
        BY <1>4
      <3> QED
        BY ONLY <2>1, <3>1, <3>2
    <2>4. j.op # "delete" /\ creating[t] = NoFactory /\ dropF[t] \cup dropI[t] = {}
      BY <1>0, <1>1, <1>3 DEF Free
    <2> QED
      BY <1>1, <2>2, <2>3, <2>4 DEF Counted
  <1>8. Kept(t, j)
    BY <1>0, <1>1 DEF Kept, vars
  <1> QED
    BY <1>2, <1>6, <1>7, <1>8, JobMoves, CountsFrame, AliveFrame DEF BindingsInv

(* Only the holder of the lock is at a place inside it, so no one else sees   *)
(* the program change.                                                        *)
LEMMA EndOptimizeStep ==
  ASSUME BindingsInv, NEW t \in Threads, EndOptimize(t)
  PROVE  JobsInv' /\ CountsInv' /\ AliveInv'
  <1>0. PICK j : j = [op |-> job[t].op, inner |-> job[t].inner, dsp |-> job[t].dsp, at |-> "locked"]
    OBVIOUS
  <1>1. /\ job[t].op = "instantiate" /\ job[t].at = "optimizing"
        /\ job' = [job EXCEPT ![t] = j]
        /\ optimized' = optimized \cup {raw[job[t].inner]}
        /\ UNCHANGED <<vars, lock, raw, handles, of, inst>>
    BY <1>0, MovesTo DEF EndOptimize, At, Places
  <1>2. j \in Job
    BY <1>0, BindingsFacts DEF Job, Places
  <1>3. Free(t)
    BY <1>1 DEF BindingsInv, CountsInv, WorkIsInside, Free, At
  <1>4. \A u \in Threads : job'[u] = IF u = t THEN j ELSE job[u]
    BY <1>1, BindingsFacts DEF OwnTypes
  <1>5. Shaped(job[t]) /\ job[t] \in Job
    BY BindingsFacts
  <1>6. Moved(t, j)
    <2>1. job[t].inner \in Inners /\ raw[job[t].inner] \in Factories
      BY <1>1, <1>5, BindingsFacts DEF Shaped, OwnTypes, Unowned
    <2>2. OwnTypes'
      BY <1>1, <1>2, <2>1, BindingsFacts DEF OwnTypes
    <2>3. Shaped(j)'
      BY <1>0, <1>1, <1>5 DEF Shaped
    <2>4. j.op \in {"json", "instantiate"} => handles'[j.inner] > 0
      BY <1>0, <1>1, BindingsFacts
    <2>5. \A u \in Threads \ {t} : job[u].dsp # NoDsp => job[u].dsp # j.dsp
      BY <1>0, CallsApart
    <2>6. lock = IF job[t].at \in Inside THEN t ELSE lock
      BY CallsApart
    <2> QED
      BY <1>0, <1>1, <2>2, <2>3, <2>4, <2>5, <2>6, BindingsFacts DEF Moved, Inside
  <1>7. Counted(t, j)
    <2>1. \A n : Unowned(n)' = Unowned(n)
      BY ONLY <1>1, Zenon DEF Unowned
    <2>2. \A n \in Inners : raw[n] = NoFactory => Unowned(n)'
      BY <2>1, BindingsFacts
    <2>3. ASSUME NEW u \in Threads \ {t}, Deleting(u) PROVE Unowned(job[u].inner)'
      <3>1. Unowned(job[u].inner)
        BY <2>3, BindingsFacts
      <3>2. job'[u].inner = job[u].inner
        BY <1>4
      <3> QED
        BY ONLY <2>1, <3>1, <3>2
    <2>4. j.op # "delete" /\ creating[t] = NoFactory /\ dropF[t] \cup dropI[t] = {}
      BY <1>0, <1>1, <1>3 DEF Free
    <2> QED
      BY <1>1, <2>2, <2>3, <2>4 DEF Counted
  <1>8. AliveInv'
    <2>1. \A f : NeedsOptimizing(f)' => NeedsOptimizing(f)
      BY <1>1 DEF NeedsOptimizing, Names, Cached, vars
    <2>2. Keys' = Keys
      BY <1>1 DEF Keys, Cached, vars
    <2>3. DspsAreAlive'
      BY <1>1, <2>2 DEF BindingsInv, AliveInv, DspsAreAlive, vars
    <2>4. \A u \in Threads : job'[u].at # "optimizing"
      <3>1. \A u \in Threads : job[u].at \in Inside => u = lock
        BY BindingsFacts DEF LockIsHeld
      <3>2. j.at = "locked" /\ "optimizing" \in Inside
        BY <1>0 DEF Inside
      <3> QED
        BY <1>1, <1>4, <3>1, <3>2
    <2>5. UsedIsOptimized'
      BY <1>0, <1>1, <1>4, <2>1, <2>4 DEF BindingsInv, AliveInv, UsedIsOptimized, At
    <2> QED
      BY <2>3, <2>5 DEF AliveInv
  <1> QED
    BY <1>2, <1>6, <1>7, <1>8, JobMoves, CountsFrame DEF BindingsInv

(* The Arc a Dsp gives up, after its removal or a refused instantiation: if   *)
(* it was the last one no handle and no Dsp is left.                          *)
LEMMA GiveUpStep ==
  ASSUME BindingsInv, NEW t \in Threads, Refused(t) \/ Removed(t)
  PROVE  JobsInv' /\ CountsInv' /\ AliveInv'
  <1>0. PICK n, d : n = job[t].inner /\ d = job[t].dsp
    OBVIOUS
  <1>a. PICK j : j = IF Arcs(n) = 1 THEN DeleteJob(n) ELSE NoJob
    OBVIOUS
  <1>1. /\ \/ job[t].op = "instantiate" /\ job[t].at = "locked"
           \/ job[t].op = "remove" /\ job[t].at = "dropping"
        /\ of' = [of EXCEPT ![d] = NoInner]
        /\ job' = [job EXCEPT ![t] = j]
        /\ lock' = NoThread
        /\ UNCHANGED <<vars, raw, handles, inst, optimized>>
    BY <1>0, <1>a DEF Refused, Removed, At, GiveUp
  <1>2. j \in Job /\ j.at = "waiting" /\ j.dsp = NoDsp /\ j.op \in {"none", "delete"}
    <2>1. n \in Inners \cup {NoInner}
      BY <1>0, BindingsFacts DEF Job
    <2> QED
      BY <1>a, <2>1 DEF Job, Ops, Places, NoJob, DeleteJob
  <1>3. Free(t)
    BY <1>1 DEF Refused, Removed, BindingsInv, CountsInv, WorkIsInside, Free, At
  <1>4. \A u \in Threads : job'[u] = IF u = t THEN j ELSE job[u]
    BY <1>1, BindingsFacts DEF OwnTypes
  <1>5. /\ n \in Inners /\ n # NoInner /\ d \in Dsps /\ d # NoDsp /\ of[d] = n
        /\ inst[d] = NoInstance
    <2>1. Shaped(job[t]) /\ job[t] \in Job
      BY BindingsFacts
    <2> QED
      BY <1>0, <1>1, <2>1 DEF Shaped, Job
  <1>6. \A c \in Dsps : of'[c] = IF c = d THEN NoInner ELSE of[c]
    BY <1>1, BindingsFacts DEF OwnTypes
  <1>7. \A u \in Threads \ {t} : job[u].dsp # NoDsp => job[u].dsp \in Dsps /\ job[u].dsp # d
    BY <1>0, CallsApart, DspOfJob
  <1>8. /\ \A m \in Inners : Unowned(m) => Unowned(m)' /\ m # n
        /\ j.op = "delete" => Unowned(n)' /\ j.inner = n
    <2>1. \A m \in Inners : Unowned(m) => Unowned(m)' /\ m # n
      BY <1>1, <1>5, <1>6, BindingsAssumption DEF Unowned
    <2>2. CASE Arcs(n) = 1
      <3>1. handles[n] = 0 /\ \A c \in Dsps : of[c] = n => c = d
        BY <1>5, <2>2, ArcsOne
      <3>2. Unowned(n)'
        BY <1>1, <1>5, <1>6, <3>1 DEF Unowned
      <3> QED
        BY <1>a, <2>1, <2>2, <3>2 DEF DeleteJob
    <2>3. CASE Arcs(n) # 1
      BY <1>a, <2>1, <2>3 DEF NoJob
    <2> QED
      BY <2>2, <2>3
  <1>9. Moved(t, j)
    <2>1. OwnTypes'
      BY <1>1, <1>2, BindingsFacts DEF OwnTypes
    <2>2. Shaped(j)'
      BY <1>a, <1>5 DEF Shaped, NoJob, DeleteJob
    <2>3. \A u \in Threads \ {t} : job[u].dsp # NoDsp =>
            of'[job[u].dsp] = of[job[u].dsp] /\ inst'[job[u].dsp] = inst[job[u].dsp]
      BY <1>1, <1>6, <1>7
    <2> QED
      BY <1>1, <1>2, <2>1, <2>2, <2>3, BindingsFacts DEF Moved, Inside
  <1>10. Counted(t, j)
    <2>1. \A m \in Inners : raw[m] = NoFactory => Unowned(m)' /\ m # n
      BY <1>8, BindingsFacts
    <2>2. \A u \in Threads \ {t} : Deleting(u) => job[u].inner # n /\ Unowned(job[u].inner)'
      <3> SUFFICES ASSUME NEW u \in Threads \ {t}, Deleting(u)
                   PROVE  job[u].inner # n /\ Unowned(job[u].inner)'
        OBVIOUS
      <3>1. job[u].inner \in Inners /\ Unowned(job[u].inner) /\ job'[u] = job[u]
        BY <1>4, BindingsFacts
      <3> QED
        BY <1>8, <3>1 DEF Unowned
    <2>3. j.op = "delete" => Unowned(j.inner)' /\ j.inner = n
      BY <1>8 DEF Unowned
    <2> QED
      BY <1>1, <1>2, <1>3, <1>5, <2>1, <2>2, <2>3 DEF Counted, Free
  <1>11. Kept(t, j)
    BY <1>1, <1>2, <1>5, <1>6 DEF Kept, vars
  <1> QED
    BY <1>2, <1>9, <1>10, <1>11, JobMoves, CountsFrame, AliveFrame DEF BindingsInv

-----------------------------------------------------------------------------
(* The lock holder's step on the cache: the other threads are free.           *)
Recounted(t, j) ==
    /\ job' = [job EXCEPT ![t] = j]
    /\ job[t].at \in Inside
    /\ \A u \in Threads \ {t} : /\ creating'[u] = creating[u]
                               /\ dropF'[u] = dropF[u] /\ dropI'[u] = dropI[u]
    /\ creating'[t] # NoFactory =>
          j.op = "instantiate" /\ j.at = "building" /\ creating'[t] = raw'[j.inner]
    /\ dropF'[t] \cup dropI'[t] # {} => j.at = "dropping"
    /\ \A n \in Inners : raw'[n] = NoFactory => Unowned(n)'
    /\ \A u \in Threads \ {t} : Deleting(u) => raw'[job[u].inner] # NoFactory /\ Unowned(job[u].inner)'
    /\ j.op = "delete" /\ j.at # "dropping" =>
          /\ raw'[j.inner] # NoFactory /\ Unowned(j.inner)'
          /\ \A u \in Threads \ {t} : Deleting(u) => job[u].inner # j.inner
    /\ ReferencesAreInners' /\ disciplined'

(* While a call is inside the lock, other threads do nothing in the cache.    *)
LEMMA OthersAreFree ==
  ASSUME BindingsInv, NEW t \in Threads, job[t].at \in Inside, NEW u \in Threads \ {t}
  PROVE  Free(u) /\ job[u].at \notin Inside /\ job[u].at # "building" /\ job[u].at # "optimizing"
  <1>1. job[u].at \notin Inside
    BY DEF BindingsInv, JobsInv, LockIsHeld
  <1>2. job[u].at # "building" /\ job[u].at # "optimizing" /\ job[u].at # "dropping"
    BY <1>1 DEF Inside
  <1> QED
    BY <1>1, <1>2 DEF BindingsInv, CountsInv, WorkIsInside, Free, At

(* So what is counted before and after it is all that changes.                *)
LEMMA CountsMove ==
  ASSUME BindingsInv, NEW t \in Threads, NEW j \in Job, Recounted(t, j)
  PROVE  CountsInv'
  <1> USE DEF Recounted
  <1>1. \A u \in Threads : job'[u] = IF u = t THEN j ELSE job[u]
    BY DEF BindingsInv, JobsInv, OwnTypes
  <1>2. \A u \in Threads \ {t} : creating[u] = NoFactory /\ dropF[u] = {} /\ dropI[u] = {}
    BY OthersAreFree DEF Free
  <1>3. WorkIsInside'
    BY <1>1, <1>2 DEF WorkIsInside, At
  <1>4. DeletesAreLast'
    <2> SUFFICES ASSUME NEW u \in Threads, Deleting(u)'
                 PROVE  /\ raw'[job'[u].inner] # NoFactory /\ Unowned(job[u].inner)'
                        /\ \A w \in Threads : Deleting(w)' /\ job'[w].inner = job'[u].inner => w = u
      BY DEF DeletesAreLast, Unowned
    <2>1. CASE u = t
      BY <1>1, <2>1 DEF Deleting, Unowned
    <2>2. CASE u # t
      BY <1>1, <2>2 DEF Deleting, DeletesAreLast, Unowned, BindingsInv, CountsInv
    <2> QED
      BY <2>1, <2>2
  <1>5. VoidIsUnowned'
    BY DEF VoidIsUnowned
  <1> QED
    BY <1>3, <1>4, <1>5 DEF CountsInv

(* Destroying an object changes nothing a call or a Dsp names.                *)
LEMMA DropObjectStep ==
  ASSUME BindingsInv, NEW t \in Threads, DropObject(t)
  PROVE  JobsInv' /\ CountsInv' /\ AliveInv'
  <1>1. /\ UNCHANGED ownVars /\ UNCHANGED <<cache, creating, held, disciplined>>
        /\ \A u \in Threads : dropF'[u] \subseteq dropF[u] /\ dropI'[u] \subseteq dropI[u]
    <2>1. dropF \in [Threads -> SUBSET Factories] /\ dropI \in [Threads -> SUBSET Instances]
      BY DEF BindingsInv, Inv, TypeOK
    <2> QED
      BY <2>1 DEF DropObject, DropInstance, DropFactory
  <1>2. JobsInv'
    BY <1>1 DEF BindingsInv, JobsInv, ownVars, OwnTypes, JobsAreShaped, Shaped, LockIsHeld,
                OneCallPerDsp, LentHandlesStay
  <1>3. WorkIsInside'
    BY <1>1 DEF BindingsInv, CountsInv, ownVars, WorkIsInside, At
  <1>4. CountsInv'
    BY <1>1, <1>3 DEF BindingsInv, CountsInv, ownVars, VoidIsUnowned, Unowned, DeletesAreLast,
                      Deleting, ReferencesAreInners
  <1>5. AliveInv'
    BY <1>1 DEF BindingsInv, AliveInv, ownVars, DspsAreAlive, UsedIsOptimized, NeedsOptimizing,
                Names, Keys, Cached, At
  <1> QED
    BY <1>2, <1>4, <1>5

(* An instance is built for a factory that needs no optimising any more.      *)
LEMMA BuildStep ==
  ASSUME BindingsInv, NEW t \in Threads, Build(t)
  PROVE  JobsInv' /\ CountsInv' /\ AliveInv'
  <1>0. PICK j : j = [op |-> job[t].op, inner |-> job[t].inner, dsp |-> job[t].dsp, at |-> "building"]
    OBVIOUS
  <1>1. /\ job[t].op = "instantiate" /\ job[t].at = "locked"
        /\ ~ NeedsOptimizing(raw[job[t].inner])
        /\ job' = [job EXCEPT ![t] = j]
        /\ creating' = [creating EXCEPT ![t] = raw[job[t].inner]]
        /\ UNCHANGED <<lock, raw, handles, of, inst, optimized>>
        /\ UNCHANGED <<cache, dropF, dropI, held, disciplined>>
    BY <1>0, MovesTo DEF Build, At, Places, BeginInstance
  <1>2. j \in Job
    BY <1>0, BindingsFacts DEF Job, Places
  <1>3. job[t].at \in Inside /\ Free(t)
    BY <1>1 DEF BindingsInv, CountsInv, WorkIsInside, Free, At, Inside
  <1>4. \A u \in Threads : job'[u] = IF u = t THEN j ELSE job[u]
    BY <1>1, BindingsFacts DEF OwnTypes
  <1>5. Shaped(job[t]) /\ job[t] \in Job
    BY BindingsFacts
  <1>6. Moved(t, j)
    <2>1. OwnTypes'
      BY <1>1, <1>2, BindingsFacts DEF OwnTypes
    <2>2. Shaped(j)'
      BY <1>0, <1>1, <1>5 DEF Shaped
    <2>3. j.op \in {"json", "instantiate"} => handles'[j.inner] > 0
      BY <1>0, <1>1, BindingsFacts
    <2>4. \A u \in Threads \ {t} : job[u].dsp # NoDsp => job[u].dsp # j.dsp
      BY <1>0, BindingsFacts DEF OneCallPerDsp
    <2>5. lock = t
      BY <1>3, BindingsFacts DEF LockIsHeld
    <2> QED
      BY <1>0, <1>1, <2>1, <2>2, <2>3, <2>4, <2>5, BindingsFacts DEF Moved, Inside
  <1>7. Recounted(t, j)
    <2>1. creating \in [Threads -> Factories \cup {NoFactory}]
      BY DEF BindingsInv, Inv, TypeOK
    <2>2. ReferencesAreInners' /\ disciplined'
      BY <1>1 DEF BindingsInv, CountsInv, ReferencesAreInners
    <2>3. /\ creating'[t] = raw'[j.inner] /\ j.op = "instantiate" /\ j.at = "building"
          /\ dropF'[t] \cup dropI'[t] = {}
          /\ \A u \in Threads \ {t} : /\ creating'[u] = creating[u]
                                     /\ dropF'[u] = dropF[u] /\ dropI'[u] = dropI[u]
      BY <1>0, <1>1, <1>3, <2>1 DEF Free
    <2>4. /\ \A n \in Inners : raw'[n] = NoFactory => Unowned(n)'
          /\ \A u \in Threads \ {t} :
                Deleting(u) => raw'[job[u].inner] # NoFactory /\ Unowned(job[u].inner)'
      BY <1>1, BindingsFacts DEF Unowned
    <2> QED
      BY <1>1, <1>3, <2>2, <2>3, <2>4 DEF Recounted
  <1>8. Kept(t, j)
    BY <1>0, <1>1 DEF Kept
  <1> QED
    BY <1>2, <1>6, <1>7, <1>8, JobMoves, CountsMove, AliveFrame DEF BindingsInv

(* The instance is at a fresh address, so no other Dsp has it.                *)
LEMMA RegisteredStep ==
  ASSUME BindingsInv, NEW t \in Threads, NEW s \in Shas, NEW i \in Instances, Registered(t, s, i)
  PROVE  JobsInv' /\ CountsInv' /\ AliveInv'
  <1>0. PICK n, d : n = job[t].inner /\ d = job[t].dsp
    OBVIOUS
  <1>a. PICK j : j = [op |-> "init", inner |-> n, dsp |-> d, at |-> "running"]
    OBVIOUS
  <1>1. /\ job[t].op = "instantiate" /\ job[t].at = "building" /\ Register(t, s, i)
        /\ job' = [job EXCEPT ![t] = j]
        /\ inst' = [inst EXCEPT ![d] = i]
        /\ lock' = NoThread
        /\ UNCHANGED <<raw, handles, of, optimized>>
    BY <1>0, <1>a DEF Registered, At, Runs
  <1>b. /\ creating[t] = raw[n] /\ raw[n] # NoFactory /\ cache[s].factory = raw[n] /\ Cached(s)
        /\ i \notin heapI /\ dropF[t] = {} /\ dropI[t] = {}
        /\ creating' = [creating EXCEPT ![t] = NoFactory]
        /\ UNCHANGED <<dropF, dropI, held, disciplined>>
    BY <1>0, <1>1 DEF Register, BindingsInv, CountsInv, WorkIsInside
  <1>2. /\ n \in Inners /\ n # NoInner /\ d \in Dsps /\ d # NoDsp /\ of[d] = n
    <2>1. Shaped(job[t]) /\ job[t] \in Job
      BY BindingsFacts
    <2> QED
      BY <1>0, <1>1, <2>1 DEF Shaped, Job
  <1>3. j \in Job
    BY <1>a, <1>2 DEF Job, Ops, Places
  <1>4. \A u \in Threads : job'[u] = IF u = t THEN j ELSE job[u]
    BY <1>1, BindingsFacts DEF OwnTypes
  <1>5. \A c \in Dsps : inst'[c] = IF c = d THEN i ELSE inst[c]
    BY <1>1, BindingsFacts DEF OwnTypes
  <1>6. \A u \in Threads \ {t} : job[u].dsp # NoDsp => job[u].dsp \in Dsps /\ job[u].dsp # d
    BY <1>0, BindingsFacts, DspOfJob DEF OneCallPerDsp
  <1>7. job[t].at \in Inside
    BY <1>1 DEF Inside
  <1>8. Moved(t, j)
    <2>1. OwnTypes'
      BY <1>1, <1>3, BindingsFacts DEF OwnTypes
    <2>2. Shaped(j)'
      BY <1>a, <1>1, <1>2, <1>5, BindingsAssumption DEF Shaped
    <2>3. \A u \in Threads \ {t} : job[u].dsp # NoDsp =>
            of'[job[u].dsp] = of[job[u].dsp] /\ inst'[job[u].dsp] = inst[job[u].dsp]
      BY <1>1, <1>5, <1>6
    <2> QED
      BY <1>a, <1>1, <1>6, <2>1, <2>2, <2>3, BindingsFacts DEF Moved, Inside
  <1>9. Recounted(t, j)
    <2>1. creating'[t] = NoFactory /\ \A u \in Threads \ {t} : creating'[u] = creating[u]
      BY <1>b DEF BindingsInv, Inv, TypeOK
    <2>2. ReferencesAreInners' /\ disciplined'
      BY <1>1, <1>b DEF BindingsInv, CountsInv, ReferencesAreInners
    <2> QED
      BY <1>a, <1>1, <1>b, <1>7, <2>1, <2>2, BindingsFacts DEF Recounted, Unowned
  <1>10. /\ Keys' = Keys /\ s \in Keys /\ Keys \subseteq Shas
         /\ \A k \in Shas : Cached(k)' = Cached(k) /\ cache'[k].factory = cache[k].factory
         /\ \A k \in Keys : cache[k].instances \subseteq cache'[k].instances
         /\ i \in cache'[s].instances
    <2>1. /\ \A r \in Shas : r # s => cache'[r] = cache[r]
          /\ cache'[s].factory = cache[s].factory
          /\ cache'[s].refs = cache[s].refs
          /\ cache'[s].instances = cache[s].instances \cup {i}
      BY <1>1 DEF Register, BindingsInv, Inv, TypeOK, Entry
    <2> QED
      BY <1>b, <2>1 DEF Keys, Cached
  <1>11. \A c \in Dsps : inst[c] # i
    <2>1. \A k \in Keys : i \notin cache[k].instances
      BY <1>b DEF BindingsInv, Inv, OneOwner, HeapIsOwned
    <2> QED
      BY <2>1, BindingsAssumption DEF BindingsInv, AliveInv, DspsAreAlive
  <1>12. DspsAreAlive'
    <2> SUFFICES ASSUME NEW c \in Dsps, inst'[c] # NoInstance
                 PROVE  /\ of[c] # NoInner
                        /\ \E k \in Keys : cache'[k].factory = raw[of[c]] /\ inst'[c] \in cache'[k].instances
                        /\ \A e \in Dsps : inst'[e] = inst'[c] => e = c
      BY <1>1, <1>10 DEF DspsAreAlive
    <2>1. CASE c = d
      BY <1>b, <1>2, <1>5, <1>10, <1>11, <2>1
    <2>2. CASE c # d
      <3>1. inst'[c] = inst[c]
        BY <1>5, <2>2
      <3>2. PICK k \in Keys : cache[k].factory = raw[of[c]] /\ inst[c] \in cache[k].instances
        BY <3>1 DEF BindingsInv, AliveInv, DspsAreAlive
      <3>3. cache'[k].factory = raw[of[c]] /\ inst'[c] \in cache'[k].instances
        BY <1>10, <3>1, <3>2
      <3>4. of[c] # NoInner /\ \A e \in Dsps : inst[e] = inst[c] => e = c
        BY <3>1 DEF BindingsInv, AliveInv, DspsAreAlive
      <3>5. \A e \in Dsps : inst'[e] = inst'[c] => e = c
        BY <1>5, <1>11, <3>1, <3>4
      <3> QED
        BY <3>2, <3>3, <3>4, <3>5
    <2> QED
      BY <2>1, <2>2
  <1>13. UsedIsOptimized'
    <2>1. \A f : NeedsOptimizing(f)' <=> NeedsOptimizing(f)
      BY <1>1, <1>10, BindingsAssumption DEF NeedsOptimizing, Names
    <2>2. ~ NeedsOptimizing(raw[n])
      BY <1>0, <1>1 DEF BindingsInv, AliveInv, UsedIsOptimized, At
    <2>3. \A c \in Dsps : inst'[c] # NoInstance => ~ NeedsOptimizing(raw[of[c]])
      BY <1>2, <1>5, <2>2 DEF BindingsInv, AliveInv, UsedIsOptimized
    <2>4. \A c \in Dsps : inst'[c] # NoInstance => ~ NeedsOptimizing(raw[of[c]])'
      BY <1>1, <2>1, <2>3
    <2>5. \A u \in Threads : job'[u].at # "optimizing" /\ job'[u].at # "building"
      BY <1>a, <1>4, <1>7, OthersAreFree
    <2> QED
      BY <2>4, <2>5 DEF UsedIsOptimized, At
  <1> QED
    BY <1>3, <1>8, <1>9, <1>12, <1>13, JobMoves, CountsMove DEF AliveInv, BindingsInv

(* The instance a Dsp's Drop removes is that of no other Dsp.                 *)
LEMMA RemoveStep ==
  ASSUME BindingsInv, NEW t \in Threads, Remove(t)
  PROVE  JobsInv' /\ CountsInv' /\ AliveInv'
  <1>0. PICK n, d : n = job[t].inner /\ d = job[t].dsp
    OBVIOUS
  <1>a. PICK j : j = [op |-> job[t].op, inner |-> n, dsp |-> d, at |-> "dropping"]
    OBVIOUS
  <1>1. /\ job[t].op = "remove" /\ job[t].at = "locked"
        /\ \E s \in Shas : RemoveInstance(t, s, inst[d])
        /\ job' = [job EXCEPT ![t] = j]
        /\ inst' = [inst EXCEPT ![d] = NoInstance]
        /\ UNCHANGED <<lock, raw, handles, of, optimized>>
    BY <1>0, <1>a, MovesTo DEF Remove, At, Places
  <1>b. PICK s \in Shas : RemoveInstance(t, s, inst[d])
    BY <1>1
  <1>c. /\ \A u \in Threads \ {t} : dropI'[u] = dropI[u]
        /\ UNCHANGED <<dropF, creating, held, disciplined>>
    BY <1>b DEF RemoveInstance, BindingsInv, Inv, TypeOK
  <1>2. /\ n \in Inners /\ n # NoInner /\ d \in Dsps /\ d # NoDsp /\ of[d] = n
    <2>1. Shaped(job[t]) /\ job[t] \in Job
      BY BindingsFacts
    <2> QED
      BY <1>0, <1>1, <2>1 DEF Shaped, Job
  <1>3. j \in Job
    BY <1>a, <1>1, <1>2 DEF Job, Ops, Places
  <1>4. \A u \in Threads : job'[u] = IF u = t THEN j ELSE job[u]
    BY <1>1, BindingsFacts DEF OwnTypes
  <1>5. \A c \in Dsps : inst'[c] = IF c = d THEN NoInstance ELSE inst[c]
    BY <1>1, BindingsFacts DEF OwnTypes
  <1>6. \A u \in Threads \ {t} : job[u].dsp # NoDsp => job[u].dsp \in Dsps /\ job[u].dsp # d
    BY <1>0, BindingsFacts, DspOfJob DEF OneCallPerDsp
  <1>7. job[t].at \in Inside /\ lock = t
    BY <1>1, BindingsFacts DEF Inside, LockIsHeld
  <1>8. Moved(t, j)
    <2>1. OwnTypes'
      BY <1>1, <1>3, BindingsFacts DEF OwnTypes
    <2>2. Shaped(j)'
      BY <1>a, <1>1, <1>2, <1>5 DEF Shaped
    <2>3. \A u \in Threads \ {t} : job[u].dsp # NoDsp =>
            of'[job[u].dsp] = of[job[u].dsp] /\ inst'[job[u].dsp] = inst[job[u].dsp]
      BY <1>1, <1>5, <1>6
    <2> QED
      BY <1>a, <1>1, <1>6, <1>7, <2>1, <2>2, <2>3, BindingsFacts DEF Moved, Inside
  <1>9. Recounted(t, j)
    <2>1. creating[t] = NoFactory
      BY <1>1 DEF BindingsInv, CountsInv, WorkIsInside, At
    <2>2. ReferencesAreInners' /\ disciplined'
      BY <1>1, <1>c DEF BindingsInv, CountsInv, ReferencesAreInners
    <2>3. dropF[t] = {} /\ creating'[t] = NoFactory /\ j.op = "remove" /\ j.at = "dropping"
      BY <1>a, <1>1, <1>c, <2>1 DEF BindingsInv, CountsInv, WorkIsInside
    <2>4. /\ \A m \in Inners : raw'[m] = NoFactory => Unowned(m)'
          /\ \A u \in Threads \ {t} :
                Deleting(u) => raw'[job[u].inner] # NoFactory /\ Unowned(job[u].inner)'
      BY <1>1, BindingsFacts DEF Unowned
    <2> QED
      BY <1>1, <1>c, <1>7, <2>2, <2>3, <2>4 DEF Recounted
  <1>10. /\ Keys' = Keys /\ s \in Keys /\ Keys \subseteq Shas
         /\ \A k \in Shas : Cached(k)' = Cached(k) /\ cache'[k].factory = cache[k].factory
         /\ \A k \in Keys : cache[k].instances \ {inst[d]} \subseteq cache'[k].instances
    <2>1. /\ \A r \in Shas : r # s => cache'[r] = cache[r]
          /\ cache'[s].factory = cache[s].factory
          /\ cache'[s].refs = cache[s].refs
          /\ cache'[s].instances = cache[s].instances \ {inst[d]}
      BY <1>b DEF RemoveInstance, BindingsInv, Inv, TypeOK, Entry
    <2> QED
      BY <1>b, <2>1 DEF Keys, Cached, RemoveInstance
  <1>11. DspsAreAlive'
    <2> SUFFICES ASSUME NEW c \in Dsps, inst'[c] # NoInstance
                 PROVE  /\ of[c] # NoInner
                        /\ \E k \in Keys : cache'[k].factory = raw[of[c]] /\ inst'[c] \in cache'[k].instances
                        /\ \A e \in Dsps : inst'[e] = inst'[c] => e = c
      BY <1>1, <1>10 DEF DspsAreAlive
    <2>1. c # d /\ inst'[c] = inst[c]
      BY <1>5
    <2>2. PICK k \in Keys : cache[k].factory = raw[of[c]] /\ inst[c] \in cache[k].instances
      BY <2>1 DEF BindingsInv, AliveInv, DspsAreAlive
    <2>3. of[c] # NoInner /\ \A e \in Dsps : inst[e] = inst[c] => e = c
      BY <2>1 DEF BindingsInv, AliveInv, DspsAreAlive
    <2>4. inst[c] # inst[d]
      BY <1>2, <2>1, <2>3
    <2>5. cache'[k].factory = raw[of[c]] /\ inst'[c] \in cache'[k].instances
      BY <1>10, <2>1, <2>2, <2>4
    <2>6. \A e \in Dsps : inst'[e] = inst'[c] => e = c
      BY <1>5, <2>1, <2>3
    <2> QED
      BY <2>2, <2>3, <2>5, <2>6
  <1>12. UsedIsOptimized'
    <2>1. \A f : NeedsOptimizing(f)' <=> NeedsOptimizing(f)
      BY <1>1, <1>10, BindingsAssumption DEF NeedsOptimizing, Names
    <2>2. \A c \in Dsps : inst'[c] # NoInstance => ~ NeedsOptimizing(raw[of[c]])
      BY <1>2, <1>5 DEF BindingsInv, AliveInv, UsedIsOptimized
    <2>3. \A c \in Dsps : inst'[c] # NoInstance => ~ NeedsOptimizing(raw[of[c]])'
      BY <1>1, <2>1, <2>2
    <2>4. \A u \in Threads : job'[u].at # "optimizing" /\ job'[u].at # "building"
      BY <1>a, <1>4, <1>7, OthersAreFree
    <2> QED
      BY <2>3, <2>4 DEF UsedIsOptimized, At
  <1> QED
    BY <1>3, <1>8, <1>9, <1>11, <1>12, JobMoves, CountsMove DEF AliveInv, BindingsInv

(* The reference deleted is the inner's own: with others outstanding the      *)
(* entry stays, and with none no Dsp is left under it.                        *)
LEMMA DeleteStep ==
  ASSUME BindingsInv, NEW t \in Threads, Delete(t)
  PROVE  JobsInv' /\ CountsInv' /\ AliveInv'
  <1>0. PICK n : n = job[t].inner
    OBVIOUS
  <1>a. PICK j : j = [op |-> job[t].op, inner |-> n, dsp |-> job[t].dsp, at |-> "dropping"]
    OBVIOUS
  <1>1. /\ job[t].op = "delete" /\ job[t].at = "locked"
        /\ \E s \in Shas : Names(s, raw[n]) /\ (ReleaseRetained(t, s) \/ ReleaseLast(t, s))
        /\ job' = [job EXCEPT ![t] = j]
        /\ raw' = [raw EXCEPT ![n] = NoFactory]
        /\ UNCHANGED <<lock, handles, of, inst, optimized>>
    BY <1>0, <1>a, MovesTo DEF Delete, At, Places
  <1>2. PICK s \in Shas : Names(s, raw[n]) /\ (ReleaseRetained(t, s) \/ ReleaseLast(t, s))
    BY <1>1
  <1>3. PICK f : f = raw[n]
    OBVIOUS
  <1>4. n \in Inners /\ f \in Factories /\ Unowned(n) /\ Deleting(t)
    <2>1. Deleting(t)
      BY <1>1 DEF Deleting
    <2> QED
      BY <1>0, <1>3, <2>1, BindingsFacts DEF OwnTypes
  <1>5. j \in Job
    BY <1>0, <1>a, BindingsFacts DEF Job, Places
  <1>6. \A u \in Threads : job'[u] = IF u = t THEN j ELSE job[u]
    BY <1>1, BindingsFacts DEF OwnTypes
  <1>7. \A m \in Inners : raw'[m] = IF m = n THEN NoFactory ELSE raw[m]
    BY <1>1, BindingsFacts DEF OwnTypes
  <1>8. job[t].at \in Inside /\ lock = t /\ Shaped(job[t])
    BY <1>1, BindingsFacts DEF Inside, LockIsHeld
  <1>9. Moved(t, j)
    <2>1. OwnTypes'
      BY <1>1, <1>5, BindingsFacts DEF OwnTypes
    <2>2. Shaped(j)'
      BY <1>0, <1>a, <1>1, <1>8 DEF Shaped
    <2> QED
      BY <1>0, <1>a, <1>1, <1>8, <2>1, <2>2, BindingsFacts, CallsApart DEF Moved, Inside, Shaped
  <1>10. cache[s].factory = f /\ Cached(s) /\ s \in Keys /\ Keys \subseteq Shas
    BY <1>2, <1>3 DEF Names, Keys
  <1>11. /\ held[f] \in Nat /\ held[f] > 0 /\ held' = [held EXCEPT ![f] = held[f] - 1]
         /\ held \in [Factories -> 0 .. MaxRefs]
         /\ creating' = creating
         /\ \A u \in Threads \ {t} : dropF'[u] = dropF[u] /\ dropI'[u] = dropI[u]
    BY <1>2, <1>4, <1>10, MaxRefsAssumption DEF ReleaseRetained, ReleaseLast, BindingsInv, Inv, TypeOK
  <1>12. ReferencesAreInners'
    <2> SUFFICES ASSUME NEW g \in Factories
                 PROVE  held'[g] = Cardinality({m \in Inners : raw'[m] = g})
      BY DEF ReferencesAreInners
    <2> DEFINE R == {m \in Inners : raw[m] = g}
    <2>1. IsFiniteSet(R) /\ held[g] = Cardinality(R)
      BY BindingsAssumption, FS_Subset DEF BindingsInv, CountsInv, ReferencesAreInners
    <2>2. CASE g = f
      <3>1. {m \in Inners : raw'[m] = g} = R \ {n} /\ n \in R
        BY <1>3, <1>4, <1>7, <2>2, NoFactoryAssumption
      <3> QED
        BY <1>4, <1>11, <2>1, <2>2, <3>1, FS_RemoveElement
    <2>3. CASE g # f
      <3>1. {m \in Inners : raw'[m] = g} = R
        BY <1>3, <1>4, <1>7, <2>3, NoFactoryAssumption
      <3> QED
        BY <1>4, <1>11, <2>1, <2>3, <3>1
    <2> QED
      BY <2>2, <2>3
  <1>13. \A u \in Threads : f \notin Using(u)
    <2>1. \A u \in Threads : Free(u)
      BY <1>2, <1>8, OthersAreFree DEF ReleaseRetained, ReleaseLast
    <2> QED
      BY <1>4, <2>1, NoFactoryAssumption DEF Using, Free
  <1>14. disciplined'
    <2>1. disciplined
      BY DEF BindingsInv, CountsInv
    <2>2. CASE ReleaseRetained(t, s)
      BY <2>1, <2>2 DEF ReleaseRetained
    <2>3. CASE ReleaseLast(t, s)
      <3>1. disciplined' = (disciplined /\ Orderly(f))
        BY <1>10, <2>3 DEF ReleaseLast
      <3>2. Orderly(f)
        BY <1>13 DEF Orderly
      <3> QED
        BY <2>1, <3>1, <3>2
    <2> QED
      BY <1>2, <2>2, <2>3
  <1>15. Recounted(t, j)
    <2>1. creating[t] = NoFactory
      BY <1>1 DEF BindingsInv, CountsInv, WorkIsInside, At
    <2>2. \A m \in Inners : raw'[m] = NoFactory => Unowned(m)'
      BY <1>1, <1>4, <1>7, BindingsFacts DEF Unowned
    <2>3. \A u \in Threads \ {t} : Deleting(u) => job[u].inner \in Inners /\ job[u].inner # n
      BY <1>0, <1>4, BindingsFacts DEF BindingsInv, CountsInv, DeletesAreLast
    <2>4. \A u \in Threads \ {t} : Deleting(u) => raw'[job[u].inner] # NoFactory /\ Unowned(job[u].inner)'
      BY <1>1, <1>7, <2>3, BindingsFacts DEF Unowned
    <2> QED
      BY <1>a, <1>1, <1>8, <1>11, <1>12, <1>14, <2>1, <2>2, <2>4 DEF Recounted
  <1>16. /\ Keys' \subseteq Keys /\ \A k \in Keys : k # s => k \in Keys'
         /\ \A k \in Keys' : cache'[k].factory = cache[k].factory /\ cache'[k].instances = cache[k].instances
         /\ s \notin Keys' => held[f] = 1
    <2>1. CASE ReleaseRetained(t, s)
      BY <1>10, <2>1, CountingKeepsEntries DEF BindingsInv
    <2>2. CASE ReleaseLast(t, s)
      <3>1. held[f] = 1
        BY <1>10, <2>2 DEF ReleaseLast, BindingsInv, Inv, RefsAreHandles
      <3>2. Keys' = Keys \ {s} /\ \A k \in Shas : k # s => cache'[k] = cache[k]
        BY <2>2 DEF ReleaseLast, BindingsInv, Inv, TypeOK, Keys, Cached, Vacant
      <3> QED
        BY <1>10, <3>1, <3>2
    <2> QED
      BY <1>2, <2>1, <2>2
  <1>17. \A c \in Dsps : inst[c] # NoInstance =>
            /\ of[c] \in Inners /\ of[c] # n /\ raw'[of[c]] = raw[of[c]]
            /\ held[f] = 1 => raw[of[c]] # f
    <2> SUFFICES ASSUME NEW c \in Dsps, inst[c] # NoInstance
                 PROVE  /\ of[c] \in Inners /\ of[c] # n /\ raw'[of[c]] = raw[of[c]]
                        /\ held[f] = 1 => raw[of[c]] # f
      OBVIOUS
    <2>1. of[c] \in Inners /\ of[c] # n
      BY <1>4, BindingsFacts DEF BindingsInv, AliveInv, DspsAreAlive, OwnTypes, Unowned
    <2>2. ASSUME held[f] = 1 PROVE raw[of[c]] # f
      <3> DEFINE R == {m \in Inners : raw[m] = f}
      <3>1. IsFiniteSet(R) /\ Cardinality(R) = 1 /\ n \in R
        BY <1>3, <1>4, <2>2, BindingsAssumption, FS_Subset DEF BindingsInv, CountsInv, ReferencesAreInners
      <3>2. \E x : R = {x}
        BY <3>1, FS_Singleton
      <3> QED
        BY <2>1, <3>1, <3>2
    <2> QED
      BY <1>7, <2>1, <2>2
  <1>18. DspsAreAlive'
    <2> SUFFICES ASSUME NEW c \in Dsps, inst[c] # NoInstance
                 PROVE  /\ of[c] # NoInner
                        /\ \E k \in Keys' : cache'[k].factory = raw'[of[c]] /\ inst[c] \in cache'[k].instances
                        /\ \A e \in Dsps : inst[e] = inst[c] => e = c
      BY <1>1 DEF DspsAreAlive
    <2>1. PICK k \in Keys : cache[k].factory = raw[of[c]] /\ inst[c] \in cache[k].instances
      BY DEF BindingsInv, AliveInv, DspsAreAlive
    <2>2. of[c] # NoInner /\ \A e \in Dsps : inst[e] = inst[c] => e = c
      BY DEF BindingsInv, AliveInv, DspsAreAlive
    <2>3. k \in Keys'
      BY <1>10, <1>16, <1>17, <2>1
    <2> QED
      BY <1>16, <1>17, <2>1, <2>2, <2>3
  <1>19. UsedIsOptimized'
    <2>1. \A g : NeedsOptimizing(g)' => NeedsOptimizing(g)
      BY <1>1, <1>16, BindingsAssumption DEF NeedsOptimizing, Names, Keys
    <2>2. \A c \in Dsps : inst'[c] # NoInstance => ~ NeedsOptimizing(raw[of[c]])'
      BY <1>1, <1>17, <2>1 DEF BindingsInv, AliveInv, UsedIsOptimized
    <2>3. \A u \in Threads : job'[u].at # "optimizing" /\ job'[u].at # "building"
      BY <1>a, <1>6, <1>8, OthersAreFree
    <2> QED
      BY <2>2, <2>3 DEF UsedIsOptimized, At
  <1> QED
    BY <1>5, <1>9, <1>15, <1>18, <1>19, JobMoves, CountsMove DEF AliveInv, BindingsInv

(* What a creation does to the cache: the inner takes one new reference of f, *)
(* which no inner names if f is a new factory.                                *)
LEMMA CreationFacts ==
  ASSUME BindingsInv, NEW t \in Threads, NEW s \in Shas, NEW n \in Inners,
         NEW keep \in BOOLEAN, Create(t, s, n, keep)
  PROVE  \E f \in Factories :
            /\ raw' = [raw EXCEPT ![n] = f] /\ held' = [held EXCEPT ![f] = held[f] + 1]
            /\ UNCHANGED <<creating, dropF, dropI, disciplined>>
            /\ optimized' \subseteq optimized
            /\ Keys \subseteq Keys'
            /\ \A k \in Keys : cache'[k].factory = cache[k].factory
                               /\ cache'[k].instances = cache[k].instances
            /\ \A g \in CachedFactories : NeedsOptimizing(g)' => NeedsOptimizing(g)
  <1>1. ASSUME NEW f \in Factories, Insert(t, s, f), raw' = [raw EXCEPT ![n] = f],
               optimized' = optimized \ {f}
        PROVE  /\ held' = [held EXCEPT ![f] = held[f] + 1]
               /\ UNCHANGED <<creating, dropF, dropI, disciplined>>
               /\ Keys \subseteq Keys'
               /\ \A k \in Keys : cache'[k].factory = cache[k].factory
                                  /\ cache'[k].instances = cache[k].instances
               /\ \A g \in CachedFactories : NeedsOptimizing(g)' => NeedsOptimizing(g)
    <2>1. \A k \in Keys : cache[k].factory # f
      BY <1>1 DEF Insert, BindingsInv, Inv, OneOwner, HeapIsOwned
    <2>2. held[f] = 0
      <3>1. ~ (held[f] > 0)
        BY <2>1 DEF BindingsInv, Inv, RefsAreHandles, CachedFactories
      <3>2. held[f] \in 0 .. MaxRefs
        BY DEF BindingsInv, Inv, TypeOK
      <3> QED
        BY <3>1, <3>2, MaxRefsAssumption
    <2>3. Keys' = Keys \cup {s} /\ s \notin Keys /\ cache'[s].factory = f
          /\ \A k \in Shas : k # s => cache'[k] = cache[k]
      BY <1>1 DEF Insert, BindingsInv, Inv, TypeOK, Keys, Cached
    <2>4. Keys \subseteq Shas
      BY DEF Keys
    <2>5. \A g \in CachedFactories : NeedsOptimizing(g)' => NeedsOptimizing(g)
      <3> SUFFICES ASSUME NEW g \in CachedFactories, NeedsOptimizing(g)' PROVE NeedsOptimizing(g)
        OBVIOUS
      <3>1. g # f
        BY <2>1 DEF CachedFactories
      <3>2. PICK k \in Optimized : k \in Keys' /\ cache'[k].factory = g
        BY BindingsAssumption DEF NeedsOptimizing, Names, Keys
      <3>3. k \in Keys /\ cache[k].factory = g
        BY <2>3, <2>4, <3>1, <3>2
      <3>4. g \notin optimized
        BY <1>1, <3>1 DEF NeedsOptimizing
      <3> QED
        BY <3>3, <3>4 DEF NeedsOptimizing, Names, Keys
    <2>6. held' = [held EXCEPT ![f] = held[f] + 1]
      BY <1>1, <2>2 DEF Insert
    <2> QED
      BY <1>1, <2>3, <2>4, <2>5, <2>6 DEF Insert
  <1>2. ASSUME Acquire(t, s), raw' = [raw EXCEPT ![n] = cache[s].factory], UNCHANGED optimized
        PROVE  /\ cache[s].factory \in Factories
               /\ held' = [held EXCEPT ![cache[s].factory] = held[cache[s].factory] + 1]
               /\ UNCHANGED <<creating, dropF, dropI, disciplined>>
               /\ Keys \subseteq Keys'
               /\ \A k \in Keys : cache'[k].factory = cache[k].factory
                                  /\ cache'[k].instances = cache[k].instances
               /\ \A g \in CachedFactories : NeedsOptimizing(g)' => NeedsOptimizing(g)
    <2>1. Keys' = Keys /\ \A k \in Keys : /\ cache'[k].factory = cache[k].factory
                                         /\ cache'[k].instances = cache[k].instances
      BY <1>2, CountingKeepsEntries DEF BindingsInv
    <2>2. \A g : NeedsOptimizing(g)' => NeedsOptimizing(g)
      BY <1>2, <2>1, BindingsAssumption DEF NeedsOptimizing, Names, Keys
    <2>3. cache[s].factory \in Factories
      BY <1>2 DEF Acquire, BindingsInv, Inv, KeysHaveFactories, Keys
    <2> QED
      BY <1>2, <2>1, <2>2, <2>3 DEF Acquire
  <1>3. CASE \E f \in Factories : /\ Insert(t, s, f)
                                  /\ raw' = [raw EXCEPT ![n] = f]
                                  /\ optimized' = optimized \ {f}
    <2>1. PICK f \in Factories : /\ Insert(t, s, f)
                                 /\ raw' = [raw EXCEPT ![n] = f]
                                 /\ optimized' = optimized \ {f}
      BY <1>3
    <2> HIDE DEF NeedsOptimizing, CachedFactories, Keys
    <2> QED
      BY <1>1, <2>1
  <1>4. CASE /\ Acquire(t, s)
             /\ raw' = [raw EXCEPT ![n] = cache[s].factory]
             /\ UNCHANGED optimized
    BY <1>2, <1>4
  <1> QED
    BY <1>3, <1>4 DEF Create

(* The inner that takes the reference had no Arc, so nothing else is moved.   *)
LEMMA CreateStep ==
  ASSUME BindingsInv, NEW t \in Threads, NEW s \in Shas, NEW n \in Inners,
         NEW keep \in BOOLEAN, Create(t, s, n, keep)
  PROVE  JobsInv' /\ CountsInv' /\ AliveInv'
  <1>0. PICK j : j = IF keep THEN NoJob ELSE DeleteJob(n)
    OBVIOUS
  <1>1. /\ job[t].op = "create" /\ job[t].at = "locked" /\ raw[n] = NoFactory
        /\ handles' = [handles EXCEPT ![n] = IF keep THEN 1 ELSE 0]
        /\ job' = [job EXCEPT ![t] = j]
        /\ lock' = NoThread
        /\ UNCHANGED <<of, inst>>
    BY <1>0 DEF Create, At
  <1>2. PICK f \in Factories :
            /\ raw' = [raw EXCEPT ![n] = f] /\ held' = [held EXCEPT ![f] = held[f] + 1]
            /\ UNCHANGED <<creating, dropF, dropI, disciplined>>
            /\ optimized' \subseteq optimized
            /\ Keys \subseteq Keys'
            /\ \A k \in Keys : cache'[k].factory = cache[k].factory
                               /\ cache'[k].instances = cache[k].instances
            /\ \A g \in CachedFactories : NeedsOptimizing(g)' => NeedsOptimizing(g)
    BY CreationFacts
  <1>3. Unowned(n)
    BY <1>1, BindingsFacts
  <1>4. j \in Job /\ j.at = "waiting" /\ j.dsp = NoDsp /\ j.op \in {"none", "delete"}
        /\ (j.op = "delete" => j.inner = n /\ keep = FALSE)
    BY <1>0 DEF Job, Ops, Places, NoJob, DeleteJob
  <1>5. \A u \in Threads : job'[u] = IF u = t THEN j ELSE job[u]
    BY <1>1, BindingsFacts DEF OwnTypes
  <1>6. \A m \in Inners : /\ raw'[m] = IF m = n THEN f ELSE raw[m]
                         /\ handles'[m] = IF m = n THEN (IF keep THEN 1 ELSE 0) ELSE handles[m]
    BY <1>1, <1>2, BindingsFacts DEF OwnTypes
  <1>7. job[t].at \in Inside /\ lock = t
    BY <1>1, BindingsFacts DEF Inside, LockIsHeld
  <1>8. Moved(t, j)
    <2>1. OwnTypes'
      <3>1. (IF keep THEN 1 ELSE 0) \in 0 .. MaxHandles
        BY BindingsAssumption
      <3> QED
        BY <1>1, <1>2, <1>4, <3>1, BindingsFacts DEF OwnTypes
    <2>2. Shaped(j)'
      BY <1>0, BindingsAssumption DEF Shaped, NoJob, DeleteJob
    <2>3. \A u \in Threads : job[u].op \in {"json", "instantiate"} => handles'[job[u].inner] > 0
      <3> SUFFICES ASSUME NEW u \in Threads, job[u].op \in {"json", "instantiate"}
                   PROVE  handles'[job[u].inner] > 0
        OBVIOUS
      <3>1. job[u].inner \in Inners /\ handles[job[u].inner] > 0
        BY BindingsFacts DEF Shaped
      <3>2. job[u].inner # n
        BY <1>3, <3>1 DEF Unowned
      <3> QED
        BY <1>6, <3>1, <3>2
    <2> QED
      BY <1>1, <1>4, <2>1, <2>2, <2>3, BindingsFacts DEF Moved, Inside
  <1>9. ReferencesAreInners'
    <2> SUFFICES ASSUME NEW g \in Factories
                 PROVE  held'[g] = Cardinality({m \in Inners : raw'[m] = g})
      BY DEF ReferencesAreInners
    <2> DEFINE R == {m \in Inners : raw[m] = g}
    <2>1. IsFiniteSet(R) /\ held[g] = Cardinality(R)
      BY BindingsAssumption, FS_Subset DEF BindingsInv, CountsInv, ReferencesAreInners
    <2>2. held \in [Factories -> 0 .. MaxRefs]
      BY DEF BindingsInv, Inv, TypeOK
    <2>3. CASE g = f
      <3>1. {m \in Inners : raw'[m] = g} = R \cup {n} /\ n \notin R
        BY <1>1, <1>6, <2>3, NoFactoryAssumption
      <3> QED
        BY <1>2, <2>1, <2>2, <2>3, <3>1, FS_AddElement
    <2>4. CASE g # f
      <3>1. {m \in Inners : raw'[m] = g} = R
        BY <1>1, <1>6, <2>4, NoFactoryAssumption
      <3> QED
        BY <1>2, <2>1, <2>2, <2>4, <3>1
    <2> QED
      BY <2>3, <2>4
  <1>10. Recounted(t, j)
    <2>1. creating[t] = NoFactory /\ dropF[t] = {} /\ dropI[t] = {}
      BY <1>1 DEF BindingsInv, CountsInv, WorkIsInside, At
    <2>2. disciplined'
      BY <1>2 DEF BindingsInv, CountsInv
    <2>3. \A m \in Inners : raw'[m] = NoFactory => Unowned(m)'
      BY <1>1, <1>6, BindingsFacts, NoFactoryAssumption DEF Unowned
    <2>4. \A u \in Threads : Deleting(u) => /\ job[u].inner # n
                                            /\ raw'[job[u].inner] # NoFactory
                                            /\ Unowned(job[u].inner)'
      <3> SUFFICES ASSUME NEW u \in Threads, Deleting(u)
                   PROVE  /\ job[u].inner # n
                          /\ raw'[job[u].inner] # NoFactory
                          /\ Unowned(job[u].inner)'
        OBVIOUS
      <3>1. job[u].inner \in Inners /\ raw[job[u].inner] # NoFactory /\ Unowned(job[u].inner)
        BY BindingsFacts
      <3>2. job[u].inner # n /\ job'[u] = job[u]
        BY <1>1, <1>5, <1>7, <3>1 DEF Deleting, Inside
      <3> QED
        BY <1>1, <1>6, <3>1, <3>2 DEF Unowned
    <2>5. j.op = "delete" => raw'[j.inner] # NoFactory /\ Unowned(j.inner)' /\ j.inner = n
      <3>1. keep = FALSE => Unowned(n)' /\ raw'[n] # NoFactory
        BY <1>1, <1>3, <1>6, NoFactoryAssumption DEF Unowned
      <3> QED
        BY <1>4, <3>1 DEF Unowned
    <2> QED
      BY <1>1, <1>2, <1>4, <1>7, <1>9, <2>1, <2>2, <2>3, <2>4, <2>5 DEF Recounted
  <1>11. \A c \in Dsps : inst[c] # NoInstance =>
            of[c] \in Inners /\ of[c] # n /\ raw'[of[c]] = raw[of[c]] /\ raw[of[c]] \in CachedFactories
    <2> SUFFICES ASSUME NEW c \in Dsps, inst[c] # NoInstance
                 PROVE  /\ of[c] \in Inners /\ of[c] # n /\ raw'[of[c]] = raw[of[c]]
                        /\ raw[of[c]] \in CachedFactories
      OBVIOUS
    <2>1. of[c] \in Inners /\ of[c] # n
      BY <1>3, BindingsFacts DEF BindingsInv, AliveInv, DspsAreAlive, OwnTypes, Unowned
    <2>2. raw[of[c]] \in CachedFactories
      BY DEF BindingsInv, AliveInv, DspsAreAlive, CachedFactories
    <2> QED
      BY <1>6, <2>1, <2>2
  <1>12. DspsAreAlive'
    <2> SUFFICES ASSUME NEW c \in Dsps, inst[c] # NoInstance
                 PROVE  /\ of[c] # NoInner
                        /\ \E k \in Keys' : cache'[k].factory = raw'[of[c]] /\ inst[c] \in cache'[k].instances
                        /\ \A e \in Dsps : inst[e] = inst[c] => e = c
      BY <1>1 DEF DspsAreAlive
    <2>1. PICK k \in Keys : cache[k].factory = raw[of[c]] /\ inst[c] \in cache[k].instances
      BY DEF BindingsInv, AliveInv, DspsAreAlive
    <2>2. of[c] # NoInner /\ \A e \in Dsps : inst[e] = inst[c] => e = c
      BY DEF BindingsInv, AliveInv, DspsAreAlive
    <2> QED
      BY <1>2, <1>11, <2>1, <2>2
  <1>13. UsedIsOptimized'
    <2>1. \A c \in Dsps : inst'[c] # NoInstance => ~ NeedsOptimizing(raw[of[c]])'
      BY <1>1, <1>2, <1>11 DEF BindingsInv, AliveInv, UsedIsOptimized
    <2>2. \A u \in Threads : job'[u].at # "optimizing" /\ job'[u].at # "building"
      BY <1>4, <1>5, <1>7, OthersAreFree
    <2> QED
      BY <2>1, <2>2 DEF UsedIsOptimized, At
  <1> QED
    BY <1>4, <1>8, <1>10, <1>12, <1>13, JobMoves, CountsMove DEF AliveInv, BindingsInv

-----------------------------------------------------------------------------
(* The cache takes only steps of its own, so what holds of it for every host  *)
(* holds here.                                                                *)
LEMMA CacheSteps == BindingsInv /\ [BindingsNext]_bindingVars => [Next]_vars
  <1> SUFFICES ASSUME BindingsInv, [BindingsNext]_bindingVars PROVE [Next]_vars
    OBVIOUS
  <1>1. CASE UNCHANGED bindingVars
    BY <1>1 DEF bindingVars, vars
  <1>2. ASSUME NEW t \in Threads, ApiCall(t) PROVE [Next]_vars
    BY <1>2 DEF ApiCall, CallCreate, CallClone, CallDropHandle, CallJson, CallInstantiate,
                CallDropDsp, CallUnlocked, vars
  <1>3. ASSUME NEW t \in Threads, ApiStep(t) PROVE [Next]_vars
    <2> USE DEF ApiStep
    <2>1. CASE \/ Lock(t) \/ CreateFails(t) \/ Json(t) \/ Deleted(t) \/ BeginOptimize(t)
               \/ EndOptimize(t) \/ Refused(t) \/ Removed(t) \/ Return(t)
      BY <2>1 DEF Lock, CreateFails, Json, Deleted, BeginOptimize, EndOptimize, Refused, Removed,
                  Return, vars
    <2>2. ASSUME NEW s \in Shas, NEW n \in Inners, NEW keep \in BOOLEAN, Create(t, s, n, keep)
          PROVE  Call(t)
      BY <2>2 DEF Create, Call
    <2>3. CASE Delete(t)
      BY <2>3 DEF Delete, Next, Call
    <2>4. CASE DropObject(t)
      BY <2>4 DEF DropObject, Next, Finish
    <2>5. CASE Build(t)
      BY <2>5 DEF Build, Next, Call
    <2>6. ASSUME NEW s \in Shas, NEW i \in Instances, Registered(t, s, i) PROVE Finish(t)
      BY <2>6 DEF Registered, Finish
    <2>7. CASE Remove(t)
      <3>1. \E s \in Shas : RemoveInstance(t, s, inst[job[t].dsp])
        BY <2>7 DEF Remove
      <3>2. PICK s \in Shas : RemoveInstance(t, s, inst[job[t].dsp])
        BY <3>1
      <3>3. inst[job[t].dsp] \in Instances
        <4>1. cache \in [Shas -> Entry]
          BY DEF BindingsInv, Inv, TypeOK
        <4> QED
          BY <3>2, <4>1 DEF RemoveInstance, Entry
      <3> QED
        BY <3>2, <3>3 DEF Next, Call
    <2> QED
      BY <1>3, <2>1, <2>2, <2>3, <2>4, <2>5, <2>6, <2>7 DEF Next
  <1> QED
    BY <1>1, <1>2, <1>3 DEF BindingsNext

(* The invariant is inductive.                                                *)
LEMMA NextBindings == BindingsInv /\ [BindingsNext]_bindingVars => BindingsInv'
  <1> SUFFICES ASSUME BindingsInv, [BindingsNext]_bindingVars PROVE BindingsInv'
    OBVIOUS
  <1>1. Inv'
    BY CacheSteps, NextInv DEF BindingsInv
  <1>2. JobsInv' /\ CountsInv' /\ AliveInv'
    <2>1. CASE UNCHANGED bindingVars
      <3>1. UNCHANGED ownVars /\ UNCHANGED <<cache, creating, dropF, dropI, held, disciplined>>
        BY <2>1 DEF bindingVars, vars
      <3>2. JobsInv'
        BY <3>1 DEF BindingsInv, JobsInv, ownVars, OwnTypes, JobsAreShaped, Shaped, LockIsHeld,
                    OneCallPerDsp, LentHandlesStay
      <3>3. CountsInv'
        BY <3>1 DEF BindingsInv, CountsInv, ownVars, WorkIsInside, At, VoidIsUnowned, Unowned,
                    DeletesAreLast, Deleting, ReferencesAreInners
      <3>4. AliveInv'
        BY <3>1 DEF BindingsInv, AliveInv, ownVars, DspsAreAlive, UsedIsOptimized,
                    NeedsOptimizing, Names, Keys, Cached, At
      <3> QED
        BY <3>2, <3>3, <3>4
    <2>2. ASSUME NEW t \in Threads, ApiCall(t) PROVE JobsInv' /\ CountsInv' /\ AliveInv'
      BY <2>2, CallCreateStep, CallCloneStep, CallDropHandleStep, CallJsonStep,
         CallInstantiateStep, CallOnDspStep DEF ApiCall
    <2>3. ASSUME NEW t \in Threads, ApiStep(t) PROVE JobsInv' /\ CountsInv' /\ AliveInv'
      BY <2>3, LockStep, EndStep, BeginOptimizeStep, EndOptimizeStep, GiveUpStep, DropObjectStep,
         BuildStep, RegisteredStep, RemoveStep, DeleteStep, CreateStep DEF ApiStep
    <2> QED
      BY <2>1, <2>2, <2>3 DEF BindingsNext
  <1> QED
    BY <1>1, <1>2 DEF BindingsInv

(* Initially there are no factories, no Dsps and no calls.                    *)
LEMMA InitBindings == BindingsInit => BindingsInv
  <1> SUFFICES ASSUME BindingsInit PROVE BindingsInv
    OBVIOUS
  <1> USE DEF BindingsInit
  <1>1. Inv
    BY InitInv
  <1>2. NoJob \in Job
    BY DEF Job, Ops, Places, NoJob
  <1>3. OwnTypes
    BY <1>2, BindingsAssumption DEF OwnTypes
  <1>4. JobsInv
    BY <1>3, BindingsAssumption DEF JobsInv, JobsAreShaped, Shaped, LockIsHeld, Inside, OneCallPerDsp,
                LentHandlesStay, NoJob
  <1>5. ReferencesAreInners
    <2> SUFFICES ASSUME NEW f \in Factories PROVE held[f] = Cardinality({n \in Inners : raw[n] = f})
      BY DEF ReferencesAreInners
    <2>1. {n \in Inners : raw[n] = f} = {}
      BY NoFactoryAssumption
    <2> QED
      BY <2>1, FS_EmptySet DEF Init
  <1>6. CountsInv
    BY <1>5, BindingsAssumption DEF CountsInv, WorkIsInside, VoidIsUnowned, Unowned, DeletesAreLast,
       Deleting, NoJob, Init
  <1>7. AliveInv
    BY DEF AliveInv, DspsAreAlive, UsedIsOptimized, At, NoJob
  <1> QED
    BY <1>1, <1>4, <1>6, <1>7 DEF BindingsInv

(* The invariant implies what is promised: an Arc is not left by Unowned, and *)
(* a running Dsp has a program that needs no optimising.                      *)
LEMMA SafeBindings == BindingsInv => BindingsAreSafe
  <1> SUFFICES ASSUME BindingsInv PROVE BindingsAreSafe
    OBVIOUS
  <1>1. BindingsTypeOK
    BY DEF BindingsInv, Inv, JobsInv, OwnTypes, BindingsTypeOK
  <1>2. DspsAreAlive
    BY DEF BindingsInv, AliveInv
  <1>3. OneReferencePerInner
    <2>1. ASSUME NEW n \in Inners, Arcs(n) > 0
          PROVE  raw[n] # NoFactory /\ \A t \in Threads : job[t] # DeleteJob(n)
      <3>1. ~ Unowned(n)
        <4> SUFFICES ASSUME Unowned(n) PROVE FALSE
          OBVIOUS
        <4>1. {d \in Dsps : of[d] = n} = {} /\ handles[n] = 0
          BY DEF Unowned
        <4> QED
          BY <2>1, <4>1, FS_EmptySet DEF Arcs
      <3>2. \A t \in Threads : job[t] = DeleteJob(n) => Deleting(t) /\ job[t].inner = n
        BY DEF DeleteJob, Deleting
      <3> QED
        BY <3>1, <3>2, BindingsFacts
    <2> QED
      BY <2>1 DEF OneReferencePerInner, BindingsInv, CountsInv, ReferencesAreInners
  <1>4. OptimizeIsExclusive
    <2> SUFFICES ASSUME NEW t \in Threads, NEW u \in Threads, t # u, At(t, "instantiate", "optimizing"),
                        job[u].inner # NoInner, raw[job[u].inner] = raw[job[t].inner]
                 PROVE  job[u].at = "waiting"
      BY DEF OptimizeIsExclusive
    <2>1. job[t].at \in Inside /\ NeedsOptimizing(raw[job[t].inner])
      BY DEF At, Inside, BindingsInv, AliveInv, UsedIsOptimized
    <2>2. job[u].at \notin Inside /\ Shaped(job[u]) /\ job[u] \in Job
      BY <2>1, OthersAreFree, BindingsFacts
    <2>3. job[u].at # "running"
      <3> SUFFICES ASSUME job[u].at = "running" PROVE FALSE
        OBVIOUS
      <3>1. job[u].dsp \in Dsps /\ inst[job[u].dsp] # NoInstance /\ of[job[u].dsp] = job[u].inner
        BY <2>2 DEF Shaped, Job, Ops, NoJob
      <3> QED
        BY <2>1, <3>1 DEF BindingsInv, AliveInv, UsedIsOptimized
    <2> QED
      BY <2>2, <2>3 DEF Job, Places, Inside
  <1>5. NoSelfDeadlock
    BY DEF NoSelfDeadlock, BindingsInv, JobsInv, LockIsHeld, Inside
  <1> QED
    BY <1>1, <1>2, <1>3, <1>4, <1>5 DEF BindingsAreSafe

(* Safe Rust code on any number of threads, factories and Dsps: every usable  *)
(* Dsp is alive under its factory, each inner releases its one reference once, *)
(* a program is optimised in place while no one reads it, and no call waits   *)
(* for the lock it holds.                                                     *)
THEOREM BindingsAreSafeHolds == HostsSpec => []BindingsAreSafe
  <1>1. HostsInit => BindingsInv
    BY InitBindings DEF HostsInit
  <1>2. BindingsInv /\ [HostsNext]_hostsVars => BindingsInv'
    <2>1. [HostsNext]_hostsVars => [BindingsNext]_bindingVars
      BY DEF HostsNext, hostsVars
    <2> QED
      BY <2>1, NextBindings
  <1> QED
    BY <1>1, <1>2, SafeBindings, PTL DEF HostsSpec

(* The bindings are one of the hosts the cache was verified for: every step of *)
(* theirs is a step of the cache or leaves it alone.                          *)
THEOREM BindingsUseTheCache == BindingsSpec => Spec
  <1>1. BindingsInit => Init
    BY DEF BindingsInit
  <1> QED
    BY <1>1, CacheSteps, InitBindings, NextBindings, PTL DEF BindingsSpec, Spec

(* And they are a disciplined one, which the cache itself has to assume of its *)
(* host: under them every instance is destroyed before its factory, and every *)
(* creation finds the factory it is for.                                      *)
THEOREM SafeRustIsDisciplined ==
    BindingsSpec => [](disciplined /\ InstancesBeforeFactory /\ CreationsFind)
  <1>1. BindingsInv => disciplined
    BY DEF BindingsInv, CountsInv
  <1>2. DestructorsFindFactory /\ CreationFindsFactory /\ disciplined =>
            InstancesBeforeFactory /\ CreationsFind
    BY DEF DestructorsFindFactory, CreationFindsFactory, CreationsFind
  <1> QED
    BY <1>1, <1>2, InitBindings, NextBindings, BindingsUseTheCache,
       DestructorsFindFactoryHolds, CreationFindsFactoryHolds, PTL DEF BindingsSpec

=============================================================================
