# TLA+ models and proofs for faust-rs

faust-rs is a Rust implementation of the Faust compiler: it parses a DSP program, evaluates its block
diagrams, propagates them to a signal graph, types and schedules that graph, lowers it to an imperative
representation (FIR), and hands FIR to code generators and to two in-process backends (a Cranelift JIT and
a bytecode interpreter) that C and Rust hosts drive from any number of threads.

This directory holds TLA+ modules of the parts of that program whose correctness depends on interleavings,
on the order of steps, on memory kept between steps, or on arithmetic at a boundary; the TLC configurations
that check them on small instances; and proofs, checked by TLAPS, that hold for every value of the constants.

Run a model with `tlc -config <cfg> <module>`; check a proof module with `tlapm <module>`.
`PROJECT.json` ties every modelled definition to its source lines, every property to mutations of the
model that break it, and every hazard of the code to the properties about it.

## 1. Inventory

| Component (`crates/`) | State | Operations | Why it is hard |
|---|---|---|---|
| Factory cache, `ffi-common/src/factory_cache.rs` | one process-wide `Mutex<FactoryCache>` per backend: SHA key → boxed factory, external count, owned instances; `mt_mode` | `insert_or_acquire`, `lookup_acquire`, `release`, `register_instance`, `remove_instance`, `clear`, `start_mt`/`stop_mt` | objects leave the map under the mutex and are destroyed after it; instances are built outside it; addresses are reused |
| `-mem0` memory, `cranelift-ffi/src/{types,instance,factory}.rs` | per factory `Mutex<FactoryMemoryState>`: bound manager, class storage, class rate, `class_busy`, live instances; JIT slots; blocks at the host | set manager, create, clone, delete, init, `class_init`, delete factory | the mutex is released around every host callback; allocation may fail at any point |
| Foreign-function registry, `cranelift-ffi/src/factory.rs` | one process-wide registry name → (address, signature) | register, unregister, clear; read by a creation for linking and again for its key | two reads of shared state in one creation |
| Safe Rust bindings, `faust/src/{backend,factory,dsp}.rs` | `Arc`s to inners holding one cache reference each; the static `LIFECYCLE` mutex | create, clone, drop, optimise, init, compute | values dropped in any order on any thread; calls with and without the mutex |
| FFI error channel, `ffi-common/src/complete_error.rs` | per thread and API: an attachment, three published cells | `attach`, `attach_with_diagnostics`, `report`, getters | an attachment outlives a failure the caller recovered from |
| Strings and arrays, `ffi-common/src/strings.rs` | a process-wide registry of the arrays handed out | allocate, `freeCMemory` | one function frees what two allocators gave, by an address that comes back |
| Tree handles, `tree-ffi/src/lib.rs` | one context: hash-consed arena, handles, control registry | build, match, register controls, create and destroy the context | handles outlive a reset |
| Polyphonic probe, `cranelift-ffi/src/probe/` | voices (note, queued note, date, level), the event list of a render | note on and off, block, render | stealing, legato, overlapping notes of one pitch, events between blocks |
| Import expansion, `parser/src/{lib,source_reader}.rs` | active stack, expanded sets per scope, cycle edges, fetch cache | expand a list, an import, a local environment | scopes, cycles and redirects together |
| Case patterns, `eval/src/pattern_matcher.rs` | one tree automaton for all rules; matchers with environment layers | compile, apply one argument | states shared by several paths; partial applications copied |
| Clock environments, `transform/src/clk_env` | hypothesis per recursive group, memo of a round | infer, check, annotate | a fixpoint with one memo for groups swept in a hashed order |
| Recursive types, `sigtype/src/rules.rs` | approximations, ages, memo, groups to redo | a pass of the incremental solver | what to forget between two passes |
| Hierarchical graph, `transform/src/hgraph` | graphs per clock domain, domain table; effect edges | visit, orient effects | written on the way down, read below and beside; edges laid by pairs |
| Graph scheduler, `transform/src/schedule/` | work list, visited set, explicit stack | `schedule` with four strategies (`-ss`), `verify_schedule` | order-sensitive algorithms over shared graphs with hash sets; a compact computation standing for an exponential one |
| Delay plan, delay lines, `transform/src/signal_fir/delay/` | memo of the walk, line lengths; then an array and a cursor per line | plan; write, reads, end-of-sample update, `instanceClear` | sized by one pass, read by another; three storage strategies, in-place copies, 32-bit wrap-around |
| Recursion carriers, `transform/src/signal_fir/{recursion.rs,module}` | scalar, shifted or circular carrier per output | choose, body pass, post-output copies, reads | a read may come before or after the body pass of its sample |
| Clocked blocks, `transform/src/signal_fir/module/clocked.rs` | holds, per-domain cursors, modulo counters, a lazy flag per call | guarded blocks in a sample loop | several rates in one loop, values moved to the first firing of a call |
| Folded tables, `transform/src/signal_fir/siggen.rs` | memory of recursions and delays in a compile-time interpreter | one cell | must do what compiled code would do sample by sample |
| Interpreter, `codegen/src/backends/interp/` | arena of blocks, two stacks, two heaps | compile, six optimiser levels, dispatch | operands popped in the reverse order they were pushed; fusions |
| Evaluator, propagation, typing rules, vector lowering, FIR, code generators, driver | trees in a hash-consed arena | pure rewriting, one thread | size of the data |
| Interpreter, WebAssembly, libfaust, Python C APIs, tools | caches and registries like the above | bindings | covered by the shared cache where they use it |

How they interact. A C host calls the backend APIs, a Rust host the safe bindings, which call the same
functions under one mutex. A creation expands the imports of the program, evaluates it (case expressions
through the pattern matcher), types it and infers the clock domain of every signal, partitions the prepared
signals into graphs, orders effects, schedules each graph, plans delay lines and carriers, and lowers the
result to sample loops for the JIT or to bytecode. It links the foreign functions it calls out of the
registry, derives a SHA key from source, options and registry, and stores the factory in the cache or acquires
the one already there. An instance is created from a factory handle, takes its memory from the manager bound
to the factory when the program was compiled with `-mem0`, and is registered in the factory's cache entry; its
destructor reads its factory's memory state, so it must run first. A failure on any of these ways is told
through the error channel of the calling thread. Nothing is persisted: there is no crash recovery to model,
and no message passing. The concurrency is that of host threads.

The hazards this code is exposed to are listed with their lines in `PROJECT.json`.

## 2. Modules

| Module | Models | Composed of |
|---|---|---|
| `FactoryCache` | the factory cache, shared by both backends | – |
| `RustBindings` | the safe Rust API | extends `FactoryCache`: its operations are steps of this module |
| `Mem0Factory` | one `-mem0` factory: manager, class and instance memory | – |
| `ForeignFunctions` | registry, factory creation, factory key, bitcode restoration | – |
| `CompleteError` | the error channel | – |
| `HostMemory` | strings and arrays, `freeCMemory` | – |
| `TreeHandles` | the tree context of the box and signal APIs | – |
| `VoiceAllocation` | voices of the polyphonic probe | – |
| `PolyRender` | rendering scheduled notes | extends `VoiceAllocation` |
| `ImportExpander` | import expansion and the reader's cache | – |
| `PatternMatcher` | compilation and application of case rules | – |
| `ClockEnvironments` | clock-domain inference | – |
| `TypeIteration` | the full iteration for recursive types (abstract) | – |
| `RecursiveTypes` | the incremental solver | implements `TypeIteration` |
| `FrontEnd` | imports and recursive types, side by side | extends `RecursiveTypes`; instance of `ImportExpander` |
| `Hosts` | what hosts drive from outside the compiler | extends `RustBindings`; instances of `CompleteError`, `TreeHandles`, `HostMemory`, `VoiceAllocation`, `PolyRender` |
| `HierarchicalGraph` | the graphs per clock domain | – |
| `EffectOrientation` | the order of effects in one graph | – |
| `SchedulerContract` | what `schedule` promises (abstract) | – |
| `ScheduleDfs` | validation and the depth-first strategy, step by step | implements `SchedulerContract` |
| `Scheduling` | the four strategies and the verifier as functions of the graph | implements `SchedulerContract` |
| `DelayPlan` | lengths of lines and carriers | – |
| `IdealDelay` | what a delay line promises (abstract) | – |
| `DelayLine` | the generated code of the three storage strategies | implements `IdealDelay` |
| `RecursionCarriers` | storage of recursion outputs | – |
| `ClockedBlocks` | the sample loop of a clocked program | – |
| `Lowering` | the passes from the prepared signals to the statements of a sample | extends `EffectOrientation`; instances of `HierarchicalGraph`, `DelayPlan`, `RecursionCarriers`, `ClockedBlocks` |
| `TableGenerator` | tables folded at compile time | – |
| `FbcExecutor`, `FbcCompiler`, `BytecodeOptimizer` | the machine, the compiler and the optimiser of the interpreter | each extends the one before |
| `FactoryCacheProofs`, `Mem0FactoryProofs`, `ForeignFunctionsProofs`, `HostsProofs`, `FrontEndProofs`, `ScheduleDfsProofs`, `DelayLineProofs`, `LoweringProofs` | theorems | extend the module they are about; `HostsProofs` cites `FactoryCacheProofs` |
| `MC…` | small instances for TLC | see section 3; a component that needs no definitions for its instance is run under its own name |

Operators whose comment begins "Mutant of" are not part of any specification; each says which operator it
would replace and how.

### Hosts

**FactoryCache.** `cache` is `FactoryCache::map`; an absent key is an entry without references. Factories and
instances are named by heap address, and `heapF`, `heapI` are the addresses in use, so an address can come back
once its object is destroyed. Each method is one mutex region and one action; what the region took out of the
map moves to `dropF[t]`, `dropI[t]`, and `DropInstance`, `DropFactory` destroy it one object at a time, the
instances of an entry before its factory, which is what the field order of `FactoryEntry` gives.
`BeginInstance` … `Register` is an instance creation: it uses the factory handle before it comes to the cache.
`held`, `parent` and `disciplined` are history: the handles the host has, the factory an instance came from,
and whether the host has so far never released the last handle on a factory, nor cleared the cache, under a
running call. The host of the model only releases handles it holds and only creates instances of factories it
holds; everything else it does in any order on any thread.

**RustBindings.** `raw` and `handles` are the inners behind the `Arc`s and the clones safe code holds, `of` and
`inst` what a Dsp was created from and its C instance, `lock` the `LIFECYCLE` mutex, `job` the place of a
thread in a call that takes several steps. What the borrow checker grants is in the guards: `drop` consumes a
value, `compute` and `init` have their Dsp to themselves. The calls the bindings make without the mutex
(`init`, `compute`) are steps of their own, so that what a creation on one thread does to the tables another
one reads can be seen (section 4).

**Mem0Factory.** The first line of VARIABLES is `FactoryMemoryState`. `slots` are the JIT's class-table pointers,
`tables` what they contain (the rate they were filled for), `blocks` what the host allocated and did not yet get
back. One C call is a sequence of actions, one per lock region or host callback, with the thread's position in
`pc`; steps between two regions that touch only the thread's own instance are merged into the region after them.
Every `allocate` callback may fail. A thread works on one instance per call and the host does not call into a
factory it is deleting.

**ForeignFunctions.** `registry` is the global registry. A creation is `Begin` (from source, or `Restore` from a
bitcode payload that carries a key), `Snapshot` (the registry is copied, the program is linked, a missing name
fails the creation), `Fingerprint` (the registry is read again for the key; a restored payload with another key
is refused) and `Insert` (a known key keeps its factory). `moved` and `disciplined` are history: the registry
changed during this creation, or during any.

**CompleteError.** One record per thread: `attached` is the cell `attach` writes, `message`, `details` and
`report` what the getters return. `Publish` is `report`: it takes the attachment out whether or not it matches
the message, and writes all cells. A call may fail, be recovered from and fail again, or be refused for its
arguments by a message that quotes the summary of another failure. `failing`, `told` and `since` are history.

**HostMemory.** `registry` maps the address of an array to its length under a mutex held for one lookup or
insertion; `heap` gives a free address again at once. `Free` is two steps, the lookup that removes the entry and
the release.

**TreeHandles.** A call holds the mutex of the one context, so it is one step. `arena` is hash-consed, `handles`
numbers what was given out, `controls` is the registry behind the control numbers of signal leaves; `life` counts
the contexts. What users keep between calls is `held`, with the tree each handle was given for.

**VoiceAllocation, PolyRender.** A voice is `VoiceState` and the zones a note writes. `due` counts the note-offs
still to come for each pitch. `PolyRender` turns a list of `--note` arguments into events, and `Apply` and
`Render` are the two halves of the loop: what is due at the frame, then a block shortened to the next event.
Whether a block fell below the level at which a releasing voice is free is a choice.

### Front end

**ImportExpander.** `stack` is the recursion of the expander, one frame per list, and a step treats one
definition. `scopes` are the sets of expanded locators, a new one for each local environment; `active` is the
stack that detects cycles, `edges` the import edges a reported cycle is read from, `cached` the reader's cache
with the requested and the final locator of each answer. A program (`WorldsAssumption`) is any finite set of sources
with any lists of directives; an environment inside an environment is left out, and the definitions of a source other
than directives are one, `Own`. A locator that answers for another answers for itself, which is what the reader's
cache makes of it, and only URLs redirect.

**PatternMatcher.** A rule list is compiled by merging the trie of one rule after another, the merge copying or
sharing states as the code does; a matcher applies one argument at a time and holds the binding layers of its rules.
`ApplyTo` may apply any matcher kept so far again. `lapses` marks the states at which a merge left a rule out of a
path or let one into a path that shares the state (section 4).

**ClockEnvironments.** A round infers each group once, in any order, with `memo` for all groups of the round
against the hypothesis `hyp` of the one before; the forest is annotated when a round changes nothing. `Satisfies`
states the rules declaratively, for any assignment of domains.

**TypeIteration, RecursiveTypes.** The abstract module infers every group in every pass. The detailed one keeps `env`,
the memo of node types, and `stale`, the groups to infer again; `StaleNodes` climbs through the parents of what
changed. The refinement mapping drops the two. A type is an interval, its precision, and which qualifiers it has:
real, computed at execution, boolean, vectorable. The bounds end in the infinities, beside the greatest numbers that
widening assigns: operations reach both, widening only the second. The rules of single operations are the constants
`Bounds` and `Qualifies`; projections are operations. Ages are counted up to the first above the limit, which is all
that widening asks of them. Left out: the variability, a sample's for every approximation from the start, compilation
apart from initialisation, the vectorability `TrueScal`, which no rule makes, programs that typing refuses, groups of
several components.

### Lowering

**HierarchicalGraph.** The recursive visit is a stack of frames, and the children of a signal are visited in every
order. `keyOf` is the domain table a wrapper writes on the way down, `owned` and `edges` the graphs. A forest is one
that clock inference accepts (`WellClocked`): the domain of a signal is the innermost of those it reads, however far
out the others are, and a block and its clock are checked against the domains around it (`clk_env/mod.rs:415`, 469).

**EffectOrientation.** One step handles one node of one chain, in baseline order: conflict groups first, then
barriers. `deps` grows by an edge when the code's reachability test finds no path.

**SchedulerContract, ScheduleDfs, Scheduling.** The contract is one answer: an order of all nodes with
dependencies first, or the smallest self-dependent node, or exactly the set of nodes no order can hold.
`ScheduleDfs` walks `ensure_schedulable` (self edges, peeling in any order its hash sets give) and
`depth_first::run` (explicit stack of frames, one action per loop step). `Scheduling` computes each strategy from
the edge lists a `Digraph` presents, with delayed and foreign edges filtered as the adapter filters them, and
compares `Special`'s position arithmetic with the literal sequence it replaces, the levels of the breadth-first
strategies with longest paths, and `verify_schedule` with the contract.

**DelayPlan.** `Visit` is one call of the planner's recursion; `visits` is its stack flattened, `best` the memo per
signal and clock context, `lines` and `outputs` the lengths; `Chain` is what `is_recursion_delay_chain_static` and
`match_recursion_delay_key` find below a delay. The reference is the maximum over all paths.

**IdealDelay, DelayLine.** `IdealDelay` keeps the last `delay` samples. `DelayLine` is the emitted FIR: write,
reads, copies from the top slot down (`shift`), a masked 32-bit cursor (`circular`), a counter compared with its
size (`ifWrapping`). The refinement mapping reads the past out of the array through the very index the generated
code computes.

**RecursionCarriers.** The value an output takes at sample t is t, so what a read returns says which sample it is of.
`BodyPass` writes, `EndSample` persists the scalar or copies the array after the outputs, reads happen before and
after the body. Two reads of which the code does not return the sample asked for are named, `StartsAtItsOwn` and
`ZeroOnScalar`, and set apart (section 4).

**ClockedBlocks.** `stack` holds the regions being run; a line of a region is written, read and advanced at the
firings of that region. `perm` and `slowVar` are the held copies and the value computed at the first firing of a
call. `fired`, `held` and `computed` are history against which the memory is compared.

**TableGenerator.** A step computes one cell with the interpreter's memory (`rec`, `delay1`, `history`); the
reference evaluates the generator sample by sample. It is compared for generators whose delays and recursions are
evaluated once a step; outside them the two modes of the code differ (section 4).

**FbcExecutor, FbcCompiler, BytecodeOptimizer.** The executor is a function from a block, a heap and two stacks
to the heaps it leaves; reals are quotients with a NaN and infinities, integers `Width` bits wide. The compiler
fills blocks of an arena, a loop's branch back naming a block before it is sealed. A step of the optimiser is one
sweep of one level over one block, sub-blocks first. What the code must mean is the value of the FIR program,
computed directly.

## 3. Runs

| Run | Checks | Bounds |
|---|---|---|
| `cache` | `RefsAreHandles` (counts are handles, none dangles); `OneOwner` (no leak, no double destruction); `HostDisciplineSuffices` (what a disciplined host gains); `StableWhileHeld` (a held key never switches object); `RemovedIsDestroyed` (liveness) | 2 threads, 2 keys, 3 factory and 2 instance addresses, counter full at 2 |
| `cache_race` | **violated**: `InstancesBeforeFactory` for a host without the discipline | 1 key |
| `mem0` | `OneManager`, `BlocksHaveOwner`, `ClassStorageIsSound`, `TablesAreFilled`, `TablesAreStable`, `InitAtTableRate`; `CallsReturn` (liveness) | 2 threads, 2 instances, 2 managers, 2 rates, 2 class tables, 2 object zones |
| `mem0_init` | **violated**: `InitMarksInitialized` | 1 manager, 1 rate |
| `foreign` | `CachedCodeIsLinked`; `DisciplinedCompilesAnew` as long as registration stays clear of creations | 2 threads, 1 name, 2 functions, a program that calls it |
| `foreign_stale` | **violated**: `ReRegisteredCompilesAnew` | same |
| `schedule_dfs` | `WalkIsSound`, `KeepsContract` (refinement), `Terminates` (liveness) | all graphs on 4 nodes with at most 3 dependencies a node |
| `scheduling` | `StrategiesAreTheirDefinitions`, `VerifierIsExact`, `KeepsContract` (refinement) | 8400 four-node graphs, `-ss` 0, 1, 2 and 7, sequences of up to 6 places before `Special` falls back, 96 candidate orders |
| `delay_line` | `ImplementsIdealDelay` (refinement) | delays 1, 2, 3, 5 across all three strategies, a 5-bit cursor, 2 sample values |
| `hosts` | `BindingsAreSafe`, `HandlesKeepTheirTree`, `ReleasedAsAllocated`, `ErrorChannelTellsTheLastFailure`, `VoicesFollowTheirNotes`, `EventsAreSampleExact` | see below |
| `lowering` | `EffectsAreOrdered`, `GraphsOrderWhatIsNeeded`, `PlanServesEveryRead`, `CarriersReadThePast`, `BlocksFireAsWritten`, `FoldedTablesAreTheGenerators`, `OptimizedCodeKeepsItsMeaning` | see below |
| `frontend` | `ImportsAreExpandedOnce`, `FirstMatchWithItsBindings`, `DomainsAreTheLeast`, `TypesAreSolved`, `PassesWiden`, `IsTheFullIteration` (refinement) | see below |

**The composed runs.** The components of `hosts`, `lowering` and `frontend` share no state, so one run explores
them side by side rather than multiplied: a variable `part`, chosen in the initial state and never changed, says
which component a behaviour is about; its `Init` and `Next` come from an `INSTANCE` of its module, the variables
of the others stay `Off`, and each property of the run is the conjunction of the named properties of one
component, its `TypeOK` first. `RustBindings` (in `hosts`), `EffectOrientation` (in `lowering`) and `RecursiveTypes` (in
`frontend`) are extended instead, so that their properties are checked as the modules state them, without `part`;
their variables rest in a valid state while another part runs. The compositions `Hosts`, `Lowering` and `FrontEnd` are modules
with parameters, so that the theorems of section 5 are about what the runs explore: `MCHosts` gives the first its
values, `MCLowering` and `MCFrontEnd` the others, beside which they put the parts that rest on recursive operators:
the folded tables and the bytecode, the case matcher and the clock domains.

The instances. `hosts`: two threads with four failures and two argument errors; two threads, two programs (one
optimised in place), two inners and two Dsps; two users and two lives of the context with five nodes; three threads
and three heap addresses; three voices, two pitches and six notes; two voices and every list of up to three notes over
five frames in blocks of two. `lowering`: every graph of four nodes with every choice among five kinds of effect; two
blocks nested or beside each other with eight signals, which read from any domain around their own; every graph of
four signals for the delay plan, with two domains; one or two recursion outputs read by up to two delayed reads; two
domains of every pair of shapes with four lines through three calls of `compute`; every layered generator of five
nodes; 1421 FIR programs on 4-bit integers. `frontend`: an entry and two sources, local or fetched, two directives and
one local environment each; every list of two rules of two flat patterns, of two nested ones, of four rules of one
pattern out of five and of three rules of two out of six, those with a lapse among them; two groups nested or beside
each other over a block and three domains; three recursive groups over a shared node, with projections, nine bounds
from one infinity to the other, sums that wrap as integers and overflow as floats, and precisions down to -3.

Why the bounds are enough to be interesting. Two threads and two objects of each kind give every pairwise race
of the cache and of a `-mem0` factory; three factory addresses let one be in the map, one under destruction and
one reused; a counter of two is full after one acquisition. Two class tables and two object zones make a failure
possible after a success. Four nodes hold diamonds, doubled edges and loops of every shape; with a range of six
`Special` falls back on part of the graphs and not on the rest. A 5-bit cursor wraps within 32 samples and its
range is a multiple of every power of two in use, as 2^32 is. Three voices with two pitches let a note be stolen,
queued and released while another of its pitch plays. Two sources and a redirect give a cycle that is seen under one
name and entered under another; three groups give a reader of a reader of a changed type. Every sort of program a
property quantifies over reaches it: each conjunct of the composed properties has a mutation that breaks it. The
theorems of section 5 remove the bounds where they apply.

`CHECK_DEADLOCK FALSE` appears where the system stops: a scheduler, a compiler pass or a render that has answered, and
a composed run whose part has.

Fairness. `FactoryCache` and `Mem0Factory` assume weak fairness of the steps of a call that has begun, per thread: the
code contains no wait other than the mutex, whose regions are single actions, so an operating system that runs every
thread gives it; and it takes host callbacks to return. Nothing makes a host start a call. `ScheduleDfs` assumes weak
fairness of `Next`: it is one thread that runs to its answer. The other specifications are safety only; that the type
solver comes to an end is stated by safety, as `PassesWiden`: no pass takes back a bound or a qualifier, and one that
is followed by another moves a bound or adds a qualifier, of which a group has two, each moving once
(`TypesAreSolved`), and four.

## 4. Where the code departs from its documents

Three runs show a violation.

* `cache_race`. `FactoryEntry` says (`factory_cache.rs:87`) "Keep instances first so Rust drops them before their
  parent factory." That orders the drops of one entry. `remove_instance` and `release` on two threads take the
  instance and then its factory out of the map, and drop both after the mutex: the factory can go first, and the
  instance's destructor, which locks the factory's memory state, then reads a destroyed object. A host that holds a
  handle on the factory across every call is safe: that is `HostDisciplineSuffices`, checked and proved.
* `mem0_init`. The doc of `initCCraneliftDSPInstance` (`instance.rs:198`) says it "records sample rate and marks
  initialized". `class_init_instance` returns false while another thread initialises the class, even at the same
  rate, and `init` then returns without either.
* `foreign_stale`. The doc at `factory.rs:96` says "a name re-registered at another address or with another
  signature compiles anew". A creation that copied the registry before the re-registration and took its fingerprint
  after it files old code under the new key, and the next creation gets that code.

Others were met while modelling. The modules follow the code; the properties of the runs are stated so that they
hold of it, and say in their comments what they leave out.

* Case patterns lose a rule (`pattern_matcher.rs:521`): `merge_state` looks at the first transition of the second
  state only, while a state merged under a new constant may have several. With the rules (x, 0), (x, 1), (0, 0) the
  arguments (0, 1) fail. And shared states gain one (`pattern_matcher.rs:525`): a state without transitions takes
  those of the merged state, so a later merge along one path adds its rules to the others; with (1, x) and (x, (x :
  1)) the arguments (0, (0 : 1)) take the first rule. The model does both and marks where (`lapses`);
  `FirstMatchWithItsBindings` is about the rule lists compiled without a mark, and says so. Of the 216 lists of three
  rules in the instance 54 have one, and 36 of these match otherwise than they are written.
* A sample-rate value read from two or more levels out is no precondition of the outer blocks (`hgraph/mod.rs:528`,
  against "surface the block precondition on the enclosing wrapper in the wrapper's own graph", 530). Clock inference
  takes the innermost domain over the operands (`clk_env/mod.rs:415`), so such a read is accepted, and
  `adapt_sampling_frequency` builds one (`propagate/engine.rs:1034`). The edge is put once, in the graph around the
  innermost block; the value is in the graph of another domain, where no edge orders it before the block that contains
  this one. `NeededIsReady` sets the case apart by name (`FarOut`) and says what is left of the edge. A value read out
  of state from a domain around becomes an immediate precondition too, where a cycle may go through it:
  `EdgesAreNeeds` counts it as a need.
* An import cycle through an alias passes (`parser/src/lib.rs:3315`, against `source_reader.rs:903`): a source
  reached through a redirect is active under its final locator, while the locator asked for is already marked as
  expanded, so an import of that locator is skipped instead of refused.
* Safe Rust code races on tables (`faust/src/dsp.rs:68`, `cranelift-ffi/src/instance.rs:583`): `Dsp::create` runs
  `init` after the mutex, and without `-mem0` that fills the tables of all instances of the JIT module while another
  thread computes.
* The two table modes differ (`siggen.rs:492`, against `compiler/tests/codebox_backend.rs:941`): a shared delay is
  pushed once per reader, a delay under a `select2` branch misses steps.
* A runtime amount of zero on a scalar carrier reads the previous sample (`core_lowering.rs:813`, against
  `tests/recursion_delay_amount.rs:41`), and a `prefix` over a recursion output starts at the cleared carrier instead
  of its first value (`core_lowering.rs:903`, against `module/bra.rs:933`, "y[0] = init"). `ReadsAreExact` says of
  these two reads that they are in bounds, and not which sample they return.
* The doc of the type solver promises "an upper bound of the least fixpoint" (`rules.rs:1353`). Where bodies have an
  infinite bound the approximation ends at the greatest number below it, as for x = 2x + 1
  (`interval/src/ops/arithmetic.rs:56`, 171, 190). And the last pass may change precisions only, while an integer sum,
  absolute value or product that may overflow has other bounds once a precision is negative (29, 115, 163). So
  `PassesWiden` says what holds of the approximations that the last pass read, up to the greatest numbers. The doc
  also has "The approximations, widening ages and iteration count are those of the full iteration" (`rules.rs:1367`):
  the ages are not for an infinite body, which the full iteration ages at every pass and the incremental one only when
  it infers it again. Both are above the limit, where `MAX_AGE` stops counting.
* A failure recovered from "never reaches the host" (`ffi-common/src/complete_error.rs:82`), and a document of
  diagnostics "never outlives the failure it describes" (42). By the rule of publication (110) what was attached is
  published when the message of a later failure contains its summary, so a recovered failure whose summary is quoted
  reaches the host; `ErrorChannelTellsTheLastFailure` allows it and says so.
* A tree handle kept across a reset decodes to a tree of the new context (`tree-ffi/src/lib.rs:142`, against
  `box-ffi/src/lib.rs:20`).
* A voice's date counts its own allocations, so the oldest voice is not the one stolen (`poly.rs:326`, against 182 and
  236); a note given before the one it follows on the same pitch and frame is cancelled (`schedule.rs:137`, against
  49); `notes_held_at` misses the second of two overlapping notes (`schedule.rs:116`, against 98).
* `max(x, literal)` fused as commutative changes its result on a NaN (`opcode.rs:921`, against
  `optimizer/tests.rs:409`), a real product by the literal 0 becomes 0, and `abs` of the constant `i32::MIN` panics in
  a debug build (`optimizer.rs:785`).

## 5. What is proved

All theorems hold for every value of the constants allowed by the named assumptions in the modules. The type
invariants of `FactoryCache`, `RustBindings`, `ForeignFunctions`, `Mem0Factory`, `CompleteError`, `HostMemory`,
`TreeHandles`, `VoiceAllocation`, `ImportExpander`, `RecursiveTypes`, `ScheduleDfs`, `DelayLine` and `EffectOrientation` are proved.

**FactoryCacheProofs.** `TypeCorrect`, `RefsAreHandlesHolds`, `OneOwnerHolds`, `StableWhileHeldHolds` for any
host; `DestructorsFindFactoryHolds`, `CreationFindsFactoryHolds`, and `HostDisciplineSufficesHolds` from the two, for as
long as it is disciplined. `RefsAreHandles` is not inductive alone: that a count follows its own handles needs no two
keys to name one factory, which needs a fresh address to be outside the map, which is `OneOwner`. So the invariant is
`TypeOK`, `KeysHaveFactories`, `RefsAreHandles` and `OneOwner` together. The second invariant, `HostInv`, adds under
discipline that an instance in an entry came from the entry's factory, that a creation's factory is in the map, and
that an instance under destruction has its factory in the map or next in line on the same thread; each is what the
destruction of the others needs. Assumptions: the null handle is no factory, the greatest count is positive.

**Mem0FactoryProofs.** Every safety property of the run `mem0`: `TypeCorrect`, `OneManagerHolds`,
`BlocksHaveOwnerHolds`, `ClassIsExclusiveHolds`, `LiveCountHolds`, `SlotsAreBackedHolds`, together
`ClassStorageIsSoundHolds`, `TablesAreFilledHolds`, `TablesAreStableHolds`, `InitAtTableRateHolds`. The invariant has
layers. `Control` says which instance each step of a call works on, that no two calls share one, and that `class_busy`
is a lock. `Ownership` adds why a manager can be replaced at all: whatever is allocated, class storage exists or one
call is making it, and while that call runs the lock refuses the change; so the binding changes only while `blocks` is
empty, and a call's copy of it never gets old. `SlotsInv` adds that the class blocks are stacked without holes, which
is what lets "one more than the number of blocks" name the next table; `TablesInv` ties the published rate to the
content of the tables, and `LiveInv` counts. Assumptions: the null values are no managers, instances or rates, the
class is no instance, an instance has at least one zone.

**ForeignFunctionsProofs.** `TypeCorrect`, `CallsAreLinkedHolds` for any host, `KeyNamesCodeHolds`, together
`CachedCodeIsLinkedHolds`, and `DisciplinedCompilesAnewHolds` under discipline. The strengthening is about the creations
under way: the copy has every called function from the moment it is taken, and under discipline both copies equal the
registry.

**HostsProofs.** Five of the six properties of the run `hosts`, each from the inductive invariant of its component,
under `HostsAssumption` and the assumption of the cache.

* `BindingsAreSafeHolds`, for every number of threads, handles, inners and Dsps. The steps of the bindings are steps of
  the cache (`BindingsUseTheCache`), so what is proved of the cache holds under them, and they are the disciplined host
  that `HostDisciplineSuffices` asks for: `SafeRustIsDisciplined` turns an assumption about C hosts into a theorem about
  safe Rust, that every instance is destroyed before its factory. The invariant adds to that of the cache which steps
  of a call are under the `LIFECYCLE` mutex, that what a thread builds or destroys in the cache it does there, that
  the references of the cache are those of the inners, and that an inner being deleted has no `Arc` left and one
  deleter; that one optimisation excludes readers rests on a program being optimised before its first instance.
* `ErrorChannelTellsTheLastFailureHolds`. What is attached was attached since the last report, and while a call is
  failing it is that failure's own; the action properties follow from these.
* `HandlesKeepTheirTreeHolds`. Hash-consing is the argument: a node refers to nodes and controls made before it, so
  that two nodes that spell one tree are one node, by well-founded induction over the arena; lemmas give the recursive
  function that spells trees its meaning, and show that interning more changes no tree spelled before.
* `ReleasedAsAllocatedHolds`. A block is owned by the host, by the call that allocated it, or by the call that looked it
  up to free it, and by one of them only; the registry speaks of blocks the host owns. So an address that comes back
  comes back as its new block.
* `VoicesFollowTheirNotesHolds`. The invariant bounds the note-offs to come by the notes given so far; that no note is
  stuck compares two counts, the voices that play or have queued a pitch and its note-offs to come, voice by voice.

**FrontEndProofs.** Four of the six properties of the run `frontend`.

* `IsTheFullIterationHolds`: on every graph of nodes, with any rules for the operations, each pass of the incremental
  solver is the pass of the full iteration, in every field and every age. The invariant says that the memo is what
  inference would give (`MemoIsFresh`) and that a skipped group would be given its own approximation
  (`SkippedGroupsAreStable`). Three facts carry it: types are determined by those of lower nodes, so a memo of right
  types changes nothing; the set climbed from the changed groups is closed under parents after as many rounds as
  there are nodes, because subsets that grow at each round stop growing by then, and what is outside it keeps its type;
  and a type joined and widened a second time changes nothing.
* `PassesWidenHolds`: with any rules, no pass takes back a bound or a qualifier, one that is followed by another moves
  or adds one, and the last leaves approximations that hold what the bodies computed from those the pass read, up to
  the greatest numbers. The merge joins the intervals and only one of the qualifiers, so that no other is lost is not
  seen from it: the invariant adds that an approximation has only qualifiers its body has (`QualifiersAreInferred`),
  which rests on every rule passing more on when its operands have more (`QualifiersAssumption`).
* `TypesAreSolvedHolds`: the memo and the skipped groups are right and a bound moves at most once. The invariant ties
  the age of a bound to where it is, so that a body which reaches an infinity moves nothing any more. What is assumed
  of the constants is in `RecursiveTypes`: children are interned before parents, and the rules give an interval for
  intervals and qualifiers for qualifiers, more for more; TLC evaluates it on the rules of the run.
* `EachImportIsExpandedOnce`: all of `ImportsAreExpandedOnce`, for every finite set of sources, with environments one deep, and all they import. The
  sets it speaks of are closures, those of every set closed under imports, so that it says "reached" of any program
  without building paths. That a list holds all it reaches is seen only when the list ends, and each step of a list
  below it has a part in that; so `ImportsInv` says meanwhile that the stack is a path of lists, each of which has
  treated what it passed (`FramesInv`); that the lists of one scope hold different sources, and together those the
  scope has (`DisjointInv`, `ScopesInv`), which makes "skipped as repeated" mean "already in one of the lists that the
  outer list will receive"; that a source of a scope which is no longer being expanded has all its imports in the
  scope, and a used source which is no longer active all its imports used and, without redirects, no cycle through it
  (`UsedInv`); that the edges are the imports between neighbours of `active`, so that cutting them at the repeated
  source gives a cycle (`ActiveInv`); and that the cache answers for what was fetched and for every open source, so
  that reading the current source again fetches nothing (`CacheInv`). Environments are where the scopes matter: what
  an environment imports is in no outer scope on its account, yet counts as used. The assumptions are
  `LocatorsAssumption` and `WorldsAssumption` of `ImportExpander`, described in section 2; with them the stack is never
  deeper than twice the number of locators (`TypeOK`).

**ScheduleDfsProofs.** `KeepsContractHolds`: validation and the depth-first walk implement the contract on every
finite graph; `PeelingIsExactHolds`, `VisitedIsScheduledHolds`, `TypeCorrect`, together `WalkIsSoundHolds`. The invariant
says that the stack is a path, that a visited node is on it or scheduled, that what a frame has looked at is scheduled
or is the next frame, and that peeled nodes determine the pending counts. Two arguments use the peeling: a dependency
met on the stack would close a set of nodes each waiting for another, and so would a set of nodes used only by each
other, so the roots reach everything.

**DelayLineProofs.** `ImplementsIdealDelayHolds`, `SlotsAreApartHolds`, `TypeCorrect` for every delay, strategy
and cursor width under `DelayAssumption`. The argument is about slots: amounts 0 to `delay` address different slots,
and advancing the cursor makes amount k address what amount k − 1 did; for the circular line because its size
divides the range of the cursor. `DelayAssumption` bounds an `ifWrapping` line by 2^30 slots; no line of code does.

**LoweringProofs.** Five of the seven properties of the run `lowering`, each from the inductive invariant of its pass.

* `EffectsOrdered`: for every graph with a baseline order, every set of resources and every choice of effects,
  conflicting nodes end up ordered as in the baseline (`ConflictsAreOrdered`), the baseline stays a schedule, so no edge
  closes a cycle (`NoCycleIsClosed`), and an added edge joins nodes of one resource or a barrier and an effect
  (`OnlyConflictsAdded`). That edges between adjacent pairs order distant ones is the point: the invariant relates the
  last node of the chain and the nodes since it to everything the chain has passed, and states order by sets closed
  under dependencies, since no path is ever built.
* `GraphsAreOrdered`: on every forest clock inference accepts, reads from any domain around included, whatever order
  the walk visits children in. The edges of a signal come after its visit has begun, and the visits of other signals
  run in between, so the invariant says of each signal it has met that what it needs is ready, or that a call still on
  the stack is to return and see to it; that the stack and the domain table agree; and that a wrapper is registered
  for its domain from its first visit on, so that the graph of a domain is known before any signal of it is met.
  `WellClocked` is what clock inference has established of a forest (`clk_env/mod.rs:415-522`). What it does not give
  is set apart in the property: a value read from two or more levels out is noted with the innermost block only.
* `PlanIsServed`: for every graph of signals and every nesting of clock contexts. Whatever the memo, the lines and the
  carriers hold is asked for along some path; and what a visited node asks of its operands is in the memo, at least as
  long, or a visit still to come will bring it. The second is needed because the memo cuts a walk whose operands may
  not have been visited yet with that delay. Once no visit is to come, the memo bounds every path: a path it does not
  bound would have a first node, and the operand of a bounded node is bounded. The chain of one-sample delays and
  annotations below a delay is itself a path, from which the length of the merged carrier follows.
* `CarriersAreExact`: for any group of recursions and any set of delayed reads, every read is in bounds and, but for
  the first value of a `prefix` and an amount of zero on a scalar, of the sample it asks for. Each carrier holds, slot
  by slot, the sample its strategy promises there before and after the body pass; the longest read of an output bounds
  every read, which puts it in bounds. The slots of a circular carrier are apart by the argument of `DelayLineProofs`,
  here over a cursor that does not wrap.
* `BlocksAreExact`: for any tree of domains, any shapes and any lines. The regions being run are a path of the tree,
  and a line holds what its region wrote 1, 2, ... firings ago whether the region is being run or not; the firings of a
  downsampler, times its factor, are the ticks of its parent up to what the counter still has to count; a value the
  flag says is computed is that of this call, and a hold is what the hoisted program holds, except between a store
  moved to the head of a firing and the end of that firing.

The assumptions are in the modules: no circular line or carrier is longer than a power of two that is an i32, which
`pow2limit_for_delay` reports otherwise. `LoweringInvariance` is about `LoweringSpec`, of which the run explores the
parts beside two more.

**Only model-checked.** The liveness properties, which need fairness and ENABLED. `Scheduling`, `TableGenerator`, the
bytecode modules, `PatternMatcher` and `ClockEnvironments`, whose definitions recurse over the data. `PolyRender`, whose
list of events is sorted by folds over sequences. The three refutations.

## 6. Not modelled

* Evaluation beyond the pattern matcher, propagation, normalisation, the typing rules of single operations, vector
  lowering, FIR passes and the printers: single-threaded rewriting of trees, whose correctness is about large data;
  TLC could only replay examples. The grammar and diagnostics of the parser likewise.
* Inside modelled files: argument and string conversion, read-only accessors, `compute` and the user-interface walk
  of an instance (bytes no other thread may touch), the JIT itself, `Switch`, sound files, block stores and audio
  inputs and outputs of the interpreter, control writes of the probe's schedule, reverse-time recursions. The notes of the components
  in `PROJECT.json` name what each leaves out.
* Schedule certificates repeat `verify_schedule` over a snapshot of the graph and its hash; the WebAssembly
  registries are maps behind a mutex held for whole calls. Their own checks are equality of data.
* Two hazards have no property: without `-mem0` every `init` rewrites shared tables (no property that holds can cover
  it), and a creation from a file reads the file once to compile it and once more for its key.
* The host side of the API beyond the discipline stated above.

## 7. Plan

Done, in this order: `FactoryCache`, `Mem0Factory`, `ForeignFunctions` (the concurrent core), `SchedulerContract`,
`ScheduleDfs`, `Scheduling`, `IdealDelay`, `DelayLine` (the algorithmic core) and their proofs; then the rest of the host
side (`CompleteError`, `RustBindings`, `TreeHandles`, `HostMemory`, `VoiceAllocation`, `PolyRender`), the lowering
(`HierarchicalGraph`, `EffectOrientation` with its proofs, `DelayPlan`, `RecursionCarriers`, `ClockedBlocks`,
`TableGenerator`, the bytecode modules) and the front end (`ImportExpander`, `PatternMatcher`, `ClockEnvironments`,
`RecursiveTypes`).

Then `Hosts`, `Lowering` and `FrontEnd`, with the proofs of their parts.

Next, modules: the two reads of a source file in `createCCraneliftDSPFactoryFromFile`, as `ForeignFunctions` has the two
reads of the registry; the vector pipeline's loops over the scheduled graphs.
