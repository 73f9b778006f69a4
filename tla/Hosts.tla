--------------------------------- MODULE Hosts ---------------------------------
(* What hosts drive from outside the compiler: the safe Rust bindings over    *)
(* the factory cache, the error channel, the tree handles, the memory the C   *)
(* APIs hand out, and the voices of the polyphonic probe.  The components     *)
(* share no state, so one specification explores them side by side: `part'    *)
(* says which one a behaviour is about, and the variables of the others stay  *)
(* Off, those of the bindings, which this module extends, in their initial    *)
(* state.                                                                     *)
EXTENDS RustBindings

CONSTANTS
    Failures, ArgumentErrors, Summaries, Summary, Quotes,   \* CompleteError
    Rendered, Typed,
    Users, Leaves, Labels, MaxNodes, MaxLives, MaxHeld,     \* TreeHandles
    FreeingThreads, Addresses, Lengths,                     \* HostMemory
    NVoices, Pitches, MaxNotes,                             \* VoiceAllocation
    RenderVoices, ArgLists, NeverOff, Frames, Block,        \* PolyRender
    Off                                                     \* of a variable at rest

VARIABLES
    part,
    attached, message, details, report, failing, told, since,       \* errors
    arena, treeHandles, controls, life, treeHeld,                   \* trees
    heap, registry, host, call, misfreed,                           \* memory
    voices, clock, due,                                             \* voices
    args, written, applied                                          \* render

errorVars == <<attached, message, details, report, failing, told, since>>
treeVars == <<arena, treeHandles, controls, life, treeHeld>>
memoryVars == <<heap, registry, host, call, misfreed>>
voiceVars == <<voices, clock, due>>
scheduleVars == <<args, written, applied>>
hostsVars ==
    <<part, bindingVars, errorVars, treeVars, memoryVars, voiceVars, scheduleVars>>

Errors == INSTANCE CompleteError WITH None <- Off

Trees == INSTANCE TreeHandles WITH handles <- treeHandles, held <- treeHeld

Memory == INSTANCE HostMemory WITH Threads <- FreeingThreads

Voices == INSTANCE VoiceAllocation

Render == INSTANCE PolyRender WITH NVoices <- RenderVoices

ASSUME HostsAssumption ==
    /\ Errors!ErrorsAssumption /\ Trees!HandlesAssumption /\ Memory!MemoryAssumption
    /\ Voices!VoicesAssumption /\ Render!VoicesAssumption /\ Render!RenderAssumption

-----------------------------------------------------------------------------
ErrorsOff ==
    /\ attached = Off /\ message = Off /\ details = Off /\ report = Off
    /\ failing = Off /\ told = Off /\ since = Off

TreesOff ==
    /\ arena = Off /\ treeHandles = Off /\ controls = Off /\ life = Off /\ treeHeld = Off

MemoryOff ==
    /\ heap = Off /\ registry = Off /\ host = Off /\ call = Off /\ misfreed = Off

VoicesOff == voices = Off /\ clock = Off /\ due = Off

ScheduleOff == args = Off /\ written = Off /\ applied = Off

HostsInit ==
    /\ BindingsInit
    /\ \/ part = "bindings" /\ ErrorsOff /\ TreesOff /\ MemoryOff /\ VoicesOff /\ ScheduleOff
       \/ part = "errors" /\ Errors!Init /\ TreesOff /\ MemoryOff /\ VoicesOff /\ ScheduleOff
       \/ part = "trees" /\ Trees!Init /\ ErrorsOff /\ MemoryOff /\ VoicesOff /\ ScheduleOff
       \/ part = "memory" /\ Memory!Init /\ ErrorsOff /\ TreesOff /\ VoicesOff /\ ScheduleOff
       \/ part = "voices" /\ Voices!Init /\ ErrorsOff /\ TreesOff /\ MemoryOff /\ ScheduleOff
       \/ part = "render" /\ Render!RenderInit /\ ErrorsOff /\ TreesOff /\ MemoryOff

HostsNext ==
    \/ /\ part = "bindings" /\ BindingsNext
       /\ UNCHANGED <<part, errorVars, treeVars, memoryVars, voiceVars, scheduleVars>>
    \/ /\ part = "errors" /\ Errors!Next
       /\ UNCHANGED <<part, bindingVars, treeVars, memoryVars, voiceVars, scheduleVars>>
    \/ /\ part = "trees" /\ Trees!Next
       /\ UNCHANGED <<part, bindingVars, errorVars, memoryVars, voiceVars, scheduleVars>>
    \/ /\ part = "memory" /\ Memory!Next
       /\ UNCHANGED <<part, bindingVars, errorVars, treeVars, voiceVars, scheduleVars>>
    \/ /\ part = "voices" /\ Voices!Next
       /\ UNCHANGED <<part, bindingVars, errorVars, treeVars, memoryVars, scheduleVars>>
    \/ /\ part = "render" /\ Render!RenderNext
       /\ UNCHANGED <<part, bindingVars, errorVars, treeVars, memoryVars>>

HostsSpec == HostsInit /\ [][HostsNext]_hostsVars

-----------------------------------------------------------------------------
(* The getters of a thread describe its last call that failed, whatever it    *)
(* recovered from before; an error that is no failure carries diagnostics     *)
(* only if its own message holds the summary they were attached under; what a *)
(* report publishes was attached since the report before it; and the calls of *)
(* other threads leave what a thread reads alone.                             *)
ErrorChannelTellsTheLastFailure ==
    /\ [](part = "errors" =>
             Errors!TypeOK /\ Errors!HostReadsItsLastFailure /\ Errors!NoStrayDiagnostics)
    /\ [][part = "errors" =>
             Errors!AttachedForOneReport /\ Errors!PointersOutliveOtherThreads]_hostsVars

(* Within a life of the context a handle decodes to the tree its holder built *)
(* or matched, whatever other users intern, and one tree has one handle.      *)
HandlesKeepTheirTree ==
    part = "trees" => Trees!TypeOK /\ Trees!HandlesKeepTheirTree /\ Trees!OneHandlePerTree

(* What the C APIs hand out is released as what it was allocated as, an array *)
(* with its own length, whichever thread frees it and whatever the heap gave  *)
(* its address to in between.                                                 *)
ReleasedAsAllocated ==
    part = "memory" =>
        /\ Memory!TypeOK
        /\ Memory!ReleasedAsAllocated
        /\ Memory!RegistryIsOfLiveArrays

(* However notes of one pitch overlap, are stolen, queued and cancelled, no   *)
(* more voices play a pitch than it has note-offs to come; the gate and the   *)
(* frequency of each instance follow the bookkeeping; and a note is cut only  *)
(* by its note-off, or stolen when every voice plays.                         *)
VoicesFollowTheirNotes ==
    /\ [](part = "voices" => Voices!TypeOK /\ Voices!NoStuckNotes /\ Voices!GateFollowsNote)
    /\ [][part = "voices" => Voices!HeldNotesSound]_hostsVars

(* `Events are sample-exact': every event of a render is applied at its own   *)
(* frame, and with the events of a frame applied the voices playing a pitch   *)
(* are at most the notes of it that are held; no block is empty.              *)
EventsAreSampleExact ==
    /\ [](part = "render" =>
             Render!RenderTypeOK /\ Render!BlocksAdvance /\ Render!OnlyHeldNotesSound)
    /\ [][part = "render" => Render!NoEventIsCrossed]_hostsVars

=============================================================================
