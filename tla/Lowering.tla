------------------------------- MODULE Lowering -------------------------------
(* The passes between the prepared signals and the statements of a sample:    *)
(* the orientation of effects, the hierarchical graph, the delay plan, the    *)
(* carriers of recursions and the sample loop of clocked blocks.  Each works  *)
(* on programs of its own, so one specification explores them side by side:   *)
(* `part' says which one a behaviour is about, and the variables of the       *)
(* others stay Off, those of the orientation, which this module extends, on a *)
(* graph without edges.                                                       *)
EXTENDS EffectOrientation

CONSTANTS
    Sigs, GraphDomains, Forests, Nil,                                 \* hgraph
    PlanNodes, SignalGraphs, NoContext, ParentContext, PlanCopyDelay, \* plan
    Arities, DelayedReads, MaxReads, CarrierCopyDelay, LastSample,    \* carriers
    BlockDomains, SampleLoop, Lines, MaxDelay, ClockedPrograms,       \* clocked
    MaxClock, MaxSamples, MaxCalls,
    Off                                                     \* of a variable at rest

VARIABLES
    part,
    hprog, keyOf, owned, edges, hstack, outputsLeft,            \* hgraph
    graph, visits, best, lines, outputs, outcome,               \* plan
    arity, reads, iota, region, carrier, current,               \* carriers
    cprog, stack, buf, cursor, counter, dsCounter, perm, slowVar, slowDone,
    inCall, calls, samples, fired, held, computed               \* clocked

effectVars == <<prog, position, deps, todo, group, pending, last, since, phase>>
hgraphVars == <<hprog, keyOf, owned, edges, hstack, outputsLeft>>
planVars == <<graph, visits, best, lines, outputs, outcome>>
carrierVars == <<arity, reads, iota, region, carrier, current>>
clockedVars ==
    <<cprog, stack, buf, cursor, counter, dsCounter, perm, slowVar, slowDone,
      inCall, calls, samples, fired, held, computed>>
loweringVars == <<part, effectVars, hgraphVars, planVars, carrierVars, clockedVars>>

Hierarchy == INSTANCE HierarchicalGraph WITH
    Domains <- GraphDomains, Programs <- Forests,
    prog <- hprog, stack <- hstack, todo <- outputsLeft

Plan == INSTANCE DelayPlan WITH
    Nodes <- PlanNodes, Programs <- SignalGraphs, Top <- NoContext, Parent <- ParentContext,
    MaxCopyDelay <- PlanCopyDelay, prog <- graph, todo <- visits

Carriers == INSTANCE RecursionCarriers WITH
    Reads <- DelayedReads, MaxCopyDelay <- CarrierCopyDelay

Clocked == INSTANCE ClockedBlocks WITH
    Domains <- BlockDomains, Top <- SampleLoop, Programs <- ClockedPrograms, None <- Off,
    prog <- cprog, iota <- cursor

ASSUME LoweringAssumption ==
    /\ Hierarchy!HierarchyAssumption /\ Plan!ProgramsAssumption
    /\ Carriers!CarriersAssumption /\ Clocked!ProgramsAssumption

-----------------------------------------------------------------------------
EffectsRest ==
    /\ prog = [data |-> [n \in Nodes |-> {}], reads |-> [n \in Nodes |-> {}],
               writes |-> [n \in Nodes |-> {}], barriers |-> {}]
    /\ position = [n \in Nodes |-> 0] /\ deps = [n \in Nodes |-> {}]
    /\ todo = {} /\ group = Nothing /\ pending = {} /\ last = Nothing
    /\ since = {} /\ phase = "done"

HierarchyOff ==
    /\ hprog = Off /\ keyOf = Off /\ owned = Off /\ edges = Off /\ hstack = Off
    /\ outputsLeft = Off

PlanOff ==
    /\ graph = Off /\ visits = Off /\ best = Off /\ lines = Off /\ outputs = Off
    /\ outcome = Off

CarriersOff ==
    /\ arity = Off /\ reads = Off /\ iota = Off /\ region = Off /\ carrier = Off
    /\ current = Off

ClockedOff ==
    /\ cprog = Off /\ stack = Off /\ buf = Off /\ cursor = Off /\ counter = Off
    /\ dsCounter = Off /\ perm = Off /\ slowVar = Off /\ slowDone = Off /\ inCall = Off
    /\ calls = Off /\ samples = Off /\ fired = Off /\ held = Off /\ computed = Off

LoweringInit ==
    \/ part = "effects" /\ Init /\ HierarchyOff /\ PlanOff /\ CarriersOff /\ ClockedOff
    \/ part = "hgraph" /\ Hierarchy!Init /\ EffectsRest /\ PlanOff /\ CarriersOff /\ ClockedOff
    \/ part = "plan" /\ Plan!Init /\ EffectsRest /\ HierarchyOff /\ CarriersOff /\ ClockedOff
    \/ part = "carriers" /\ Carriers!Init /\ EffectsRest /\ HierarchyOff /\ PlanOff /\ ClockedOff
    \/ part = "clocked" /\ Clocked!Init /\ EffectsRest /\ HierarchyOff /\ PlanOff /\ CarriersOff

LoweringNext ==
    \/ /\ part = "effects" /\ Next
       /\ UNCHANGED <<part, hgraphVars, planVars, carrierVars, clockedVars>>
    \/ /\ part = "hgraph" /\ Hierarchy!Next
       /\ UNCHANGED <<part, effectVars, planVars, carrierVars, clockedVars>>
    \/ /\ part = "plan" /\ Plan!Next
       /\ UNCHANGED <<part, effectVars, hgraphVars, carrierVars, clockedVars>>
    \/ /\ part = "carriers" /\ Carriers!Next
       /\ UNCHANGED <<part, effectVars, hgraphVars, planVars, clockedVars>>
    \/ /\ part = "clocked" /\ Clocked!Next
       /\ UNCHANGED <<part, effectVars, hgraphVars, planVars, carrierVars>>

LoweringSpec == LoweringInit /\ [][LoweringNext]_loweringVars

-----------------------------------------------------------------------------
(* Whichever path of the walk reaches a signal first, it is owned by the      *)
(* graph of its own domain; a value needed in a sample is a control value or  *)
(* ordered, in the graph that owns it, before its reader or the block the     *)
(* reader runs in, a value from two levels out apart, which is only noted     *)
(* with the innermost block; and every such edge stands for a need.           *)
GraphsOrderWhatIsNeeded ==
    part = "hgraph" =>
        /\ Hierarchy!TypeOK
        /\ Hierarchy!PlacedInItsDomain
        /\ Hierarchy!NeededIsReady
        /\ Hierarchy!EdgesAreNeeds

(* Every delay the lowering will look up, in every clock context it lowers it *)
(* in, finds a line or a carrier as long as it needs; the memoised walk gives *)
(* the maxima over all paths, and refuses just the delays without a bound.    *)
PlanServesEveryRead ==
    part = "plan" =>
        /\ Plan!TypeOK
        /\ Plan!EveryReadIsServed
        /\ Plan!PlanIsThePathMaxima
        /\ Plan!RefusesUnbounded

(* Every delayed read of a recursion is in bounds and returns the sample it   *)
(* asks for, on either side of the body pass and whichever carrier the reads  *)
(* of the program together led to; an undelayed one returns this sample's     *)
(* value.  Two cases where the code does otherwise are apart: the first       *)
(* sample of a prefix, and an amount of zero on a scalar carrier.             *)
CarriersReadThePast ==
    part = "carriers" =>
        Carriers!TypeOK /\ Carriers!ReadsAreExact /\ Carriers!ProjectionsAreCurrent

(* However blocks nest and fire, each line is the ideal delay in the firings  *)
(* of its own region, a downsampler keeps its phase, and computing block-rate *)
(* values at the first firing of a call shows nowhere.                        *)
BlocksFireAsWritten ==
    part = "clocked" =>
        /\ Clocked!TypeOK
        /\ Clocked!LinesDelayByFirings
        /\ Clocked!DownsamplersKeepPhase
        /\ Clocked!HoldsAreAsHoisted
        /\ Clocked!SlowValueOncePerCall

=============================================================================
