-------------------------- MODULE EffectOrientation --------------------------
(***************************************************************************)
(* orient_effect_conflicts of the hierarchical graph: before a scheduling  *)
(* strategy runs, the nodes of one graph that touch the same resource are  *)
(* chained in the order of the depth-first baseline, adjacent pairs only   *)
(* and only when the graph does not order them already; foreign calls are  *)
(* barriers among all of them.                                             *)
(*                                                                         *)
(* One step handles one node of one chain, in baseline order.  deps are    *)
(* the immediate edges inside the graph, from a node to what it needs; the *)
(* delayed and foreign edges no schedule looks at are left out, as are     *)
(* pure foreign calls, which no declaration states yet.                    *)
(***************************************************************************)
EXTENDS Integers

CONSTANTS
    Nodes,       \* the signals of the graph
    Resources,   \* states, tables, controls and outputs an effect touches
    Programs,    \* [data, reads, writes, barriers]: edges and direct effects
    Baselines,   \* positions in a depth-first schedule
    Ranks,       \* schedules: the rank a strategy gives every node
    Nothing      \* no node, no resource

Program == [data : [Nodes -> SUBSET Nodes],
            reads : [Nodes -> SUBSET Resources],
            writes : [Nodes -> SUBSET Resources],
            barriers : SUBSET Nodes]

ASSUME OrientationAssumption ==
    /\ Nothing \notin Nodes /\ Nothing \notin Resources
    /\ Programs \subseteq Program
    /\ Baselines \subseteq [Nodes -> Int]
    /\ Ranks \subseteq [Nodes -> Int]

VARIABLES
    prog,      \* the graph and the effects of its nodes
    position,  \* the baseline
    deps,      \* the immediate edges, those added included
    todo,      \* groups not chained yet
    group,     \* the resource whose chain is being laid, or Nothing
    pending,   \* nodes of the chain still to come
    last,      \* the node of the group, or the barrier, before them
    since,     \* effect nodes since the last barrier
    phase      \* "groups", "barriers", "done"

vars == <<prog, position, deps, todo, group, pending, last, since, phase>>

Touches(n, k) == k \in prog.reads[n] \cup prog.writes[n]
Group(k) == {n \in Nodes : Touches(n, k)}
Effects == {n \in Nodes : prog.reads[n] \cup prog.writes[n] # {}} \cup prog.barriers

\* a schedule that honours the edges of the graph
Respects(f, edges) == \A n \in Nodes : \A d \in edges[n] : f[d] < f[n]

\* dependency_reachable: b is among what a needs, directly or not
Reachable(a, b) ==
    \A S \in SUBSET Nodes :
        (deps[a] \subseteq S /\ \A n \in S : deps[n] \subseteq S) => b \in S

First(n) == n \in pending /\ \A m \in pending : position[n] <= position[m]

With(n, needs) == [deps EXCEPT ![n] = @ \cup needs]

\* Mutant of Oriented: the edge goes from the earlier node to the later one.
OrientedBackwards(n) ==
    IF last = Nothing \/ Reachable(n, last) \/ Reachable(last, n) THEN deps
    ELSE With(last, {n})

\* add_baseline_edge, of the adjacent pair last, n
Oriented(n) ==
    IF last = Nothing \/ Reachable(n, last) \/ Reachable(last, n) THEN deps
    ELSE With(n, {last})

Init ==
    /\ prog \in Programs /\ position \in Baselines
    /\ Respects(position, prog.data)
    /\ \A m, n \in Nodes : position[m] = position[n] => m = n
    /\ deps = prog.data
    /\ todo = Resources /\ group = Nothing /\ pending = {} /\ last = Nothing
    /\ since = {} /\ phase = "groups"

StartGroup(k) ==
    /\ phase = "groups" /\ group = Nothing /\ k \in todo
    /\ group' = k /\ pending' = Group(k) /\ last' = Nothing
    /\ UNCHANGED <<prog, position, deps, todo, since, phase>>

ChainNode(n) ==
    /\ phase = "groups" /\ group # Nothing /\ First(n)
    /\ deps' = Oriented(n)
    /\ last' = n /\ pending' = pending \ {n}
    /\ UNCHANGED <<prog, position, todo, group, since, phase>>

EndGroup ==
    /\ phase = "groups" /\ group # Nothing /\ pending = {}
    /\ todo' = todo \ {group} /\ group' = Nothing /\ last' = Nothing
    /\ UNCHANGED <<prog, position, deps, pending, since, phase>>

\* Mutant of BarrierNodes: a barrier is ordered against every node.
BarrierNodesAll == IF prog.barriers = {} THEN {} ELSE Nodes

BarrierNodes == IF prog.barriers = {} THEN {} ELSE Effects

StartBarriers ==
    /\ phase = "groups" /\ group = Nothing /\ todo = {}
    /\ phase' = "barriers" /\ pending' = BarrierNodes
    /\ UNCHANGED <<prog, position, deps, todo, group, last, since>>

\* Mutant of Needs: a barrier waits for the nodes since the last one or for none.
NeedsSince(n) ==
    IF n \in prog.barriers THEN since
    ELSE IF last = Nothing THEN {} ELSE {last}

\* what a node must wait for: a barrier for the nodes since the barrier before
\* it, or that one when there is none between; another node for the barrier
Needs(n) ==
    IF n \in prog.barriers /\ since # {} THEN since
    ELSE IF last = Nothing THEN {} ELSE {last}

PassNode(n) ==
    /\ phase = "barriers" /\ First(n)
    /\ deps' = With(n, Needs(n))
    /\ pending' = pending \ {n}
    /\ IF n \in prog.barriers THEN last' = n /\ since' = {}
                              ELSE last' = last /\ since' = since \cup {n}
    /\ UNCHANGED <<prog, position, todo, group, phase>>

Finish ==
    /\ phase = "barriers" /\ pending = {}
    /\ phase' = "done"
    /\ UNCHANGED <<prog, position, deps, todo, group, pending, last, since>>

Next == \/ \E k \in Resources : StartGroup(k)
        \/ \E n \in Nodes : ChainNode(n)
        \/ EndGroup
        \/ StartBarriers
        \/ \E n \in Nodes : PassNode(n)
        \/ Finish

Spec == Init /\ [][Next]_vars

-----------------------------------------------------------------------------
\* The state is well formed.
TypeOK ==
    /\ prog \in Program /\ position \in [Nodes -> Int]
    /\ deps \in [Nodes -> SUBSET Nodes]
    /\ todo \in SUBSET Resources /\ group \in todo \cup {Nothing}
    /\ pending \in SUBSET Nodes /\ since \in SUBSET Nodes
    /\ last \in Nodes \cup {Nothing}
    /\ phase \in {"groups", "barriers", "done"}

\* m comes before n in every schedule the graph allows.
Forced(m, n) == \A f \in Ranks : Respects(f, deps) => f[m] < f[n]

Conflict(m, n) ==
    \/ \E k \in Resources : \/ k \in prog.writes[m] /\ Touches(n, k)
                            \/ k \in prog.writes[n] /\ Touches(m, k)
    \/ m \in prog.barriers /\ n \in Effects
    \/ n \in prog.barriers /\ m \in Effects

\* Whatever strategy serialises the oriented graph, two nodes whose effects
\* conflict run in the order of the depth-first baseline: adjacent edges, skipped
\* where the graph has a path, and barriers chained one to the next are enough.
ConflictsKeepBaseline ==
    phase = "done" =>
        \A m, n \in Nodes : Conflict(m, n) /\ position[m] < position[n] => Forced(m, n)

\* The baseline stays a schedule of the graph at every step, so no edge, not even
\* one added without a look at the paths, closes a cycle.
BaselineStaysASchedule == Respects(position, deps)

\* An added edge joins nodes of one resource, or a barrier and an effect: work that
\* commutes is left for the strategies to move.
OnlyConflictsAreOrdered ==
    \A n \in Nodes : \A d \in deps[n] \ prog.data[n] :
        (\E k \in Resources : Touches(n, k) /\ Touches(d, k))
            \/ ({n, d} \subseteq Effects /\ {n, d} \cap prog.barriers # {})

\* What the pass promises the strategies: conflicting effects keep the order of the
\* baseline, whose place as a schedule no edge takes away, and nothing else is
\* ordered.
EffectsAreOrdered ==
    TypeOK /\ ConflictsKeepBaseline /\ BaselineStaysASchedule /\ OnlyConflictsAreOrdered
=============================================================================
