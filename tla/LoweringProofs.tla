----------------------------- MODULE LoweringProofs -----------------------------
(***************************************************************************)
(* The passes between the prepared signals and the statements of a sample, *)
(* for every program.                                                      *)
(*                                                                         *)
(* Effects.  Schedules are ranks, and an order is forced when every rank   *)
(* that honours the edges has it: forced orders survive the edges added    *)
(* later and compose, so the adjacent pairs of a chain order the whole     *)
(* chain.  A path of the graph forces an order because the nodes ranked    *)
(* below its start are closed under edges; the paths against the baseline, *)
(* which would leave a pair in the wrong order, cannot exist for the same  *)
(* reason.                                                                 *)
(*                                                                         *)
(* Delay plan.  What the memo says is of some path, and what a node asks   *)
(* of its operands the memo has or a visit to come will bring; when none   *)
(* is to come, the memo bounds every path, and a chain under a delay adds  *)
(* to a path what its end is read with.                                    *)
(*                                                                         *)
(* Carriers.  Between two steps each slot of a carrier holds the sample    *)
(* its strategy promises; the longest read of an output bounds them all.   *)
(*                                                                         *)
(* Clocked blocks.  The open regions are a path of the tree of blocks; a   *)
(* line keeps its past whether its region is open or not, a downsampler    *)
(* the ticks it has still to count, and a hold the value it would have.    *)
(*                                                                         *)
(* Hierarchy.  A domain is known by the wrapper that was visited first; a  *)
(* need is ready, or a call of the visit is still to return that sees to   *)
(* it.                                                                     *)
(***************************************************************************)
EXTENDS Lowering, Sequences, FiniteSets, FiniteSetTheorems, NaturalsInduction,
        SequenceTheorems, WellFoundedInduction, TLAPS

(* The orientation of effects.                                             *)

Chained(S) == \A m, n \in S : position[m] < position[n] => Forced(m, n)

\* the baseline orders all nodes and honours the edges
BaselineInv ==
    /\ \A m, n \in Nodes : position[m] = position[n] => m = n
    /\ Respects(position, deps)

\* the groups behind, and the phases after them
DoneInv ==
    /\ \A k \in Resources \ todo : Chained(Group(k))
    /\ phase # "groups" => todo = {}
    /\ phase = "groups" => since = {}
    /\ phase = "groups" /\ group = Nothing => last = Nothing
    /\ phase = "done" => pending = {}

\* the group whose chain is being laid: last ends the part behind
GroupInv ==
    phase = "groups" /\ group # Nothing =>
        /\ pending \subseteq Group(group)
        /\ \A m \in Group(group) \ pending, n \in pending : position[m] < position[n]
        /\ Chained(Group(group) \ pending)
        /\ last = Nothing => Group(group) \ pending = {}
        /\ last # Nothing =>
               /\ last \in Group(group) \ pending
               /\ \A m \in Group(group) \ pending : position[m] <= position[last]

\* the effects behind the walk of the barriers: last is the last barrier of
\* them, since what came after it
BarrierInv ==
    /\ phase # "groups" => pending \subseteq BarrierNodes
    /\ phase # "groups" /\ prog.barriers # {} =>
        LET behind == Effects \ pending IN
        /\ \A m \in behind, n \in pending : position[m] < position[n]
        /\ \A m, n \in behind : /\ position[m] < position[n]
                                /\ m \in prog.barriers \/ n \in prog.barriers
                                => Forced(m, n)
        /\ last = Nothing => behind \cap prog.barriers = {}
        /\ last # Nothing =>
               /\ last \in behind /\ last \in prog.barriers
               /\ \A b \in behind \cap prog.barriers : position[b] <= position[last]
        /\ since = {m \in behind : /\ m \notin prog.barriers
                                   /\ last # Nothing => position[last] < position[m]}

EffectsInv ==
    /\ TypeOK /\ BaselineInv /\ DoneInv /\ GroupInv /\ BarrierInv
    /\ OnlyConflictsAreOrdered

-----------------------------------------------------------------------------
(* Ranks and paths.                                                        *)

\* What a node needs, directly or not, is ranked below it.
LEMMA PathsAreRanked ==
    ASSUME TypeOK, NEW f \in [Nodes -> Int], Respects(f, deps),
           NEW a \in Nodes, NEW b \in Nodes, Reachable(a, b)
    PROVE  f[b] < f[a]
<1> DEFINE S == {x \in Nodes : f[x] < f[a]}
<1>1. S \in SUBSET Nodes
    OBVIOUS
<1>2. deps[a] \subseteq S
    BY DEF TypeOK, Respects
<1>3. ASSUME NEW n \in S, NEW d \in deps[n] PROVE d \in S
    <2>1. d \in Nodes /\ f[d] < f[n] /\ f[n] < f[a]
        BY <1>3 DEF TypeOK, Respects
    <2>2. f[d] \in Int /\ f[n] \in Int /\ f[a] \in Int
        BY <2>1
    <2> QED
        BY <2>1, <2>2
<1>4. b \in S
    BY <1>1, <1>2, <1>3 DEF Reachable
<1> QED
    BY <1>4

\* A path forces the order of its ends.
LEMMA PathsForce ==
    ASSUME TypeOK, NEW a \in Nodes, NEW b \in Nodes, Reachable(a, b)
    PROVE  Forced(b, a)
<1> SUFFICES ASSUME NEW f \in Ranks, Respects(f, deps)
             PROVE  f[b] < f[a]
    BY DEF Forced
<1> QED
    BY PathsAreRanked, OrientationAssumption

\* Orders that the edges of the next state force compose.
LEMMA ForcedComposes ==
    ASSUME NEW a \in Nodes, NEW b \in Nodes, NEW c \in Nodes,
           Forced(a, b)', Forced(b, c)'
    PROVE  Forced(a, c)'
<1> SUFFICES ASSUME NEW f \in Ranks, Respects(f, deps')
             PROVE  f[a] < f[c]
    BY DEF Forced
<1>1. f[a] < f[b] /\ f[b] < f[c]
    BY DEF Forced
<1>2. f[a] \in Int /\ f[b] \in Int /\ f[c] \in Int
    BY OrientationAssumption
<1> QED
    BY <1>1, <1>2

\* An order once forced stays forced when edges are added.
LEMMA ForcedStays ==
    ASSUME NEW a \in Nodes, NEW b \in Nodes, Forced(a, b),
           \A n \in Nodes : deps[n] \subseteq deps'[n]
    PROVE  Forced(a, b)'
<1> SUFFICES ASSUME NEW f \in Ranks, Respects(f, deps')
             PROVE  f[a] < f[b]
    BY DEF Forced
<1>1. Respects(f, deps)
    BY DEF Respects
<1> QED
    BY <1>1 DEF Forced

\* An edge forces its order.
LEMMA EdgeForces ==
    ASSUME NEW a \in Nodes, NEW b \in Nodes, a \in deps'[b]
    PROVE  Forced(a, b)'
    BY DEF Forced, Respects

-----------------------------------------------------------------------------
(* The steps.                                                              *)

\* Orders and chains stay what they are while the edges do.
LEMMA SameEdges ==
    ASSUME deps' = deps, prog' = prog, position' = position
    PROVE  /\ \A m, n \in Nodes : Forced(m, n)' <=> Forced(m, n)
           /\ \A k \in Resources : Group(k)' = Group(k)
           /\ Effects' = Effects /\ BarrierNodes' = BarrierNodes
           /\ BaselineInv => BaselineInv'
           /\ OnlyConflictsAreOrdered => OnlyConflictsAreOrdered'
BY DEF Forced, Respects, Group, Touches, Effects, BarrierNodes, BaselineInv,
       OnlyConflictsAreOrdered

LEMMA EffectsInit == Init => EffectsInv
<1> SUFFICES ASSUME Init PROVE EffectsInv
    OBVIOUS
<1>1. TypeOK
    BY OrientationAssumption DEF Init, TypeOK, Program
<1>2. BaselineInv /\ DoneInv /\ GroupInv /\ BarrierInv
    BY DEF Init, BaselineInv, DoneInv, GroupInv, BarrierInv
<1>3. OnlyConflictsAreOrdered
    BY DEF Init, OnlyConflictsAreOrdered
<1> QED
    BY <1>1, <1>2, <1>3 DEF EffectsInv

LEMMA StartGroupStep ==
    ASSUME EffectsInv, NEW k \in Resources, StartGroup(k)
    PROVE  EffectsInv'
<1> USE DEF EffectsInv, StartGroup
<1>1. TypeOK'
    BY DEF TypeOK, Group
<1>2. BaselineInv' /\ OnlyConflictsAreOrdered'
    BY SameEdges
<1>3. \A j \in Resources : Group(j)' = Group(j) /\ Group(j) \subseteq Nodes
    BY SameEdges DEF Group
<1>4. DoneInv'
    BY <1>3, SameEdges, OrientationAssumption DEF DoneInv, Chained
<1>5. GroupInv'
    BY <1>3 DEF GroupInv, Chained
<1>6. BarrierInv'
    BY DEF BarrierInv
<1> QED
    BY <1>1, <1>2, <1>4, <1>5, <1>6 DEF EffectsInv

LEMMA EndGroupStep ==
    ASSUME EffectsInv, EndGroup
    PROVE  EffectsInv'
<1> USE DEF EffectsInv, EndGroup
<1>1. TypeOK'
    BY DEF TypeOK
<1>2. BaselineInv' /\ OnlyConflictsAreOrdered'
    BY SameEdges
<1>3. \A j \in Resources : Group(j)' = Group(j) /\ Group(j) \subseteq Nodes
    BY SameEdges DEF Group
<1>4. group \in Resources /\ Chained(Group(group))
    <2>1. Group(group) \ pending = Group(group)
        OBVIOUS
    <2> QED
        BY <2>1 DEF GroupInv, TypeOK
<1>5. \A j \in Resources \ todo' : Chained(Group(j))
    BY <1>4 DEF DoneInv
<1>6. DoneInv'
    BY <1>3, <1>5, SameEdges DEF DoneInv, Chained
<1>7. GroupInv' /\ BarrierInv'
    BY DEF GroupInv, BarrierInv
<1> QED
    BY <1>1, <1>2, <1>6, <1>7 DEF EffectsInv

LEMMA StartBarriersStep ==
    ASSUME EffectsInv, StartBarriers
    PROVE  EffectsInv'
<1> USE DEF EffectsInv, StartBarriers
<1>1. TypeOK'
    BY DEF TypeOK, BarrierNodes, Effects, Program
<1>2. BaselineInv' /\ OnlyConflictsAreOrdered'
    BY SameEdges
<1>3. \A j \in Resources : Group(j)' = Group(j) /\ Group(j) \subseteq Nodes
    BY SameEdges DEF Group
<1>4. DoneInv'
    BY <1>3, SameEdges DEF DoneInv, Chained
<1>5. GroupInv'
    BY DEF GroupInv
<1>6. BarrierInv'
    BY SameEdges DEF BarrierInv, BarrierNodes, DoneInv
<1> QED
    BY <1>1, <1>2, <1>4, <1>5, <1>6 DEF EffectsInv

LEMMA FinishStep ==
    ASSUME EffectsInv, Finish
    PROVE  EffectsInv'
<1> USE DEF EffectsInv, Finish
<1>1. TypeOK'
    BY DEF TypeOK
<1>2. BaselineInv' /\ OnlyConflictsAreOrdered'
    BY SameEdges
<1>3. \A j \in Resources : Group(j)' = Group(j) /\ Group(j) \subseteq Nodes
    BY SameEdges DEF Group
<1>4. DoneInv'
    BY <1>3, SameEdges DEF DoneInv, Chained
<1>5. GroupInv'
    BY DEF GroupInv
<1>6. Effects \subseteq Nodes
    BY DEF Effects, TypeOK, Program
<1>7. BarrierInv'
    BY <1>6, SameEdges DEF BarrierInv
<1> QED
    BY <1>1, <1>2, <1>4, <1>5, <1>7 DEF EffectsInv

LEMMA EffectsStutter ==
    ASSUME EffectsInv, UNCHANGED vars
    PROVE  EffectsInv'
<1> USE DEF EffectsInv, vars
<1>1. TypeOK'
    BY DEF TypeOK
<1>2. BaselineInv' /\ OnlyConflictsAreOrdered'
    BY SameEdges
<1>3. \A j \in Resources : Group(j)' = Group(j) /\ Group(j) \subseteq Nodes
    BY SameEdges DEF Group
<1>4. DoneInv'
    BY <1>3, SameEdges DEF DoneInv, Chained
<1>5. GroupInv'
    <2>1. group \in Resources \cup {Nothing}
        BY DEF TypeOK
    <2> QED
        BY <1>3, <2>1, SameEdges DEF GroupInv, Chained
<1>6. Effects \subseteq Nodes
    BY DEF Effects, TypeOK, Program
<1>7. BarrierInv'
    BY <1>6, SameEdges DEF BarrierInv
<1> QED
    BY <1>1, <1>2, <1>4, <1>5, <1>7 DEF EffectsInv

\* An added edge that follows the baseline keeps it a schedule, and the groups
\* already chained stay so.
LEMMA AddedEdges ==
    ASSUME EffectsInv, NEW n \in Nodes, NEW needs \in SUBSET Nodes,
           \A d \in needs : position[d] < position[n],
           deps' = With(n, needs), prog' = prog, position' = position
    PROVE  /\ BaselineInv'
           /\ \A a, b \in Nodes : Forced(a, b) => Forced(a, b)'
           /\ \A d \in needs : Forced(d, n)'
           /\ \A k \in Resources : Group(k)' = Group(k)
           /\ Effects' = Effects /\ BarrierNodes' = BarrierNodes
           /\ \A a \in Nodes : deps'[a] \subseteq deps[a] \cup (IF a = n THEN needs ELSE {})
<1>1. deps \in [Nodes -> SUBSET Nodes]
    BY DEF EffectsInv, TypeOK
<1>2. deps' = [deps EXCEPT ![n] = deps[n] \cup needs]
    BY DEF With
<1>3. \A a \in Nodes : deps'[a] = IF a = n THEN deps[n] \cup needs ELSE deps[a]
    BY <1>1, <1>2
<1>4. BaselineInv'
    BY <1>3 DEF EffectsInv, BaselineInv, Respects
<1>5. \A a, b \in Nodes : Forced(a, b) => Forced(a, b)'
    BY <1>3, ForcedStays
<1>6. \A d \in needs : Forced(d, n)'
    BY <1>3, EdgeForces
<1>7. /\ \A k \in Resources : Group(k)' = Group(k)
      /\ Effects' = Effects /\ BarrierNodes' = BarrierNodes
    BY DEF Group, Touches, Effects, BarrierNodes
<1> QED
    BY <1>3, <1>4, <1>5, <1>6, <1>7

LEMMA ChainNodeStep ==
    ASSUME EffectsInv, NEW n \in Nodes, ChainNode(n)
    PROVE  EffectsInv'
<1> USE DEF EffectsInv, ChainNode
<1> DEFINE behind == Group(group) \ pending
<1>1. /\ group \in Resources /\ group \in todo /\ Group(group) \subseteq Nodes
      /\ n \in pending /\ n \in Group(group) /\ position \in [Nodes -> Int]
    BY DEF TypeOK, First, GroupInv, Group
<1>0. PICK before \in Nodes \cup {Nothing} : before = last
    BY DEF TypeOK
<1>2. PICK needs \in SUBSET Nodes :
          /\ deps' = With(n, needs)
          /\ needs # {} => last # Nothing /\ needs = {last}
          /\ last # Nothing /\ needs = {} => Reachable(n, last)
    <2>1. CASE last = Nothing \/ Reachable(n, last)
        <3>1. deps' = With(n, {})
            BY <2>1 DEF Oriented, With, TypeOK
        <3> QED
            BY <2>1, <3>1
    <2>2. CASE last # Nothing /\ Reachable(last, n)
        <3>1. last \in Nodes /\ position[last] < position[n]
            BY <1>1, <2>2 DEF GroupInv
        <3>2. position[n] < position[last]
            BY <1>1, <2>2, <3>1, PathsAreRanked DEF BaselineInv
        <3> QED
            BY <1>1, <3>1, <3>2
    <2>3. CASE last # Nothing /\ ~Reachable(n, last) /\ ~Reachable(last, n)
        <3>1. deps' = With(n, {last}) /\ last \in Nodes
            BY <2>3 DEF Oriented, TypeOK
        <3> QED
            BY <2>3, <3>1
    <2> QED
        BY <2>1, <2>2, <2>3
<1>3. \A d \in needs : position[d] < position[n]
    BY <1>1, <1>2 DEF GroupInv
<1>4. /\ BaselineInv'
      /\ \A a, b \in Nodes : Forced(a, b) => Forced(a, b)'
      /\ \A d \in needs : Forced(d, n)'
      /\ \A k \in Resources : Group(k)' = Group(k)
      /\ Effects' = Effects /\ BarrierNodes' = BarrierNodes
      /\ \A a \in Nodes : deps'[a] \subseteq deps[a] \cup (IF a = n THEN needs ELSE {})
    BY <1>2, <1>3, AddedEdges
<1>5. TypeOK'
    BY <1>1, <1>2 DEF TypeOK, With
<1>6. OnlyConflictsAreOrdered'
    <2>1. \A d \in needs : Touches(n, group) /\ Touches(d, group)
        BY <1>1, <1>2 DEF GroupInv, Group
    <2>2. prog' = prog /\ \A a \in Nodes, k \in Resources : Touches(a, k)' <=> Touches(a, k)
        BY DEF Touches
    <2> QED
        BY <1>1, <1>4, <2>1, <2>2 DEF OnlyConflictsAreOrdered, TypeOK
<1>7. DoneInv'
    <2>1. \A k \in Resources : Group(k) \subseteq Nodes
        BY DEF Group
    <2>2. \A k \in Resources \ todo' : Chained(Group(k))'
        BY <1>4, <2>1 DEF DoneInv, Chained
    <2> QED
        BY <1>1, <2>2 DEF DoneInv
<1>8. before # Nothing => Forced(before, n)'
    <2>1. CASE before # Nothing /\ needs = {}
        <3>1. before \in Nodes
            BY <2>1
        <3>2. Forced(before, n)
            BY <1>0, <1>2, <2>1, <3>1, PathsForce
        <3> QED
            BY <1>4, <3>1, <3>2
    <2> QED
        BY <1>0, <1>2, <1>4, <2>1
<1>9. \A m \in behind : Forced(m, n)'
    <2> SUFFICES ASSUME NEW m \in behind PROVE Forced(m, n)'
        OBVIOUS
    <2>1. /\ before # Nothing /\ before \in behind /\ m \in Nodes
          /\ position[m] <= position[before]
        BY <1>0, <1>1 DEF GroupInv
    <2>2. CASE m = before
        BY <1>8, <2>1, <2>2
    <2>3. CASE m # before
        <3>1. position[m] < position[before]
            BY <1>1, <2>1, <2>3 DEF BaselineInv
        <3>2. Forced(m, before)
            BY <1>1, <2>1, <3>1 DEF GroupInv, Chained
        <3>3. Forced(m, before)' /\ Forced(before, n)'
            BY <1>1, <1>4, <1>8, <2>1, <3>2
        <3> QED
            BY <1>1, <2>1, <3>3, ForcedComposes
    <2> QED
        BY <2>2, <2>3
<1>10. Group(group)' \ pending' = behind \cup {n} /\ Group(group)' = Group(group)
    BY <1>1, <1>4
<1>11. GroupInv'
    <2>1. \A m \in behind : position[m] < position[n]
        BY <1>1 DEF GroupInv
    <2>2. \A m \in pending' : position[n] < position[m]
        BY <1>1 DEF First, BaselineInv, TypeOK
    <2>3. \A m \in behind \cup {n}, p \in pending' : position[m] < position[p]
        BY <2>2 DEF GroupInv
    <2>4. \A a, b \in behind \cup {n} : position[a] < position[b] => Forced(a, b)'
        <3> SUFFICES ASSUME NEW a \in behind \cup {n}, NEW b \in behind \cup {n},
                            position[a] < position[b]
                     PROVE  Forced(a, b)'
            OBVIOUS
        <3>1. CASE a \in behind /\ b \in behind
            BY <1>1, <1>4, <3>1 DEF GroupInv, Chained
        <3>2. CASE b = n
            BY <1>1, <1>9, <3>2
        <3>3. CASE a = n /\ b \in behind
            BY <1>1, <2>1, <3>3
        <3> QED
            BY <3>1, <3>2, <3>3
    <2>5. \A m \in behind \cup {n} : position[m] <= position[n]
        BY <1>1, <2>1
    <2>6. group' = group /\ pending' \subseteq Group(group) /\ last' = n /\ n \in Nodes
          /\ n # Nothing /\ position' = position
        BY <1>1, OrientationAssumption DEF GroupInv
    <2> QED
        BY <1>10, <2>3, <2>4, <2>5, <2>6 DEF GroupInv, Chained
<1>12. BarrierInv'
    BY DEF BarrierInv
<1> QED
    BY <1>4, <1>5, <1>6, <1>7, <1>11, <1>12 DEF EffectsInv

LEMMA PassNodeStep ==
    ASSUME EffectsInv, NEW n \in Nodes, PassNode(n)
    PROVE  EffectsInv'
<1> USE DEF EffectsInv, PassNode
<1> DEFINE behind == Effects \ pending
<1>1. /\ prog.barriers # {} /\ Effects \subseteq Nodes /\ pending \subseteq Effects
      /\ n \in pending /\ position \in [Nodes -> Int] /\ n \in Effects
    BY DEF TypeOK, First, BarrierInv, BarrierNodes, Effects, Program
<1>2. /\ \A m \in behind, p \in pending : position[m] < position[p]
      /\ \A a, b \in behind : /\ position[a] < position[b]
                              /\ a \in prog.barriers \/ b \in prog.barriers
                              => Forced(a, b)
      /\ last = Nothing => behind \cap prog.barriers = {}
      /\ last # Nothing =>
             /\ last \in behind /\ last \in prog.barriers
             /\ \A b \in behind \cap prog.barriers : position[b] <= position[last]
      /\ since = {m \in behind : /\ m \notin prog.barriers
                                 /\ last # Nothing => position[last] < position[m]}
    BY <1>1 DEF BarrierInv
<1>3. PICK before \in Nodes \cup {Nothing} : before = last
    BY DEF TypeOK
<1>4. PICK needs \in SUBSET Nodes : needs = Needs(n)
    BY DEF Needs, TypeOK
<1>5. \A d \in needs : position[d] < position[n] /\ d \in behind
    BY <1>1, <1>2, <1>4 DEF Needs
<1>6. /\ BaselineInv'
      /\ \A a, b \in Nodes : Forced(a, b) => Forced(a, b)'
      /\ \A d \in needs : Forced(d, n)'
      /\ \A k \in Resources : Group(k)' = Group(k)
      /\ Effects' = Effects /\ BarrierNodes' = BarrierNodes
      /\ \A a \in Nodes : deps'[a] \subseteq deps[a] \cup (IF a = n THEN needs ELSE {})
    BY <1>4, <1>5, AddedEdges
<1>7. TypeOK'
    BY <1>1, <1>4 DEF TypeOK, With
<1>8. OnlyConflictsAreOrdered'
    <2>1. \A d \in needs : {n, d} \subseteq Effects /\ {n, d} \cap prog.barriers # {}
        BY <1>1, <1>2, <1>4 DEF Needs
    <2>2. prog' = prog /\ \A a \in Nodes, k \in Resources : Touches(a, k)' <=> Touches(a, k)
        BY DEF Touches
    <2> QED
        BY <1>6, <2>1, <2>2 DEF OnlyConflictsAreOrdered, TypeOK
<1>9. DoneInv'
    <2>1. \A k \in Resources : Group(k) \subseteq Nodes
        BY DEF Group
    <2>2. \A k \in Resources \ todo' : Chained(Group(k))'
        BY <1>6, <2>1 DEF DoneInv, Chained
    <2> QED
        BY <2>2 DEF DoneInv
<1>10. GroupInv'
    BY DEF GroupInv
<1>11. \A b \in behind \cap prog.barriers : Forced(b, n)'
    <2> SUFFICES ASSUME NEW b \in behind \cap prog.barriers PROVE Forced(b, n)'
        OBVIOUS
    <2>1. /\ before # Nothing /\ before \in behind /\ before \in prog.barriers
          /\ b \in Nodes /\ position[b] <= position[before]
        BY <1>1, <1>2, <1>3
    <2>2. Forced(before, n)'
        <3>1. CASE n \in prog.barriers /\ since # {}
            <4>1. PICK s \in since : TRUE
                BY <3>1
            <4>2. s \in behind /\ position[before] < position[s] /\ s \in needs
                BY <1>2, <1>3, <1>4, <2>1, <3>1, <4>1 DEF Needs
            <4>3. Forced(before, s)' /\ Forced(s, n)'
                BY <1>1, <1>2, <1>6, <2>1, <4>2
            <4> QED
                BY <1>1, <2>1, <4>2, <4>3, ForcedComposes
        <3>2. CASE ~(n \in prog.barriers /\ since # {})
            <4>1. before \in needs
                BY <1>3, <1>4, <2>1, <3>2 DEF Needs
            <4> QED
                BY <1>6, <4>1
        <3> QED
            BY <3>1, <3>2
    <2>3. CASE b = before
        BY <2>2, <2>3
    <2>4. CASE b # before
        <3>1. position[b] < position[before]
            BY <1>1, <2>1, <2>4 DEF BaselineInv
        <3>2. Forced(b, before)'
            BY <1>1, <1>2, <1>6, <2>1, <3>1
        <3> QED
            BY <1>1, <2>1, <2>2, <3>2, ForcedComposes
    <2> QED
        BY <2>3, <2>4
<1>12. ASSUME n \in prog.barriers PROVE \A m \in behind : Forced(m, n)'
    <2> SUFFICES ASSUME NEW m \in behind, m \notin prog.barriers PROVE Forced(m, n)'
        BY <1>11
    <2>1. CASE m \in since
        BY <1>4, <1>6, <1>12, <2>1 DEF Needs
    <2>2. CASE m \notin since
        <3>1. /\ before # Nothing /\ before \in behind /\ before \in prog.barriers
              /\ m # before /\ m \in Nodes /\ ~(position[before] < position[m])
            BY <1>1, <1>2, <1>3, <2>2
        <3>2. position[m] < position[before]
            BY <1>1, <3>1 DEF BaselineInv
        <3>3. Forced(m, before)' /\ Forced(before, n)'
            BY <1>1, <1>2, <1>6, <1>11, <3>1, <3>2
        <3> QED
            BY <1>1, <3>1, <3>3, ForcedComposes
    <2> QED
        BY <2>1, <2>2
<1>13. BarrierInv'
    <2> DEFINE after == behind \cup {n}
    <2>1. Effects' \ pending' = after /\ prog' = prog /\ position' = position
          /\ pending' \subseteq pending
        BY <1>1, <1>6
    <2>2. \A m \in behind : position[m] < position[n]
        BY <1>1, <1>2
    <2>3. \A p \in pending' : position[n] < position[p]
        BY <1>1 DEF First, BaselineInv
    <2>4. \A m \in after, p \in pending' : position[m] < position[p]
        BY <1>2, <2>1, <2>3
    <2>5. \A a, b \in after : /\ position[a] < position[b]
                              /\ a \in prog.barriers \/ b \in prog.barriers
                              => Forced(a, b)'
        <3> SUFFICES ASSUME NEW a \in after, NEW b \in after, position[a] < position[b],
                            a \in prog.barriers \/ b \in prog.barriers
                     PROVE  Forced(a, b)'
            OBVIOUS
        <3>1. CASE a \in behind /\ b \in behind
            BY <1>1, <1>2, <1>6, <3>1
        <3>2. CASE b = n /\ a \in behind
            BY <1>11, <1>12, <3>2
        <3>3. CASE a = n
            BY <1>1, <2>2, <3>3
        <3> QED
            BY <3>1, <3>2, <3>3
    <2>6. last' = Nothing => after \cap prog.barriers = {}
        BY <1>2, OrientationAssumption
    <2>7. last' # Nothing =>
              /\ last' \in after /\ last' \in prog.barriers
              /\ \A b \in after \cap prog.barriers : position[b] <= position[last']
        <3>1. CASE n \in prog.barriers
            BY <1>1, <2>2, <3>1
        <3>2. CASE n \notin prog.barriers
            BY <1>2, <3>2
        <3> QED
            BY <3>1, <3>2
    <2>8. since' = {m \in after : /\ m \notin prog.barriers
                                  /\ last' # Nothing => position[last'] < position[m]}
        <3>1. CASE n \in prog.barriers
            <4>1. \A m \in after : ~(position[n] < position[m])
                BY <1>1, <2>2
            <4>2. last' = n /\ since' = {} /\ n # Nothing
                BY <3>1, OrientationAssumption
            <4> QED
                BY <4>1, <4>2
        <3>2. CASE n \notin prog.barriers
            <4>1. last' = last /\ since' = since \cup {n}
                BY <3>2
            <4>2. last # Nothing => position[last] < position[n]
                BY <1>2, <2>2
            <4> QED
                BY <1>2, <3>2, <4>1, <4>2
        <3> QED
            BY <3>1, <3>2
    <2>9. pending' \subseteq BarrierNodes'
        BY <1>6 DEF BarrierInv
    <2> QED
        BY <2>1, <2>4, <2>5, <2>6, <2>7, <2>8, <2>9 DEF BarrierInv
<1> QED
    BY <1>6, <1>7, <1>8, <1>9, <1>10, <1>13 DEF EffectsInv

-----------------------------------------------------------------------------
(* The theorems.                                                           *)

LEMMA EffectsNext == EffectsInv /\ [Next]_vars => EffectsInv'
<1> SUFFICES ASSUME EffectsInv, [Next]_vars PROVE EffectsInv'
    OBVIOUS
<1> QED
    BY StartGroupStep, ChainNodeStep, EndGroupStep, StartBarriersStep, PassNodeStep,
       FinishStep, EffectsStutter DEF Next

LEMMA EffectsInvOrders ==
    EffectsInv => /\ TypeOK /\ ConflictsKeepBaseline /\ BaselineStaysASchedule
           /\ OnlyConflictsAreOrdered
<1>1. EffectsInv => ConflictsKeepBaseline
    <2> SUFFICES ASSUME EffectsInv, phase = "done", NEW m \in Nodes, NEW n \in Nodes,
                        Conflict(m, n), position[m] < position[n]
                 PROVE  Forced(m, n)
        BY DEF ConflictsKeepBaseline
    <2>1. pending = {} /\ todo = {}
        BY DEF EffectsInv, DoneInv
    <2>2. CASE \E k \in Resources : m \in Group(k) /\ n \in Group(k)
        BY <2>1, <2>2 DEF EffectsInv, DoneInv, Chained
    <2>3. CASE {m, n} \subseteq Effects /\ {m, n} \cap prog.barriers # {}
        BY <2>1, <2>3 DEF EffectsInv, BarrierInv
    <2> QED
        BY <2>2, <2>3 DEF Conflict, Group, Touches, Effects
<1>2. EffectsInv => BaselineStaysASchedule
    BY DEF EffectsInv, BaselineInv, BaselineStaysASchedule
<1> QED
    BY <1>1, <1>2 DEF EffectsInv

\* The invariant holds in every state the orientation reaches.
THEOREM EffectsInvariance == Spec => []EffectsInv
BY EffectsInit, EffectsNext, PTL DEF Spec

\* The state of orient_effect_conflicts is well formed at every step.
THEOREM EffectsTyped == Spec => []TypeOK
BY EffectsInvariance, PTL DEF EffectsInv

\* Every schedule of the oriented graph runs two nodes with conflicting effects
\* in the order of the depth-first baseline, whatever the graph, the effects and
\* the strategy.
THEOREM ConflictsAreOrdered == Spec => []ConflictsKeepBaseline
BY EffectsInvOrders, EffectsInvariance, PTL

\* No edge the orientation adds, with or without a look at the paths of the graph,
\* closes a cycle: the baseline stays a schedule.
THEOREM NoCycleIsClosed == Spec => []BaselineStaysASchedule
BY EffectsInvOrders, EffectsInvariance, PTL

\* Every edge added joins two nodes of one resource or a barrier and an effect.
THEOREM OnlyConflictsAdded == Spec => []OnlyConflictsAreOrdered
BY EffectsInvariance, PTL DEF EffectsInv

\* The promise as a whole, for every program, baseline and schedule.
THEOREM EffectsOrdered == Spec => []EffectsAreOrdered
BY EffectsTyped, ConflictsAreOrdered, NoCycleIsClosed, OnlyConflictsAdded, PTL DEF EffectsAreOrdered

-----------------------------------------------------------------------------
(* The well-order of the numbers.                                            *)
LEMMA LeastNatural ==
  ASSUME NEW S \in SUBSET Nat, S # {}
  PROVE  \E m \in S : \A n \in S : m <= n
  <1> DEFINE R == {ss \in Nat \X Nat : ss[1] < ss[2]}
  <1>1. IsWellFoundedOn(R, Nat)
    BY NatLessThanWellFounded, Zenon DEF OpToRel
  <1>2. \A k, m \in Nat : <<k, m>> \in R <=> k < m
    OBVIOUS
  <1> HIDE DEF R
  <1>3. PICK m \in S : \A k \in S : ~ (<<k, m>> \in R)
    BY <1>1, WFMin
  <1>4. \A k \in S : k \in Nat /\ m \in Nat /\ ~ (k < m)
    BY <1>2, <1>3
  <1> QED
    BY <1>4

(* A finite set of numbers is bounded.                                        *)
LEMMA Bounded ==
  ASSUME NEW S \in SUBSET Nat, IsFiniteSet(S)
  PROVE  \E b \in Nat : \A x \in S : x <= b
  <1>1. PICK f \in Bijection(1 .. Cardinality(S), S) : TRUE
    BY FS_CardinalityType DEF ExistsBijection
  <1>2. Cardinality(S) \in Nat /\ f \in [1 .. Cardinality(S) -> S] /\ \A x \in S : \E i \in 1 .. Cardinality(S) : f[i] = x
    BY <1>1, FS_CardinalityType DEF Bijection, Injection, Surjection
  <1> DEFINE B(k) == \E b \in Nat : \A i \in 1 .. Cardinality(S) : i <= k => f[i] <= b
             U == {k \in Nat : ~ B(k)}
  <1> HIDE DEF B
  <1>3. U = {}
    <2> SUFFICES ASSUME U # {} PROVE FALSE
      OBVIOUS
    <2>1. PICK m \in U : \A n \in U : m <= n
      <3> HIDE DEF U
      <3>1. U \in SUBSET Nat
        BY DEF U
      <3> QED
        BY <3>1, LeastNatural
    <2>2. m # 0
      <3>1. B(0)
        BY <1>2 DEF B
      <3> QED
        BY <2>1, <3>1
    <2>3. m - 1 \in Nat /\ m - 1 \notin U
      BY <2>1, <2>2
    <2>4. PICK b \in Nat : \A i \in 1 .. Cardinality(S) : i <= m - 1 => f[i] <= b
      BY <2>3 DEF B
    <2>5. CASE m \in 1 .. Cardinality(S)
      <3>1. f[m] \in Nat
        BY <1>2, <2>5
      <3>2. PICK c \in Nat : b <= c /\ f[m] <= c
        BY <3>1
      <3>3. \A i \in 1 .. Cardinality(S) : i <= m => f[i] <= c
        <4> SUFFICES ASSUME NEW i \in 1 .. Cardinality(S), i <= m PROVE f[i] <= c
          OBVIOUS
        <4>1. i = m \/ i <= m - 1
          BY <2>1
        <4>2. f[i] \in Nat
          BY <1>2
        <4> QED
          BY <2>4, <3>2, <4>1, <4>2
      <3> QED
        BY <2>1, <3>2, <3>3 DEF B
    <2>6. CASE m \notin 1 .. Cardinality(S)
      <3>1. \A i \in 1 .. Cardinality(S) : i <= m => i <= m - 1
        BY <1>2, <2>1, <2>6
      <3> QED
        BY <2>1, <2>4, <3>1 DEF B
    <2> QED
      BY <2>5, <2>6
  <1>4. B(Cardinality(S))
    BY <1>2, <1>3
  <1> QED
    BY <1>2, <1>4 DEF B

(* A finite set of numbers that has one has a largest.                        *)
LEMMA Maximum ==
  ASSUME NEW S \in SUBSET Nat, IsFiniteSet(S), S # {}
  PROVE  \E m \in S : \A x \in S : m >= x
  <1> DEFINE U == {b \in Nat : \A x \in S : x <= b}
  <1>1. PICK b \in U : \A c \in U : b <= c
    <2>1. U # {} /\ U \in SUBSET Nat
      BY Bounded
    <2> HIDE DEF U
    <2> QED
      BY <2>1, LeastNatural
  <1>2. CASE b \in S
    BY <1>1, <1>2
  <1>3. CASE b \notin S
    <2>1. PICK x \in S : TRUE
      OBVIOUS
    <2>2. x \in Nat /\ x <= b /\ x # b
      BY <1>1, <1>3
    <2>3. b \in Nat /\ b - 1 \in Nat
      BY <1>1, <2>2
    <2>4. \A y \in S : y <= b - 1
      BY <1>1, <1>3, <2>3
    <2> QED
      BY <1>1, <2>3, <2>4
  <1> QED
    BY <1>2, <1>3

(* What a function makes of a finite set is finite.                           *)
LEMMA FiniteImage ==
  ASSUME NEW S, NEW g, IsFiniteSet(S)
  PROVE  IsFiniteSet({g[x] : x \in S})
  <1> DEFINE T == {g[x] : x \in S}
             f == [x \in S |-> g[x]]
  <1>1. f \in Surjection(S, T)
    BY DEF Surjection
  <1> QED
    BY <1>1, FS_Surjection

-----------------------------------------------------------------------------
(* Remainders.                                                                *)

LEMMA NextMultiple ==
  ASSUME NEW f \in Nat, NEW g \in Nat
  PROVE  (g + 1) * f = g * f + f /\ g * f \in Nat
  OBVIOUS

LEMMA SmallMultiple ==
  ASSUME NEW s \in Nat \ {0}, NEW d \in Int, - s < d * s, d * s < s
  PROVE  d = 0
  <1>1. CASE d >= 1
    <2>1. d * s = (d - 1) * s + s /\ (d - 1) * s >= 0
      BY <1>1
    <2> QED
      BY <2>1
  <1>2. CASE d <= -1
    <2>1. d * s = (d + 1) * s - s /\ (- (d + 1)) * s >= 0
      BY <1>2
    <2> QED
      BY <2>1
  <1> QED
    BY <1>1, <1>2

(* The division theorem.                                                      *)
LEMMA Division ==
  ASSUME NEW s \in Nat \ {0}, NEW x \in Int
  PROVE  \E k \in Int, r \in 0 .. s - 1 : x = k * s + r /\ x % s = r
  <1>1. s \in Int /\ s > 0
    OBVIOUS
  <1>2. x = s * (x \div s) + (x % s)
    BY <1>1, SMTT(60)
  <1>3. x \div s \in Int /\ x % s \in 0 .. s - 1
    OBVIOUS
  <1>4. s * (x \div s) = (x \div s) * s
    BY <1>1, <1>3
  <1> QED
    BY <1>2, <1>3, <1>4

(* A remainder is the only one.                                               *)
LEMMA Remainder ==
  ASSUME NEW s \in Nat \ {0}, NEW k \in Int, NEW r \in 0 .. s - 1
  PROVE  (k * s + r) % s = r
  <1>1. k * s + r \in Int
    OBVIOUS
  <1>2. PICK e \in Int, t \in 0 .. s - 1 : k * s + r = e * s + t /\ (k * s + r) % s = t
    BY <1>1, Division
  <1>3. (k - e) * s = t - r
    BY <1>2
  <1>4. k - e = 0
    BY <1>2, <1>3, SmallMultiple
  <1> QED
    BY <1>2, <1>3, <1>4

(* Whole multiples do not change a remainder.                                 *)
LEMMA ShiftedRemainder ==
  ASSUME NEW s \in Nat \ {0}, NEW x \in Int, NEW n \in Int
  PROVE  (x + n * s) % s = x % s
  <1>1. PICK k \in Int, r \in 0 .. s - 1 : x = k * s + r /\ x % s = r
    BY Division
  <1>2. x + n * s = (k + n) * s + r /\ k + n \in Int
    BY <1>1
  <1> QED
    BY <1>1, <1>2, Remainder

(* Numbers less than s apart that leave the same remainder are equal.         *)
LEMMA SameRemainder ==
  ASSUME NEW s \in Nat \ {0}, NEW x \in Int, NEW y \in Int,
         x % s = y % s, x - y < s, y - x < s
  PROVE  x = y
  <1>1. PICK k \in Int, r \in 0 .. s - 1 : x = k * s + r /\ x % s = r
    BY Division
  <1>2. PICK e \in Int, t \in 0 .. s - 1 : y = e * s + t /\ y % s = t
    BY Division
  <1>3. x - y = (k - e) * s
    BY <1>1, <1>2
  <1>4. k - e = 0
    BY <1>3, SmallMultiple
  <1> QED
    BY <1>3, <1>4

-----------------------------------------------------------------------------
(* Carriers: what each slot holds.                                            *)

SlotsOfCarrier(o) ==
    /\ Carriers!Strategy(o) = "scalar" =>
           /\ carrier[o][0] = Carriers!Past(1)
           /\ region = "before" => current[o] = Carriers!Past(1)
           /\ region = "after" => current[o] = iota
    /\ Carriers!Strategy(o) = "shift" =>
           /\ region = "before" => carrier[o][0] = Carriers!Past(1)
           /\ \A k \in 0 .. Carriers!Size(o) - 1 :
                  region = "after" \/ k >= 1 => carrier[o][k] = Carriers!Past(k)
    /\ Carriers!Strategy(o) = "circular" =>
           \A k \in 0 .. Carriers!Size(o) :
               (region = "before" /\ k >= 1) \/ (region = "after" /\ k < Carriers!Size(o))
               => carrier[o][(iota - k) % Carriers!Size(o)] = Carriers!Past(k)

CarriersInv ==
    /\ Carriers!TypeOK
    /\ IsFiniteSet(reads)
    /\ \A r \in reads : r.output < arity
    /\ \A o \in Carriers!Outputs : SlotsOfCarrier(o)

(* No read of an output is longer than the longest, which one of them is.     *)
LEMMA LongestIs ==
  ASSUME reads \in SUBSET DelayedReads, IsFiniteSet(reads), NEW o
  PROVE  /\ Carriers!Longest(o) \in Nat
         /\ \A r \in reads : r.output = o => r.most + r.implicit <= Carriers!Longest(o)
         /\ Carriers!Analysed(o) =>
               \E r \in reads : r.output = o /\ Carriers!Longest(o) = r.most + r.implicit
  <1> DEFINE R == {q \in reads : q.output = o}
             M == {r.most + r.implicit : r \in R}
             T == {0} \cup M
  <1>1. \A r \in reads : r.most \in Nat \ {0} /\ r.implicit \in Nat
    BY LoweringAssumption DEF Carriers!CarriersAssumption, Carriers!ReadRecord
  <1>2. IsFiniteSet(R)
    BY FS_Subset
  <1>3. IsFiniteSet(M)
    <2> DEFINE g == [r \in R |-> r.most + r.implicit]
    <2>1. M = {g[r] : r \in R}
      OBVIOUS
    <2> HIDE DEF g, R, M
    <2> QED
      BY <1>2, <2>1, FiniteImage
  <1>4. T \in SUBSET Nat /\ IsFiniteSet(T) /\ T # {}
    <2>1. M \in SUBSET Nat
      BY <1>1
    <2> HIDE DEF M
    <2> QED
      BY <1>3, <2>1, FS_AddElement
  <1>5. Carriers!Max(T) \in T /\ \A x \in T : Carriers!Max(T) >= x
    <2> HIDE DEF T
    <2>1. \E m \in T : \A x \in T : m >= x
      BY <1>4, Maximum
    <2> QED
      BY <2>1 DEF Carriers!Max
  <1>6. Carriers!Longest(o) = Carriers!Max(T)
    BY DEF Carriers!Longest
  <1>7. Carriers!Longest(o) \in Nat
    BY <1>4, <1>5, <1>6
  <1>8. \A r \in reads : r.output = o => r.most + r.implicit <= Carriers!Longest(o)
    BY <1>1, <1>5, <1>6
  <1>9. ASSUME Carriers!Analysed(o)
        PROVE  \E r \in reads : r.output = o /\ Carriers!Longest(o) = r.most + r.implicit
    <2>1. PICK r \in reads : r.output = o
      BY <1>9 DEF Carriers!Analysed
    <2>2. Carriers!Longest(o) # 0
      BY <1>1, <1>7, <1>8, <2>1
    <2> QED
      BY <1>5, <1>6, <2>2
  <1> QED
    BY <1>7, <1>8, <1>9

(* A carrier holds more slots than its longest read needs.                    *)
LEMMA SizeIs ==
  ASSUME reads \in SUBSET DelayedReads, IsFiniteSet(reads), NEW o
  PROVE  /\ Carriers!Size(o) \in Nat \ {0}
         /\ Carriers!Strategy(o) \in {"scalar", "shift", "circular"}
         /\ Carriers!Strategy(o) = "scalar" => Carriers!Longest(o) <= 1
         /\ Carriers!Strategy(o) = "scalar" => Carriers!Size(o) = 1
         /\ Carriers!Strategy(o) # "scalar" =>
               \A r \in reads : r.output = o => Carriers!Longest(o) < Carriers!Size(o)
  <1>1. Carriers!Longest(o) \in Nat
    BY LongestIs
  <1>2. CASE Carriers!Strategy(o) = "circular"
    <2>1. Carriers!Analysed(o)
      BY <1>2 DEF Carriers!Strategy
    <2>2. PICK r \in reads : r.output = o /\ Carriers!Longest(o) = r.most + r.implicit
      BY <2>1, LongestIs
    <2>3. /\ Carriers!Pow2Above(r.most + r.implicit) \in Nat
          /\ Carriers!Pow2Above(r.most + r.implicit) > r.most + r.implicit
      BY LoweringAssumption DEF Carriers!CarriersAssumption
    <2>4. Carriers!Size(o) = Carriers!Pow2Above(Carriers!Longest(o))
      BY <1>2 DEF Carriers!Size
    <2> QED
      BY <1>1, <1>2, <2>2, <2>3, <2>4
  <1>3. CASE Carriers!Strategy(o) # "circular"
    <2>1. Carriers!Strategy(o) \in {"scalar", "shift"}
      BY <1>3 DEF Carriers!Strategy
    <2>2. Carriers!Strategy(o) = "scalar" => Carriers!Longest(o) <= 1
      BY DEF Carriers!Strategy
    <2> QED
      BY <1>1, <2>1, <2>2 DEF Carriers!Size, Carriers!Analysed
  <1> QED
    BY <1>2, <1>3

(* What an output is given does not change in a run.                          *)
LEMMA SameCarriers ==
  ASSUME arity' = arity, reads' = reads, NEW o
  PROVE  /\ Carriers!Strategy(o)' = Carriers!Strategy(o)
         /\ Carriers!Size(o)' = Carriers!Size(o)
         /\ Carriers!Outputs' = Carriers!Outputs
  BY DEF Carriers!Strategy, Carriers!Size, Carriers!Outputs, Carriers!Longest, Carriers!Analysed

LEMMA CarriersInit == Carriers!Init => CarriersInv
  <1> SUFFICES ASSUME Carriers!Init PROVE CarriersInv
    OBVIOUS
  <1>1. PICK read \in [1 .. MaxReads -> {r \in DelayedReads : r.output < arity}], n \in 0 .. MaxReads :
           reads = {read[i] : i \in 1 .. n}
    BY DEF Carriers!Init
  <1>2. MaxReads \in Nat /\ LastSample \in Nat
    BY LoweringAssumption DEF Carriers!CarriersAssumption
  <1>3. IsFiniteSet(reads)
    <2>1. IsFiniteSet(1 .. n)
      BY <1>1, <1>2, FS_Interval
    <2>2. IsFiniteSet({read[i] : i \in 1 .. n})
      BY <2>1, FiniteImage
    <2> QED
      BY <1>1, <2>2
  <1>4. reads \in SUBSET DelayedReads /\ \A r \in reads : r.output < arity
    BY <1>1, <1>2
  <1>5. \A o \in Carriers!Outputs :
           /\ carrier[o] = [s \in 0 .. Carriers!Size(o) - 1 |-> -1]
           /\ current[o] = -1
    BY DEF Carriers!Init, Carriers!Cleared, Carriers!Never
  <1>6. \A n_1 \in Nat \ {0} : Carriers!Past(n_1) = -1
    BY DEF Carriers!Init, Carriers!Past, Carriers!Never
  <1>7. Carriers!TypeOK
    BY <1>2, <1>4, <1>5 DEF Carriers!Init, Carriers!TypeOK, Carriers!Never
  <1>8. ASSUME NEW o \in Carriers!Outputs PROVE SlotsOfCarrier(o)
    <2>1. Carriers!Size(o) \in Nat \ {0} /\ (Carriers!Strategy(o) = "scalar" => Carriers!Size(o) = 1)
      BY <1>3, <1>4, SizeIs
    <2>2. \A k \in 1 .. Carriers!Size(o) : (0 - k) % Carriers!Size(o) \in 0 .. Carriers!Size(o) - 1
      BY <2>1
    <2> QED
      BY <1>5, <1>6, <2>1, <2>2 DEF Carriers!Init, SlotsOfCarrier
  <1> QED
    BY <1>3, <1>4, <1>7, <1>8 DEF CarriersInv

LEMMA CarriersBody == CarriersInv /\ Carriers!BodyPass => CarriersInv'
  <1> SUFFICES ASSUME CarriersInv, Carriers!BodyPass PROVE CarriersInv'
    OBVIOUS
  <1> USE DEF CarriersInv
  <1>1. /\ region = "before" /\ region' = "after" /\ iota' = iota
        /\ arity' = arity /\ reads' = reads /\ iota \in Nat
    BY LoweringAssumption DEF Carriers!BodyPass, Carriers!program, Carriers!TypeOK, Carriers!CarriersAssumption
  <1>2. Carriers!Outputs' = Carriers!Outputs
    BY <1>1, SameCarriers
  <1>3. ASSUME NEW o \in Carriers!Outputs
        PROVE  /\ (carrier[o] \in [0 .. Carriers!Size(o) - 1 -> Carriers!Never .. iota])'
               /\ (current[o] \in Carriers!Never .. iota)'
               /\ SlotsOfCarrier(o)'
    <2>1. /\ Carriers!Strategy(o)' = Carriers!Strategy(o)
          /\ Carriers!Size(o)' = Carriers!Size(o)
      BY <1>1, SameCarriers
    <2>2. /\ carrier'[o] = Carriers!Stored(o)
          /\ current'[o] = IF Carriers!Strategy(o) = "scalar" THEN iota ELSE current[o]
      BY DEF Carriers!BodyPass
    <2>3. /\ carrier[o] \in [0 .. Carriers!Size(o) - 1 -> -1 .. iota]
          /\ current[o] \in -1 .. iota
      BY DEF Carriers!TypeOK, Carriers!Never
    <2>4. /\ Carriers!Size(o) \in Nat \ {0}
          /\ Carriers!Strategy(o) \in {"scalar", "shift", "circular"}
          /\ Carriers!Strategy(o) = "scalar" => Carriers!Size(o) = 1
      BY SizeIs DEF Carriers!TypeOK
    <2>5. \A n : Carriers!Past(n)' = Carriers!Past(n)
      BY <1>1 DEF Carriers!Past
    <2>6. Carriers!Cursor(o) \in 0 .. Carriers!Size(o) - 1
      BY <1>1, <2>4 DEF Carriers!Cursor
    <2>7. carrier'[o] \in [0 .. Carriers!Size(o) - 1 -> -1 .. iota] /\ current'[o] \in -1 .. iota
      BY <1>1, <2>2, <2>3, <2>6 DEF Carriers!Stored
    <2>8. ASSUME Carriers!Strategy(o) = "scalar" PROVE SlotsOfCarrier(o)'
      BY <1>1, <2>1, <2>2, <2>5, <2>8 DEF SlotsOfCarrier, Carriers!Stored
    <2>9. ASSUME Carriers!Strategy(o) = "shift" PROVE SlotsOfCarrier(o)'
      <3>1. carrier'[o] = [carrier[o] EXCEPT ![0] = iota]
        BY <2>2, <2>9 DEF Carriers!Stored, Carriers!Cursor
      <3>2. Carriers!Past(0) = iota
        BY <1>1 DEF Carriers!Past
      <3>3. ASSUME NEW k \in 0 .. Carriers!Size(o) - 1 PROVE carrier'[o][k] = Carriers!Past(k)
        <4>1. k # 0 => k >= 1 /\ carrier[o][k] = Carriers!Past(k)
          BY <2>4, <2>9 DEF SlotsOfCarrier
        <4> QED
          BY <2>3, <3>1, <3>2, <4>1
      <3> QED
        BY <1>1, <2>1, <2>5, <2>9, <3>3 DEF SlotsOfCarrier
    <2>10. ASSUME Carriers!Strategy(o) = "circular" PROVE SlotsOfCarrier(o)'
      <3>1. carrier'[o] = [carrier[o] EXCEPT ![iota % Carriers!Size(o)] = iota]
        BY <2>2, <2>10 DEF Carriers!Stored, Carriers!Cursor
      <3>2. Carriers!Past(0) = iota
        BY <1>1 DEF Carriers!Past
      <3>3. ASSUME NEW k \in 0 .. Carriers!Size(o) - 1
            PROVE  carrier'[o][(iota - k) % Carriers!Size(o)] = Carriers!Past(k)
        <4>1. /\ (iota - k) % Carriers!Size(o) \in 0 .. Carriers!Size(o) - 1
              /\ iota % Carriers!Size(o) \in 0 .. Carriers!Size(o) - 1
          BY <1>1, <2>4
        <4>2. CASE k = 0
          <5>1. iota - k = iota
            BY <1>1, <4>2
          <5> QED
            BY <2>3, <3>1, <3>2, <4>1, <4>2, <5>1
        <4>3. CASE k # 0
          <5>1. (iota - k) % Carriers!Size(o) # iota % Carriers!Size(o)
            <6>1. /\ iota - k \in Int /\ iota \in Int
                  /\ (iota - k) - iota < Carriers!Size(o) /\ iota - (iota - k) < Carriers!Size(o)
                  /\ iota - k # iota
              BY <1>1, <2>4, <4>3
            <6> QED
              BY <2>4, <6>1, SameRemainder
          <5>2. carrier[o][(iota - k) % Carriers!Size(o)] = Carriers!Past(k)
            BY <1>1, <2>4, <2>10, <4>3 DEF SlotsOfCarrier
          <5> QED
            BY <2>3, <3>1, <4>1, <5>1, <5>2
        <4> QED
          BY <4>2, <4>3
      <3>4. ASSUME NEW k \in 0 .. Carriers!Size(o), k < Carriers!Size(o)
            PROVE  k \in 0 .. Carriers!Size(o) - 1
        BY <2>4, <3>4
      <3> QED
        BY <1>1, <2>1, <2>5, <2>10, <3>3, <3>4 DEF SlotsOfCarrier
    <2> QED
      BY <1>1, <2>1, <2>4, <2>7, <2>8, <2>9, <2>10 DEF Carriers!Never
  <1> QED
    BY <1>1, <1>2, <1>3 DEF Carriers!TypeOK

LEMMA CarriersEnd == CarriersInv /\ Carriers!EndSample => CarriersInv'
  <1> SUFFICES ASSUME CarriersInv, Carriers!EndSample PROVE CarriersInv'
    OBVIOUS
  <1> USE DEF CarriersInv
  <1>1. /\ region = "after" /\ region' = "before" /\ iota' = iota + 1
        /\ arity' = arity /\ reads' = reads /\ iota \in Nat /\ iota' \in 0 .. LastSample
        /\ current' = current
    BY LoweringAssumption DEF Carriers!EndSample, Carriers!program, Carriers!TypeOK, Carriers!CarriersAssumption
  <1>2. Carriers!Outputs' = Carriers!Outputs
    BY <1>1, SameCarriers
  <1>3. \A k \in Nat : Carriers!Past(k + 1)' = Carriers!Past(k)
    BY <1>1 DEF Carriers!Past
  <1>4. ASSUME NEW o \in Carriers!Outputs
        PROVE  /\ (carrier[o] \in [0 .. Carriers!Size(o) - 1 -> Carriers!Never .. iota])'
               /\ (current[o] \in Carriers!Never .. iota)'
               /\ SlotsOfCarrier(o)'
    <2>1. /\ Carriers!Strategy(o)' = Carriers!Strategy(o)
          /\ Carriers!Size(o)' = Carriers!Size(o)
      BY <1>1, SameCarriers
    <2>2. carrier'[o] = Carriers!Finished(o)
      BY DEF Carriers!EndSample
    <2>3. /\ carrier[o] \in [0 .. Carriers!Size(o) - 1 -> -1 .. iota]
          /\ current[o] \in -1 .. iota
      BY DEF Carriers!TypeOK, Carriers!Never
    <2>4. /\ Carriers!Size(o) \in Nat \ {0}
          /\ Carriers!Strategy(o) \in {"scalar", "shift", "circular"}
          /\ Carriers!Strategy(o) = "scalar" => Carriers!Size(o) = 1
      BY SizeIs DEF Carriers!TypeOK
    <2>5. Carriers!Past(1)' = iota /\ Carriers!Past(0) = iota
      BY <1>1 DEF Carriers!Past
    <2>6. carrier'[o] \in [0 .. Carriers!Size(o) - 1 -> -1 .. iota + 1] /\ current'[o] \in -1 .. iota + 1
      <3>1. CASE Carriers!Strategy(o) = "scalar"
        <4>1. carrier'[o] = [s \in {0} |-> current[o]]
          BY <2>2, <3>1 DEF Carriers!Finished
        <4>2. 0 .. Carriers!Size(o) - 1 = {0}
          BY <2>4, <3>1
        <4> QED
          BY <1>1, <2>3, <4>1, <4>2
      <3>2. CASE Carriers!Strategy(o) = "shift"
        <4>1. carrier'[o] = [s \in 0 .. Carriers!Size(o) - 1 |-> carrier[o][IF s = 0 THEN 0 ELSE s - 1]]
          BY <2>2, <3>2 DEF Carriers!Finished
        <4>2. \A s \in 0 .. Carriers!Size(o) - 1 :
                 carrier[o][IF s = 0 THEN 0 ELSE s - 1] \in -1 .. iota
          BY <2>3, <2>4
        <4> QED
          BY <1>1, <2>3, <4>1, <4>2
      <3>3. CASE Carriers!Strategy(o) = "circular"
        <4>1. carrier'[o] = carrier[o]
          BY <2>2, <3>3 DEF Carriers!Finished
        <4> QED
          BY <1>1, <2>3, <4>1
      <3> QED
        BY <2>4, <3>1, <3>2, <3>3
    <2>7. ASSUME Carriers!Strategy(o) = "scalar" PROVE SlotsOfCarrier(o)'
      <3>1. carrier'[o][0] = iota /\ current'[o] = iota
        BY <1>1, <2>2, <2>7 DEF SlotsOfCarrier, Carriers!Finished
      <3> QED
        BY <1>1, <2>1, <2>5, <2>7, <3>1 DEF SlotsOfCarrier
    <2>8. ASSUME Carriers!Strategy(o) = "shift" PROVE SlotsOfCarrier(o)'
      <3>1. carrier'[o] = [s \in 0 .. Carriers!Size(o) - 1 |-> carrier[o][IF s = 0 THEN 0 ELSE s - 1]]
        BY <2>2, <2>8 DEF Carriers!Finished
      <3>2. \A k \in 0 .. Carriers!Size(o) - 1 : carrier[o][k] = Carriers!Past(k)
        BY <1>1, <2>8 DEF SlotsOfCarrier
      <3>3. ASSUME NEW k \in 0 .. Carriers!Size(o) - 1
            PROVE  IF k = 0 THEN carrier'[o][k] = iota ELSE carrier'[o][k] = Carriers!Past(k)'
        <4>1. CASE k = 0
          BY <2>4, <2>5, <3>1, <3>2, <4>1
        <4>2. CASE k # 0
          <5>1. k - 1 \in 0 .. Carriers!Size(o) - 1 /\ k - 1 \in Nat /\ (k - 1) + 1 = k
            BY <2>4, <4>2
          <5>2. carrier'[o][k] = Carriers!Past(k - 1)
            BY <3>1, <3>2, <4>2, <5>1
          <5>3. Carriers!Past((k - 1) + 1)' = Carriers!Past(k - 1)
            BY <1>3, <5>1
          <5> QED
            BY <4>2, <5>1, <5>2, <5>3
        <4> QED
          BY <4>1, <4>2
      <3> QED
        BY <1>1, <2>1, <2>4, <2>5, <2>8, <3>3 DEF SlotsOfCarrier
    <2>9. ASSUME Carriers!Strategy(o) = "circular" PROVE SlotsOfCarrier(o)'
      <3>1. carrier'[o] = carrier[o]
        BY <2>2, <2>9 DEF Carriers!Finished
      <3>2. \A k \in 0 .. Carriers!Size(o) - 1 :
               carrier[o][(iota - k) % Carriers!Size(o)] = Carriers!Past(k)
        BY <1>1, <2>4, <2>9 DEF SlotsOfCarrier
      <3>3. ASSUME NEW k \in 0 .. Carriers!Size(o), k >= 1
            PROVE  carrier'[o][(iota' - k) % Carriers!Size(o)] = Carriers!Past(k)'
        <4>1. /\ k - 1 \in 0 .. Carriers!Size(o) - 1 /\ k - 1 \in Nat /\ (k - 1) + 1 = k
              /\ iota' - k = iota - (k - 1)
          BY <1>1, <2>4, <3>3
        <4>2. Carriers!Past((k - 1) + 1)' = Carriers!Past(k - 1)
          BY <1>3, <4>1
        <4> QED
          BY <3>1, <3>2, <4>1, <4>2
      <3> QED
        BY <1>1, <2>1, <2>9, <3>3 DEF SlotsOfCarrier
    <2> QED
      BY <1>1, <2>1, <2>4, <2>6, <2>7, <2>8, <2>9 DEF Carriers!Never
  <1> QED
    BY <1>1, <1>2, <1>4 DEF Carriers!TypeOK

LEMMA CarriersExact == CarriersInv => Carriers!ReadsAreExact /\ Carriers!ProjectionsAreCurrent
  <1> SUFFICES ASSUME CarriersInv PROVE Carriers!ReadsAreExact /\ Carriers!ProjectionsAreCurrent
    OBVIOUS
  <1>1. ASSUME NEW r \in reads, Carriers!Readable(r), NEW a \in r.least .. r.most
        PROVE  /\ Carriers!InReach(r, a)
               /\ Carriers!ZeroOnScalar(r, a) \/ Carriers!Loaded(r, a) = Carriers!Past(a + r.implicit)
    <2>1. /\ r \in DelayedReads /\ r.output \in Nat /\ r.implicit \in Nat /\ r.least \in Nat
          /\ r.most \in Nat /\ iota \in Nat /\ region \in {"before", "after"}
      BY LoweringAssumption
         DEF CarriersInv, Carriers!TypeOK, Carriers!CarriersAssumption, Carriers!ReadRecord
    <2>2. r.output \in Carriers!Outputs
      BY <2>1, LoweringAssumption
         DEF CarriersInv, Carriers!Outputs, Carriers!TypeOK, Carriers!CarriersAssumption
    <2>3. PICK o \in Carriers!Outputs : o = r.output
      BY <2>2
    <2>4. SlotsOfCarrier(o)
      BY DEF CarriersInv
    <2>5. PICK k \in Nat : k = a + r.implicit
      BY <2>1
    <2>6. k <= Carriers!Longest(o)
      <3>1. r.most + r.implicit <= Carriers!Longest(o) /\ Carriers!Longest(o) \in Nat
        BY <2>3, LongestIs DEF CarriersInv, Carriers!TypeOK
      <3> QED
        BY <2>1, <2>5, <3>1
    <2>7. region = "before" => k >= 1
      BY <1>1, <2>1, <2>5 DEF Carriers!Readable, Carriers!MayComeEarly
    <2>8. /\ Carriers!Size(o) \in Nat \ {0} /\ Carriers!Longest(o) \in Nat
          /\ Carriers!Strategy(o) \in {"scalar", "shift", "circular"}
          /\ Carriers!Strategy(o) = "scalar" => Carriers!Longest(o) <= 1
          /\ Carriers!Strategy(o) = "scalar" => Carriers!Size(o) = 1
          /\ Carriers!Strategy(o) # "scalar" => Carriers!Longest(o) < Carriers!Size(o)
      BY <2>3, SizeIs, LongestIs DEF CarriersInv, Carriers!TypeOK
    <2>9. CASE Carriers!Strategy(o) = "scalar"
      <3>1. k \in {0, 1} /\ (k = 0 => Carriers!ZeroOnScalar(r, a))
        BY <2>1, <2>3, <2>5, <2>6, <2>8, <2>9 DEF Carriers!ZeroOnScalar
      <3>2. Carriers!Slot(r, a) = 0
        BY <2>3, <2>9 DEF Carriers!Slot
      <3> QED
        BY <2>3, <2>4, <2>5, <2>8, <2>9, <3>1, <3>2
           DEF SlotsOfCarrier, Carriers!InReach, Carriers!Loaded
    <2>10. CASE Carriers!Strategy(o) = "shift"
      <3>1. Carriers!Slot(r, a) = k /\ k \in 0 .. Carriers!Size(o) - 1
        BY <2>3, <2>5, <2>6, <2>8, <2>10 DEF Carriers!Slot
      <3> QED
        BY <2>1, <2>3, <2>4, <2>5, <2>7, <2>10, <3>1
           DEF SlotsOfCarrier, Carriers!InReach, Carriers!Loaded
    <2>11. CASE Carriers!Strategy(o) = "circular"
      <3>1. Carriers!Slot(r, a) = (iota - k) % Carriers!Size(o)
        BY <2>3, <2>5, <2>11 DEF Carriers!Slot
      <3>2. (iota - k) % Carriers!Size(o) \in 0 .. Carriers!Size(o) - 1
        BY <2>1, <2>8
      <3>3. k \in 0 .. Carriers!Size(o) /\ k < Carriers!Size(o)
        BY <2>6, <2>8, <2>11
      <3>4. carrier[o][(iota - k) % Carriers!Size(o)] = Carriers!Past(k)
        BY <2>1, <2>4, <2>7, <2>11, <3>3 DEF SlotsOfCarrier
      <3> QED
        BY <2>3, <2>5, <3>1, <3>2, <3>4 DEF Carriers!InReach, Carriers!Loaded
    <2> QED
      BY <2>8, <2>9, <2>10, <2>11
  <1>2. ASSUME region = "after", NEW o \in Carriers!Outputs PROVE Carriers!Projected(o) = iota
    <2>1. /\ SlotsOfCarrier(o) /\ iota \in Nat
          /\ Carriers!Size(o) \in Nat \ {0}
          /\ Carriers!Strategy(o) \in {"scalar", "shift", "circular"}
      BY SizeIs, LoweringAssumption DEF CarriersInv, Carriers!TypeOK, Carriers!CarriersAssumption
    <2>2. Carriers!Past(0) = iota
      BY <2>1 DEF Carriers!Past
    <2>3. CASE Carriers!Strategy(o) = "scalar"
      BY <1>2, <2>1, <2>3 DEF Carriers!Projected, SlotsOfCarrier
    <2>4. CASE Carriers!Strategy(o) = "shift"
      <3>1. 0 \in 0 .. Carriers!Size(o) - 1
        BY <2>1
      <3> QED
        BY <1>2, <2>1, <2>2, <2>4, <3>1 DEF Carriers!Projected, Carriers!Cursor, SlotsOfCarrier
    <2>5. CASE Carriers!Strategy(o) = "circular"
      <3>1. 0 \in 0 .. Carriers!Size(o) /\ 0 < Carriers!Size(o) /\ iota - 0 = iota
        BY <2>1
      <3>2. carrier[o][(iota - 0) % Carriers!Size(o)] = Carriers!Past(0)
        BY <1>2, <2>1, <2>5, <3>1 DEF SlotsOfCarrier
      <3> QED
        BY <2>2, <2>5, <3>1, <3>2 DEF Carriers!Projected, Carriers!Cursor
    <2> QED
      BY <2>1, <2>3, <2>4, <2>5
  <1> QED
    BY <1>1, <1>2 DEF Carriers!ReadsAreExact, Carriers!ProjectionsAreCurrent

-----------------------------------------------------------------------------
(* Clocked blocks: the open regions.                                          *)

Regions == [ctx : Clocked!Contexts, left : 1 .. MaxClock + 1,
            stage : {"body", "blocks"}, blocks : SUBSET BlockDomains]

Open(c) == \E i \in 1 .. Len(stack) : stack[i].ctx = c

Running(c) == \E i \in 1 .. Len(stack) : stack[i].ctx = c /\ stack[i].stage = "blocks"

(* The block d was reached in the firing its parent is in.                    *)
Passed(d) == \E i \in 1 .. Len(stack) :
                 /\ stack[i].ctx = cprog.parent[d] /\ stack[i].stage = "blocks"
                 /\ d \notin stack[i].blocks

RegionsInv ==
    /\ stack \in Seq(Regions)
    /\ stack # <<>> => inCall = TRUE /\ stack[1].ctx = SampleLoop
    /\ \A i \in 2 .. Len(stack) :
           stack[i].ctx \in BlockDomains /\ cprog.parent[stack[i].ctx] = stack[i - 1].ctx
    /\ \A i, j \in 1 .. Len(stack) : stack[i].ctx = stack[j].ctx => i = j
    /\ \A i \in 1 .. Len(stack) :
           /\ stack[i].blocks \subseteq Clocked!BlocksIn(stack[i].ctx)
           /\ stack[i].stage = "body" => stack[i].blocks = Clocked!BlocksIn(stack[i].ctx)
           /\ i < Len(stack) => stack[i].stage = "blocks"
           /\ stack[i].ctx \in BlockDomains /\ cprog.shape[stack[i].ctx] = "modulo" => stack[i].left = 1

(* The state a step of the blocks does not disturb in passing.                *)
ClockedTypes ==
    /\ cprog \in ClockedPrograms /\ inCall \in BOOLEAN
    /\ calls \in 0 .. MaxCalls /\ samples \in 0 .. MaxSamples
    /\ \A l \in Lines : /\ buf[l] \in [0 .. Clocked!Size(l) - 1 -> Nat]
                        /\ counter[l] \in 0 .. Clocked!Size(l) - 1
    /\ cursor \in [Clocked!Contexts -> Nat]
    /\ fired \in [Clocked!Contexts -> Nat]
    /\ dsCounter \in [BlockDomains -> Nat]
    /\ \A d \in BlockDomains : dsCounter[d] < cprog.factor[d]
    /\ perm \in [BlockDomains -> Nat] /\ held \in [BlockDomains -> Nat]
    /\ slowVar \in [BlockDomains -> 0 .. MaxCalls \cup {Off}]
    /\ slowDone \in [BlockDomains -> BOOLEAN]
    /\ computed \in [BlockDomains -> Nat]

(* Sequences, place by place.                                                 *)
LEMMA Replaced ==
  ASSUME NEW R, NEW s \in Seq(R), s # <<>>, NEW x \in R
  PROVE  LET t == [s EXCEPT ![Len(s)] = x]
         IN  /\ t \in Seq(R) /\ t # <<>> /\ Len(t) = Len(s)
             /\ \A i \in 1 .. Len(s) : t[i] = IF i = Len(s) THEN x ELSE s[i]
  OBVIOUS

LEMMA PoppedIs ==
  ASSUME NEW R, NEW s \in Seq(R), s # <<>>
  PROVE  LET t == Clocked!Front(s)
         IN  /\ t \in Seq(R) /\ Len(t) = Len(s) - 1
             /\ \A i \in 1 .. Len(s) - 1 : t[i] = s[i]
  <1>1. Len(s) \in Nat \ {0} /\ \A i \in 1 .. Len(s) - 1 : s[i] \in R
    OBVIOUS
  <1>2. Len(s) - 1 \in Int /\ 1 \in Int
    BY <1>1
  <1>3. /\ SubSeq(s, 1, Len(s) - 1) \in Seq(R)
        /\ Len(SubSeq(s, 1, Len(s) - 1)) = IF 1 <= Len(s) - 1 THEN Len(s) - 1 - 1 + 1 ELSE 0
        /\ \A i \in 1 .. Len(s) - 1 - 1 + 1 : SubSeq(s, 1, Len(s) - 1)[i] = s[1 + i - 1]
    BY <1>1, <1>2, SubSeqProperties
  <1>4. \A m \in Nat \ {0} : /\ m - 1 - 1 + 1 = m - 1
                              /\ (IF 1 <= m - 1 THEN m - 1 - 1 + 1 ELSE 0) = m - 1
                              /\ \A i \in 1 .. m - 1 : 1 + i - 1 = i
    OBVIOUS
  <1> QED
    BY <1>1, <1>3, <1>4 DEF Clocked!Front

LEMMA TopReplaced ==
  ASSUME NEW R, NEW s \in Seq(R), s # <<>>, NEW x \in R
  PROVE  LET t == Clocked!Front(s) \o <<x>>
         IN  /\ t \in Seq(R) /\ t # <<>> /\ Len(t) = Len(s)
             /\ \A i \in 1 .. Len(s) : t[i] = IF i = Len(s) THEN x ELSE s[i]
  <1> DEFINE f == Clocked!Front(s)
  <1>1. f \in Seq(R) /\ Len(f) = Len(s) - 1 /\ \A i \in 1 .. Len(s) - 1 : f[i] = s[i]
    BY PoppedIs
  <1> HIDE DEF f
  <1>2. Len(s) \in Nat \ {0}
    OBVIOUS
  <1>3. LET t == f \o <<x>>
        IN  /\ t \in Seq(R) /\ t # <<>> /\ Len(t) = Len(s)
            /\ \A i \in 1 .. Len(s) : t[i] = IF i = Len(s) THEN x ELSE s[i]
    BY <1>1, <1>2
  <1> QED
    BY <1>3 DEF f

LEMMA TopReplacedPushed ==
  ASSUME NEW R, NEW s \in Seq(R), s # <<>>, NEW x \in R, NEW y \in R
  PROVE  LET t == Clocked!Front(s) \o <<x, y>>
         IN  /\ t \in Seq(R) /\ t # <<>> /\ Len(t) = Len(s) + 1
             /\ \A i \in 1 .. Len(s) + 1 :
                    t[i] = IF i = Len(s) THEN x ELSE IF i = Len(s) + 1 THEN y ELSE s[i]
  <1> DEFINE f == Clocked!Front(s)
  <1>1. f \in Seq(R) /\ Len(f) = Len(s) - 1 /\ \A i \in 1 .. Len(s) - 1 : f[i] = s[i]
    BY PoppedIs
  <1> HIDE DEF f
  <1>2. Len(s) \in Nat \ {0}
    OBVIOUS
  <1>3. LET t == f \o <<x, y>>
        IN  /\ t \in Seq(R) /\ t # <<>> /\ Len(t) = Len(s) + 1
            /\ \A i \in 1 .. Len(s) + 1 :
                   t[i] = IF i = Len(s) THEN x ELSE IF i = Len(s) + 1 THEN y ELSE s[i]
    BY <1>1, <1>2
  <1> QED
    BY <1>3 DEF f

(* What the assumption says of the program at hand.                           *)
LEMMA ProgramFacts ==
  ASSUME cprog \in ClockedPrograms
  PROVE  /\ SampleLoop \notin BlockDomains /\ SampleLoop \in Clocked!Contexts
         /\ BlockDomains \subseteq Clocked!Contexts
         /\ \A c \in Clocked!Contexts : c \in BlockDomains \/ c = SampleLoop
         /\ MaxDelay \in Nat \ {0} /\ MaxClock \in Nat /\ MaxSamples \in Nat /\ MaxCalls \in Nat
         /\ cprog.parent \in [BlockDomains -> Clocked!Contexts]
         /\ cprog.shape \in [BlockDomains -> {"if", "loop", "modulo"}]
         /\ cprog.factor \in [BlockDomains -> Nat \ {0}]
         /\ cprog.hold \in [BlockDomains -> {"fresh", "slow", "slowRead"}]
         /\ cprog.home \in [Lines -> Clocked!Contexts]
         /\ cprog.kind \in [Lines -> {"shift", "circular", "ifWrapping"}]
         /\ \A l \in Lines : Clocked!Size(l) \in Nat /\ Clocked!Size(l) > MaxDelay
  <1>1. /\ SampleLoop \notin BlockDomains
        /\ MaxDelay \in Nat \ {0} /\ Clocked!CircularSize \in MaxDelay + 1 .. 2 * MaxDelay
        /\ MaxClock \in Nat /\ MaxSamples \in Nat /\ MaxCalls \in Nat
        /\ cprog \in [parent : [BlockDomains -> Clocked!Contexts],
                      shape : [BlockDomains -> {"if", "loop", "modulo"}],
                      factor : [BlockDomains -> Nat \ {0}],
                      hold : [BlockDomains -> {"fresh", "slow", "slowRead"}],
                      home : [Lines -> Clocked!Contexts],
                      kind : [Lines -> {"shift", "circular", "ifWrapping"}]]
    BY LoweringAssumption DEF Clocked!ProgramsAssumption
  <1>2. \A l \in Lines : Clocked!Size(l) \in Nat /\ Clocked!Size(l) > MaxDelay
    BY <1>1 DEF Clocked!Size
  <1> QED
    BY <1>1, <1>2 DEF Clocked!Contexts

(* The region on top.                                                         *)
LEMMA TopRegion ==
  ASSUME ClockedTypes, RegionsInv, stack # <<>>
  PROVE  /\ Len(stack) \in Nat \ {0} /\ Len(stack) \in 1 .. Len(stack)
         /\ Clocked!Current = stack[Len(stack)] /\ Clocked!Current \in Regions
         /\ Clocked!Current.ctx \in Clocked!Contexts /\ Clocked!Current.left \in 1 .. MaxClock + 1
         /\ Clocked!Current.blocks \subseteq Clocked!BlocksIn(Clocked!Current.ctx)
         /\ Clocked!Current.stage \in {"body", "blocks"}
         /\ Open(Clocked!Current.ctx)
         /\ inCall = TRUE
         /\ Clocked!Current.ctx \in BlockDomains => cprog.parent[Clocked!Current.ctx] # Clocked!Current.ctx
         /\ Running(Clocked!Current.ctx) <=> Clocked!Current.stage = "blocks"
  <1>1. /\ Len(stack) \in Nat \ {0} /\ Len(stack) \in 1 .. Len(stack)
        /\ stack[Len(stack)] \in Regions
    BY DEF RegionsInv
  <1>2. Clocked!Current = stack[Len(stack)]
    BY DEF Clocked!Current
  <1>3. /\ Clocked!Current.ctx \in Clocked!Contexts /\ Clocked!Current.left \in 1 .. MaxClock + 1
        /\ Clocked!Current.stage \in {"body", "blocks"}
        /\ Clocked!Current.blocks \subseteq Clocked!BlocksIn(Clocked!Current.ctx)
        /\ inCall = TRUE
    BY <1>1, <1>2 DEF Regions, RegionsInv
  <1>4. Open(Clocked!Current.ctx)
    BY <1>1, <1>2 DEF Open
  <1>5. ASSUME Clocked!Current.ctx \in BlockDomains
        PROVE  cprog.parent[Clocked!Current.ctx] # Clocked!Current.ctx
    <2>1. Len(stack) # 1
      BY <1>2, <1>5, ProgramFacts DEF RegionsInv, ClockedTypes
    <2>2. Len(stack) \in 2 .. Len(stack) /\ Len(stack) - 1 \in 1 .. Len(stack) /\ Len(stack) - 1 # Len(stack)
      <3>1. \A m \in Nat \ {0} : m # 1 => m \in 2 .. m /\ m - 1 \in 1 .. m /\ m - 1 # m
        OBVIOUS
      <3> QED
        BY <1>1, <2>1, <3>1
    <2> QED
      BY <1>1, <1>2, <2>2 DEF RegionsInv
  <1>6. Running(Clocked!Current.ctx) <=> Clocked!Current.stage = "blocks"
    BY <1>1, <1>2 DEF Running, RegionsInv
  <1> QED
    BY <1>1, <1>2, <1>3, <1>4, <1>5, <1>6

(* The first part of a body opens the blocks of its region.                   *)
LEMMA BodyRegions ==
  ASSUME ClockedTypes, RegionsInv, Clocked!Body, NEW c, c = Clocked!Current.ctx
  PROVE  /\ RegionsInv'
         /\ \A x : Open(x)' <=> Open(x)
         /\ \A x : Running(x)' <=> Running(x) \/ x = c
         /\ \A d \in BlockDomains : Passed(d)' <=> Passed(d)
         /\ ~ Running(c)
  <1>1. stack # <<>> /\ Clocked!Current.stage = "body" /\ cprog' = cprog /\ inCall' = inCall
        /\ stack' = [stack EXCEPT ![Len(stack)] = [Clocked!Current EXCEPT !.stage = "blocks"]]
    BY DEF Clocked!Body, Clocked!Continue
  <1> DEFINE n == Len(stack)
             now == [Clocked!Current EXCEPT !.stage = "blocks"]
  <1>2. /\ n \in Nat \ {0} /\ n \in 1 .. n /\ Clocked!Current = stack[n] /\ Clocked!Current \in Regions
        /\ ~ Running(c) /\ Clocked!Current.blocks \subseteq Clocked!BlocksIn(c)
    BY <1>1, TopRegion
  <1>3. /\ now \in Regions /\ now.ctx = c /\ now.stage = "blocks"
        /\ now.blocks = Clocked!Current.blocks /\ now.left = Clocked!Current.left
    BY <1>2 DEF Regions
  <1>4. Clocked!Current.blocks = Clocked!BlocksIn(c)
    BY <1>1, <1>2 DEF RegionsInv
  <1> HIDE DEF now
  <1>5. /\ stack' \in Seq(Regions) /\ stack' # <<>> /\ Len(stack') = n
        /\ \A i \in 1 .. n : stack'[i] = IF i = n THEN now ELSE stack[i]
    BY <1>1, <1>3, Replaced DEF RegionsInv, now
  <1>6. /\ \A i \in 1 .. n : stack'[i].ctx = stack[i].ctx /\ stack'[i].blocks = stack[i].blocks
                             /\ stack'[i].left = stack[i].left
        /\ \A i \in 1 .. n : stack'[i].stage = IF i = n THEN "blocks" ELSE stack[i].stage
    BY <1>2, <1>3, <1>5
  <1>7. \A x : Clocked!BlocksIn(x)' = Clocked!BlocksIn(x)
    BY <1>1 DEF Clocked!BlocksIn
  <1>8. RegionsInv'
    BY <1>1, <1>2, <1>5, <1>6, <1>7 DEF RegionsInv
  <1>9. \A x : Open(x)' <=> Open(x)
    BY <1>5, <1>6 DEF Open
  <1>10. \A x : Running(x)' <=> Running(x) \/ x = c
    BY <1>2, <1>5, <1>6 DEF Running, RegionsInv
  <1>11. ASSUME NEW d \in BlockDomains PROVE Passed(d)' <=> Passed(d)
    <2>1. cprog.parent[d] = c => d \in stack[n].blocks
      BY <1>2, <1>4 DEF Clocked!BlocksIn
    <2>2. \A i \in 1 .. n : stack[i].ctx = cprog.parent[d] =>
             (stack'[i].stage = "blocks" /\ d \notin stack'[i].blocks
                <=> stack[i].stage = "blocks" /\ d \notin stack[i].blocks)
      BY <1>2, <1>6, <2>1
    <2> QED
      BY <1>1, <1>5, <1>6, <2>2 DEF Passed
  <1> QED
    BY <1>2, <1>8, <1>9, <1>10, <1>11

(* A block is reached once in a firing of its parent, when it is not open.    *)
LEMMA GuardRegions ==
  ASSUME ClockedTypes, RegionsInv, NEW d \in BlockDomains, NEW clock \in Clocked!Clocks(d),
         Clocked!Guard(d, clock)
  PROVE  /\ RegionsInv'
         /\ \A x : Open(x)' <=> Open(x) \/ (x = d /\ Clocked!Runs(d, clock) > 0)
         /\ \A x : Running(x)' <=> Running(x)
         /\ \A e \in BlockDomains : Passed(e)' <=> Passed(e) \/ e = d
         /\ ~ Open(d) /\ ~ Passed(d)
  <1> DEFINE n == Len(stack)
             c == Clocked!Current.ctx
             after == [Clocked!Current EXCEPT !.blocks = @ \ {d}]
             runs == Clocked!Runs(d, clock)
             new == Clocked!Region(d, runs)
  <1>1. /\ stack # <<>> /\ Clocked!Current.stage = "blocks" /\ d \in Clocked!Current.blocks
        /\ cprog' = cprog /\ inCall' = inCall
        /\ stack' = Clocked!Front(stack) \o IF runs > 0 THEN <<after, new>> ELSE <<after>>
    BY DEF Clocked!Guard
  <1>2. /\ n \in Nat \ {0} /\ n \in 1 .. n /\ Clocked!Current = stack[n] /\ Clocked!Current \in Regions
        /\ Clocked!Current.blocks \subseteq Clocked!BlocksIn(c) /\ c \in Clocked!Contexts
        /\ inCall = TRUE
    BY <1>1, TopRegion
  <1>3. /\ after \in Regions /\ after.ctx = c /\ after.stage = "blocks"
        /\ after.blocks = Clocked!Current.blocks \ {d} /\ after.left = Clocked!Current.left
    BY <1>1, <1>2 DEF Regions
  <1>4. cprog.parent[d] = c
    BY <1>1, <1>2 DEF Clocked!BlocksIn
  <1>5. /\ runs \in 0 .. MaxClock + 1
        /\ cprog.shape[d] = "modulo" => runs <= 1
    <2>1. cprog.shape[d] \in {"if", "loop", "modulo"} /\ MaxClock \in Nat
      BY ProgramFacts DEF ClockedTypes
    <2>2. CASE cprog.shape[d] = "if"
      <3>1. clock \in 0 .. 1
        BY <2>2 DEF Clocked!Clocks
      <3> QED
        BY <2>1, <2>2, <3>1 DEF Clocked!Runs
    <2>3. CASE cprog.shape[d] = "loop"
      <3>1. clock \in 0 .. MaxClock
        BY <2>3 DEF Clocked!Clocks
      <3> QED
        BY <2>1, <2>3, <3>1 DEF Clocked!Runs
    <2>4. CASE cprog.shape[d] = "modulo"
      BY <2>1, <2>4 DEF Clocked!Runs
    <2> QED
      BY <2>1, <2>2, <2>3, <2>4
  <1>6. /\ new.ctx = d /\ new.left = runs /\ new.stage = "body" /\ new.blocks = Clocked!BlocksIn(d)
        /\ runs > 0 => new \in Regions
    BY <1>5, ProgramFacts DEF Clocked!Region, Regions, Clocked!BlocksIn, ClockedTypes
  <1>7. ~ Open(d)
    <2> SUFFICES ASSUME NEW i \in 1 .. n, stack[i].ctx = d PROVE FALSE
      BY DEF Open
    <2>1. i # 1
      <3>1. stack[1].ctx = SampleLoop
        BY <1>1 DEF RegionsInv
      <3>2. d # SampleLoop
        BY ProgramFacts DEF ClockedTypes
      <3> QED
        BY <3>1, <3>2
    <2>2. i \in 2 .. n /\ i - 1 \in 1 .. n /\ i - 1 # n
      BY <1>2, <2>1
    <2>3. cprog.parent[d] = stack[i - 1].ctx
      BY <2>2 DEF RegionsInv
    <2> QED
      BY <1>2, <1>4, <2>2, <2>3 DEF RegionsInv
  <1>8. ~ Passed(d)
    BY <1>1, <1>2, <1>4 DEF Passed, RegionsInv
  <1>9. \A x : Clocked!BlocksIn(x)' = Clocked!BlocksIn(x)
    BY <1>1 DEF Clocked!BlocksIn
  <1> HIDE DEF after, new, runs
  <1>10. ASSUME NEW m \in {n, n + 1}, stack' \in Seq(Regions), Len(stack') = m,
                \A i \in 1 .. n : stack'[i] = IF i = n THEN after ELSE stack[i],
                m = n + 1 => runs > 0 /\ stack'[n + 1] = new,
                m = n => ~ (runs > 0)
         PROVE  /\ RegionsInv'
                /\ \A x : Open(x)' <=> Open(x) \/ (x = d /\ runs > 0)
                /\ \A x : Running(x)' <=> Running(x)
                /\ \A e \in BlockDomains : Passed(e)' <=> Passed(e) \/ e = d
    <2>1. /\ \A i \in 1 .. n : stack'[i].ctx = stack[i].ctx /\ stack'[i].stage = stack[i].stage
                               /\ stack'[i].left = stack[i].left
          /\ \A i \in 1 .. n : stack'[i].blocks = IF i = n THEN stack[n].blocks \ {d} ELSE stack[i].blocks
      BY <1>1, <1>2, <1>3, <1>10
    <2>2. m = n + 1 => /\ stack'[n + 1].ctx = d /\ stack'[n + 1].stage = "body"
                       /\ stack'[n + 1].left = runs /\ stack'[n + 1].blocks = Clocked!BlocksIn(d)
      BY <1>6, <1>10
    <2>3. \A i \in 1 .. m : i \in 1 .. n \/ (i = n + 1 /\ m = n + 1)
      BY <1>2, <1>10
    <2>4. 1 .. n \subseteq 1 .. m /\ (m = n + 1 => n + 1 \in 1 .. m)
      BY <1>2, <1>10
    <2>5. RegionsInv'
      <3>1. (\A i \in 2 .. Len(stack) :
               stack[i].ctx \in BlockDomains /\ cprog.parent[stack[i].ctx] = stack[i - 1].ctx)'
        <4> SUFFICES ASSUME NEW i \in 2 .. m
                     PROVE  stack'[i].ctx \in BlockDomains /\ cprog.parent[stack'[i].ctx] = stack'[i - 1].ctx
          BY <1>1, <1>10
        <4>1. CASE i \in 1 .. n
          <5>1. i \in 2 .. n /\ i - 1 \in 1 .. n
            BY <1>2, <4>1
          <5> QED
            BY <2>1, <5>1 DEF RegionsInv
        <4>2. CASE i = n + 1 /\ m = n + 1
          <5>1. i - 1 = n
            BY <1>2, <4>2
          <5> QED
            BY <1>2, <1>4, <2>1, <2>2, <4>2, <5>1
        <4> QED
          BY <2>3, <4>1, <4>2
      <3>2. (\A i, j \in 1 .. Len(stack) : stack[i].ctx = stack[j].ctx => i = j)'
        <4> SUFFICES ASSUME NEW i \in 1 .. m, NEW j \in 1 .. m, stack'[i].ctx = stack'[j].ctx
                     PROVE  i = j
          BY <1>10
        <4>1. CASE i \in 1 .. n /\ j \in 1 .. n
          BY <2>1, <4>1 DEF RegionsInv
        <4>2. ~ (i \in 1 .. n /\ j = n + 1 /\ m = n + 1)
          BY <1>7, <2>1, <2>2 DEF Open
        <4>3. ~ (j \in 1 .. n /\ i = n + 1 /\ m = n + 1)
          BY <1>7, <2>1, <2>2 DEF Open
        <4> QED
          BY <2>3, <4>1, <4>2, <4>3
      <3>3. (\A i \in 1 .. Len(stack) :
               /\ stack[i].blocks \subseteq Clocked!BlocksIn(stack[i].ctx)
               /\ stack[i].stage = "body" => stack[i].blocks = Clocked!BlocksIn(stack[i].ctx)
               /\ i < Len(stack) => stack[i].stage = "blocks"
               /\ stack[i].ctx \in BlockDomains /\ cprog.shape[stack[i].ctx] = "modulo" => stack[i].left = 1)'
        <4> SUFFICES ASSUME NEW i \in 1 .. m
                     PROVE  /\ stack'[i].blocks \subseteq Clocked!BlocksIn(stack'[i].ctx)
                            /\ stack'[i].stage = "body" => stack'[i].blocks = Clocked!BlocksIn(stack'[i].ctx)
                            /\ i < m => stack'[i].stage = "blocks"
                            /\ stack'[i].ctx \in BlockDomains /\ cprog.shape[stack'[i].ctx] = "modulo" => stack'[i].left = 1
          BY <1>1, <1>9, <1>10
        <4>1. CASE i \in 1 .. n
          <5>1. stack'[i].blocks \subseteq stack[i].blocks /\ (i # n => stack'[i].blocks = stack[i].blocks)
            BY <2>1, <4>1
          <5>2. i # n => i < n
            BY <1>2, <4>1
          <5>3. stack[n].stage = "blocks"
            BY <1>1, <1>2
          <5> QED
            BY <1>2, <2>1, <4>1, <5>1, <5>2, <5>3 DEF RegionsInv
        <4>2. CASE i = n + 1 /\ m = n + 1
          <5>1. cprog.shape[d] = "modulo" => runs = 1
            BY <1>5, <1>10, <4>2 DEF runs
          <5> QED
            BY <2>2, <4>2, <5>1
        <4> QED
          BY <2>3, <4>1, <4>2
      <3>4. (stack # <<>> => inCall = TRUE /\ stack[1].ctx = SampleLoop)'
        BY <1>1, <1>2, <2>1 DEF RegionsInv
      <3> QED
        BY <1>10, <3>1, <3>2, <3>3, <3>4 DEF RegionsInv
    <2>6. \A x : Open(x)' <=> Open(x) \/ (x = d /\ runs > 0)
      BY <1>10, <2>1, <2>2, <2>3, <2>4 DEF Open
    <2>7. \A x : Running(x)' <=> Running(x)
      BY <1>10, <2>1, <2>2, <2>3, <2>4 DEF Running
    <2>8. ASSUME NEW e \in BlockDomains PROVE Passed(e)' <=> Passed(e) \/ e = d
      <3>1. \A i \in 1 .. n : stack'[i].stage = "blocks" /\ e \notin stack'[i].blocks
                 <=> stack[i].stage = "blocks" /\ (e \notin stack[i].blocks \/ (e = d /\ i = n))
        BY <2>1
      <3>2. stack[n].ctx = c /\ stack[n].stage = "blocks"
        BY <1>1, <1>2
      <3> QED
        <4>1. \A i \in 1 .. n : stack[i].ctx = cprog.parent[d] => i = n
          BY <1>2, <1>4 DEF RegionsInv
        <4>2. Passed(e)' <=> \E i \in 1 .. n : stack'[i].ctx = cprog.parent[e] /\ stack'[i].stage = "blocks"
                                              /\ e \notin stack'[i].blocks
          BY <1>1, <1>10, <2>2, <2>3, <2>4 DEF Passed
        <4>3. Passed(e)' <=> \E i \in 1 .. n : stack[i].ctx = cprog.parent[e] /\ stack[i].stage = "blocks"
                                              /\ (e \notin stack[i].blocks \/ (e = d /\ i = n))
          BY <2>1, <3>1, <4>2
        <4>4. CASE e = d
          BY <1>2, <1>4, <3>2, <4>3, <4>4
        <4>5. CASE e # d
          BY <4>3, <4>5 DEF Passed
        <4> QED
          BY <4>4, <4>5
    <2> QED
      BY <2>5, <2>6, <2>7, <2>8
  <1>11. CASE runs > 0
    <2>1. /\ stack' \in Seq(Regions) /\ Len(stack') = n + 1
          /\ \A i \in 1 .. n + 1 :
                 stack'[i] = IF i = n THEN after ELSE IF i = n + 1 THEN new ELSE stack[i]
      BY <1>1, <1>3, <1>6, <1>11, TopReplacedPushed DEF RegionsInv
    <2>2. /\ \A i \in 1 .. n : stack'[i] = IF i = n THEN after ELSE stack[i]
          /\ stack'[n + 1] = new
      BY <1>2, <2>1
    <2> QED
      BY <1>7, <1>8, <1>10, <1>11, <2>1, <2>2 DEF runs
  <1>12. CASE ~ (runs > 0)
    <2>1. /\ stack' \in Seq(Regions) /\ Len(stack') = n
          /\ \A i \in 1 .. n : stack'[i] = IF i = n THEN after ELSE stack[i]
      BY <1>1, <1>3, <1>12, TopReplaced DEF RegionsInv
    <2>2. n # n + 1
      BY <1>2
    <2> QED
      BY <1>7, <1>8, <1>10, <1>12, <2>1, <2>2 DEF runs
  <1> QED
    BY <1>11, <1>12

(* The end of a body closes its region or starts it over.                     *)
LEMMA EndRegions ==
  ASSUME ClockedTypes, RegionsInv, Clocked!EndBody, NEW c, c = Clocked!Current.ctx
  PROVE  /\ RegionsInv'
         /\ \A x : Open(x)' <=> Open(x) /\ (x # c \/ Clocked!Current.left > 1)
         /\ \A x : Running(x)' <=> Running(x) /\ x # c
         /\ \A d \in BlockDomains : cprog.parent[d] = c => Passed(d) /\ ~ Passed(d)'
         /\ \A d \in BlockDomains : cprog.parent[d] # c => (Passed(d)' <=> Passed(d))
  <1> DEFINE n == Len(stack)
             again == Clocked!Region(c, Clocked!Current.left - 1)
  <1>1. /\ stack # <<>> /\ Clocked!Current.stage = "blocks" /\ Clocked!Current.blocks = {}
        /\ cprog' = cprog /\ inCall' = inCall
        /\ stack' = IF Clocked!Current.left > 1 THEN [stack EXCEPT ![n] = again]
                    ELSE Clocked!Front(stack)
    BY DEF Clocked!EndBody, Clocked!Continue
  <1>2. /\ n \in Nat \ {0} /\ n \in 1 .. n /\ Clocked!Current = stack[n] /\ Clocked!Current \in Regions
        /\ c \in Clocked!Contexts /\ Clocked!Current.left \in 1 .. MaxClock + 1
        /\ Running(c) /\ Open(c) /\ inCall = TRUE
    BY <1>1, TopRegion
  <1>3. /\ again.ctx = c /\ again.left = Clocked!Current.left - 1 /\ again.stage = "body"
        /\ again.blocks = Clocked!BlocksIn(c)
        /\ Clocked!Current.left > 1 => again \in Regions
    BY <1>2, ProgramFacts DEF Clocked!Region, Regions, Clocked!BlocksIn, ClockedTypes
  <1>4. \A x : Clocked!BlocksIn(x)' = Clocked!BlocksIn(x)
    BY <1>1 DEF Clocked!BlocksIn
  <1>5. ASSUME NEW d \in BlockDomains, cprog.parent[d] = c PROVE Passed(d)
    BY <1>1, <1>2, <1>5 DEF Passed
  <1> HIDE DEF again
  <1>6. CASE Clocked!Current.left > 1
    <2>1. /\ stack' \in Seq(Regions) /\ stack' # <<>> /\ Len(stack') = n
          /\ \A i \in 1 .. n : stack'[i] = IF i = n THEN again ELSE stack[i]
      BY <1>1, <1>3, <1>6, Replaced DEF RegionsInv
    <2>2. /\ \A i \in 1 .. n : stack'[i].ctx = stack[i].ctx
          /\ \A i \in 1 .. n : i # n => stack'[i] = stack[i]
          /\ stack'[n].stage = "body" /\ stack'[n].blocks = Clocked!BlocksIn(c)
          /\ stack'[n].left = stack[n].left - 1 /\ stack[n].left # 1
      BY <1>2, <1>3, <1>6, <2>1
    <2>3. RegionsInv'
      <3>1. (\A i \in 1 .. Len(stack) :
               /\ stack[i].blocks \subseteq Clocked!BlocksIn(stack[i].ctx)
               /\ stack[i].stage = "body" => stack[i].blocks = Clocked!BlocksIn(stack[i].ctx)
               /\ i < Len(stack) => stack[i].stage = "blocks"
               /\ stack[i].ctx \in BlockDomains /\ cprog.shape[stack[i].ctx] = "modulo" => stack[i].left = 1)'
        BY <1>1, <1>2, <1>4, <2>1, <2>2 DEF RegionsInv
      <3>2. (\A i \in 2 .. Len(stack) :
               stack[i].ctx \in BlockDomains /\ cprog.parent[stack[i].ctx] = stack[i - 1].ctx)'
        <4>1. \A i \in 2 .. n : i \in 1 .. n /\ i - 1 \in 1 .. n
          BY <1>2
        <4> QED
          BY <1>1, <2>1, <2>2, <4>1 DEF RegionsInv
      <3>3. (\A i, j \in 1 .. Len(stack) : stack[i].ctx = stack[j].ctx => i = j)'
        BY <2>1, <2>2 DEF RegionsInv
      <3>4. (stack # <<>> => inCall = TRUE /\ stack[1].ctx = SampleLoop)'
        <4>1. 1 \in 1 .. n
          BY <1>2
        <4> QED
          BY <1>1, <1>2, <2>1, <2>2, <4>1 DEF RegionsInv
      <3> QED
        BY <2>1, <3>1, <3>2, <3>3, <3>4 DEF RegionsInv
    <2>4. \A x : Open(x)' <=> Open(x)
      BY <2>1, <2>2 DEF Open
    <2>5. \A x : Running(x)' <=> Running(x) /\ x # c
      <3>1. ASSUME NEW x, Running(x)' PROVE Running(x) /\ x # c
        <4>1. PICK i \in 1 .. n : stack'[i].ctx = x /\ stack'[i].stage = "blocks"
          BY <2>1, <3>1 DEF Running
        <4>2. i # n /\ stack'[i] = stack[i]
          BY <2>2, <4>1
        <4>3. x # c
          BY <1>2, <4>1, <4>2 DEF RegionsInv
        <4> QED
          BY <4>1, <4>2, <4>3 DEF Running
      <3>2. ASSUME NEW x, Running(x), x # c PROVE Running(x)'
        <4>1. PICK i \in 1 .. n : stack[i].ctx = x /\ stack[i].stage = "blocks"
          BY <3>2 DEF Running
        <4>2. i # n /\ stack'[i] = stack[i]
          BY <1>2, <2>2, <3>2, <4>1
        <4> QED
          BY <2>1, <4>1, <4>2 DEF Running
      <3> QED
        BY <3>1, <3>2
    <2>6. ASSUME NEW d \in BlockDomains PROVE Passed(d)' <=> Passed(d) /\ cprog.parent[d] # c
      BY <1>1, <1>2, <2>1, <2>2 DEF Passed, RegionsInv
    <2> QED
      BY <1>5, <1>6, <2>3, <2>4, <2>5, <2>6
  <1>7. CASE ~ (Clocked!Current.left > 1)
    <2>1. /\ stack' \in Seq(Regions) /\ Len(stack') = n - 1
          /\ \A i \in 1 .. n - 1 : stack'[i] = stack[i]
      BY <1>1, <1>7, PoppedIs DEF RegionsInv
    <2>2. \A i \in 1 .. n - 1 : i \in 1 .. n /\ i # n /\ i < n
      BY <1>2
    <2>3. \A i \in 1 .. n : i \in 1 .. n - 1 \/ i = n
      BY <1>2
    <2>4. \A i \in 1 .. n - 1 : stack[i].ctx # c
      BY <1>2, <2>2 DEF RegionsInv
    <2>5. RegionsInv'
      <3>1. \A i \in 2 .. n - 1 : i \in 2 .. n /\ i \in 1 .. n - 1 /\ i - 1 \in 1 .. n - 1
        BY <1>2
      <3>2. stack' # <<>> => 1 \in 1 .. n - 1
        BY <1>2, <2>1
      <3>3. (\A i, j \in 1 .. Len(stack) : stack[i].ctx = stack[j].ctx => i = j)'
        BY <2>1, <2>2 DEF RegionsInv
      <3>4. (stack # <<>> => inCall = TRUE /\ stack[1].ctx = SampleLoop)'
        BY <1>1, <1>2, <2>1, <3>2 DEF RegionsInv
      <3>5. (\A i \in 2 .. Len(stack) :
               stack[i].ctx \in BlockDomains /\ cprog.parent[stack[i].ctx] = stack[i - 1].ctx)'
        BY <1>1, <2>1, <3>1 DEF RegionsInv
      <3>6. (\A i \in 1 .. Len(stack) :
               /\ stack[i].blocks \subseteq Clocked!BlocksIn(stack[i].ctx)
               /\ stack[i].stage = "body" => stack[i].blocks = Clocked!BlocksIn(stack[i].ctx)
               /\ i < Len(stack) => stack[i].stage = "blocks"
               /\ stack[i].ctx \in BlockDomains /\ cprog.shape[stack[i].ctx] = "modulo" => stack[i].left = 1)'
        <4> SUFFICES ASSUME NEW i \in 1 .. n - 1
                     PROVE  /\ stack[i].blocks \subseteq Clocked!BlocksIn(stack[i].ctx)
                            /\ stack[i].stage = "body" => stack[i].blocks = Clocked!BlocksIn(stack[i].ctx)
                            /\ stack[i].stage = "blocks"
                            /\ stack[i].ctx \in BlockDomains /\ cprog.shape[stack[i].ctx] = "modulo" => stack[i].left = 1
          BY <1>1, <1>4, <2>1
        <4> QED
          BY <2>2 DEF RegionsInv
      <3> QED
        BY <2>1, <3>3, <3>4, <3>5, <3>6 DEF RegionsInv
    <2>6. \A x : Open(x)' <=> Open(x) /\ x # c
      BY <1>2, <2>1, <2>2, <2>3, <2>4 DEF Open
    <2>7. \A x : Running(x)' <=> Running(x) /\ x # c
      BY <1>2, <2>1, <2>2, <2>3, <2>4 DEF Running
    <2>8. ASSUME NEW d \in BlockDomains PROVE Passed(d)' <=> Passed(d) /\ cprog.parent[d] # c
      <3>1. Passed(d)' <=> \E i \in 1 .. n - 1 : stack[i].ctx = cprog.parent[d] /\ stack[i].stage = "blocks"
                                              /\ d \notin stack[i].blocks
        BY <1>1, <2>1 DEF Passed
      <3>2. stack[n].ctx = c
        BY <1>2
      <3> QED
        BY <2>2, <2>3, <2>4, <3>1, <3>2 DEF Passed
    <2> QED
      BY <1>5, <1>7, <2>5, <2>6, <2>7, <2>8
  <1> QED
    BY <1>6, <1>7

-----------------------------------------------------------------------------
(* Clocked blocks: lines, phases and block-rate values.                       *)

(* What the firing `amount' ones before the current or next one of c wrote.   *)
WrittenAgo(c, amount) == IF amount <= fired[c] THEN fired[c] + 1 - amount ELSE 0

(* A line keeps its past across and between the firings of its region; in one *)
(* it also holds the present, amount zero.                                    *)
LinesInv ==
    \A l \in Lines : \A amount \in 0 .. MaxDelay :
        amount >= 1 \/ Running(cprog.home[l]) =>
            buf[l][Clocked!Slot(l, amount)] = WrittenAgo(cprog.home[l], amount)

(* Ticks of a "modulo" block, those of the firing its parent is in included,  *)
(* and the firings it started.                                                *)
Ticks(d) == fired[cprog.parent[d]] + IF Passed(d) THEN 1 ELSE 0
Starts(d) == fired[d] + IF Open(d) THEN 1 ELSE 0

PhaseInv ==
    \A d \in BlockDomains :
        cprog.shape[d] = "modulo" =>
            Starts(d) * cprog.factor[d] =
                Ticks(d) + IF dsCounter[d] = 0 THEN 0 ELSE cprog.factor[d] - dsCounter[d]

SlowInv ==
    \A d \in BlockDomains :
        /\ computed[d] = IF slowDone[d] THEN 1 ELSE 0
        /\ Running(d) /\ Clocked!Lazy(d) => slowDone[d] = TRUE
        /\ inCall = TRUE /\ slowDone[d] = TRUE /\ Clocked!Moved(d) => perm[d] = calls
        /\ inCall = TRUE /\ slowDone[d] = TRUE /\ Clocked!KeptLive(d) => slowVar[d] = calls
        /\ perm[d] = held[d] \/ (Clocked!Moved(d) /\ Open(d))

ClockedInv == ClockedTypes /\ RegionsInv /\ LinesInv /\ PhaseInv /\ SlowInv

(* What depends on the program only.                                          *)
LEMMA SameProgram ==
  ASSUME cprog' = cprog
  PROVE  /\ \A l : Clocked!Size(l)' = Clocked!Size(l)
         /\ \A d : Clocked!Lazy(d)' = Clocked!Lazy(d)
         /\ \A d : Clocked!Moved(d)' = Clocked!Moved(d)
         /\ \A d : Clocked!KeptLive(d)' = Clocked!KeptLive(d)
  BY DEF Clocked!Size, Clocked!Lazy, Clocked!Moved, Clocked!KeptLive

(* Regions that do not change.                                                *)
LEMMA SameRegions ==
  ASSUME stack' = stack, cprog' = cprog
  PROVE  /\ \A x : Open(x)' <=> Open(x)
         /\ \A x : Running(x)' <=> Running(x)
         /\ \A d \in BlockDomains : Passed(d)' <=> Passed(d)
         /\ RegionsInv /\ (stack = <<>> \/ inCall' = inCall) => RegionsInv'
  <1>1. \A x : Clocked!BlocksIn(x)' = Clocked!BlocksIn(x)
    BY DEF Clocked!BlocksIn
  <1>2. RegionsInv /\ (stack = <<>> \/ inCall' = inCall) => RegionsInv'
    BY <1>1 DEF RegionsInv
  <1> QED
    BY <1>2 DEF Open, Running, Passed

LEMMA NoRegions ==
  ASSUME stack = <<>>
  PROVE  (\A x : ~ Open(x) /\ ~ Running(x)) /\ \A d : ~ Passed(d)
  BY DEF Open, Running, Passed

(* Amounts of a line have slots of their own.                                 *)
LEMMA SlotFacts ==
  ASSUME ClockedTypes, NEW l \in Lines, NEW amount \in 0 .. MaxDelay
  PROVE  /\ Clocked!Slot(l, amount) \in 0 .. Clocked!Size(l) - 1
         /\ amount # 0 => Clocked!Slot(l, amount) # Clocked!Slot(l, 0)
         /\ Clocked!Slot(l, 0) \in 0 .. Clocked!Size(l) - 1
  <1>1. /\ Clocked!Size(l) \in Nat \ {0} /\ Clocked!Size(l) > MaxDelay /\ MaxDelay \in Nat \ {0}
        /\ cprog.kind[l] \in {"shift", "circular", "ifWrapping"}
        /\ cprog.home[l] \in Clocked!Contexts
        /\ counter[l] \in 0 .. Clocked!Size(l) - 1
        /\ Clocked!CursorOf(l) \in Nat
        /\ amount \in Nat /\ amount < Clocked!Size(l)
    BY ProgramFacts DEF ClockedTypes, Clocked!CursorOf
  <1>2. ASSUME NEW x \in Int
        PROVE  /\ (x - amount) % Clocked!Size(l) \in 0 .. Clocked!Size(l) - 1
               /\ (x - 0) % Clocked!Size(l) \in 0 .. Clocked!Size(l) - 1
               /\ amount # 0 => (x - amount) % Clocked!Size(l) # (x - 0) % Clocked!Size(l)
    <2>1. /\ x - amount \in Int /\ x - 0 \in Int
          /\ (x - amount) - (x - 0) < Clocked!Size(l) /\ (x - 0) - (x - amount) < Clocked!Size(l)
          /\ amount # 0 => x - amount # x - 0
      BY <1>1
    <2>2. (x - amount) % Clocked!Size(l) = (x - 0) % Clocked!Size(l) => x - amount = x - 0
      BY <1>1, <2>1, SameRemainder
    <2> QED
      BY <1>1, <2>1, <2>2
  <1>3. CASE cprog.kind[l] = "shift"
    <2>1. Clocked!Slot(l, amount) = amount /\ Clocked!Slot(l, 0) = 0
      BY <1>3 DEF Clocked!Slot
    <2> QED
      BY <1>1, <2>1
  <1>4. CASE cprog.kind[l] = "circular"
    <2>1. /\ Clocked!Slot(l, amount) = (Clocked!CursorOf(l) - amount) % Clocked!Size(l)
          /\ Clocked!Slot(l, 0) = (Clocked!CursorOf(l) - 0) % Clocked!Size(l)
      BY <1>4 DEF Clocked!Slot
    <2> QED
      BY <1>1, <1>2, <2>1
  <1>5. CASE cprog.kind[l] = "ifWrapping"
    <2> DEFINE x == counter[l] + Clocked!Size(l)
    <2>1. /\ Clocked!Slot(l, amount) = (x - amount) % Clocked!Size(l)
          /\ Clocked!Slot(l, 0) = (x - 0) % Clocked!Size(l)
      <3>1. cprog.kind[l] # "shift" /\ cprog.kind[l] # "circular"
        BY <1>5
      <3>2. ASSUME NEW a PROVE Clocked!Slot(l, a) = (counter[l] + Clocked!Size(l) - a) % Clocked!Size(l)
        BY <1>5, <3>1, Zenon DEF Clocked!Slot
      <3>3. Clocked!Slot(l, amount) = (counter[l] + Clocked!Size(l) - amount) % Clocked!Size(l)
        BY <3>2
      <3>4. Clocked!Slot(l, 0) = (counter[l] + Clocked!Size(l) - 0) % Clocked!Size(l)
        BY <3>2
      <3>5. /\ counter[l] + Clocked!Size(l) - amount = x - amount
            /\ counter[l] + Clocked!Size(l) - 0 = x - 0
        BY <1>1
      <3> QED
        BY <3>3, <3>4, <3>5
    <2>2. x \in Int
      BY <1>1
    <2> HIDE DEF x
    <2> QED
      BY <1>2, <2>1, <2>2
  <1> QED
    BY <1>1, <1>3, <1>4, <1>5

LEMMA SlotRange ==
  ClockedTypes => \A l \in Lines, amount \in 0 .. MaxDelay :
                     Clocked!Slot(l, amount) \in 0 .. Clocked!Size(l) - 1
  BY SlotFacts

LEMMA SlotRangeNext ==
  ClockedTypes' => (\A l \in Lines, amount \in 0 .. MaxDelay :
                       Clocked!Slot(l, amount) \in 0 .. Clocked!Size(l) - 1)'
  BY SlotRange, PTL

LEMMA SameSlots ==
  ASSUME cprog' = cprog, cursor' = cursor, counter' = counter, NEW l, NEW amount
  PROVE  Clocked!Slot(l, amount)' = Clocked!Slot(l, amount)
  BY DEF Clocked!Slot, Clocked!CursorOf, Clocked!Size

(* Lines at rest.                                                             *)
LEMMA SameLines ==
  ASSUME LinesInv, cprog' = cprog, cursor' = cursor, counter' = counter, buf' = buf, fired' = fired,
         \A x : Running(x)' => Running(x)
  PROVE  LinesInv'
  <1>1. \A l, amount : Clocked!Slot(l, amount)' = Clocked!Slot(l, amount)
    BY SameSlots
  <1> QED
    BY <1>1 DEF LinesInv, WrittenAgo

LEMMA ClearedLines ==
  ASSUME cprog \in ClockedPrograms, cprog' = cprog, buf' = Clocked!EmptyBuffers', cursor' = [c \in Clocked!Contexts |-> 0],
         counter' = [l \in Lines |-> 0], fired' = [c \in Clocked!Contexts |-> 0],
         \A x : ~ Running(x)', ClockedTypes'
  PROVE  LinesInv'
  <1> SUFFICES ASSUME NEW l \in Lines, NEW amount \in 0 .. MaxDelay, amount >= 1
               PROVE  buf'[l][Clocked!Slot(l, amount)'] = WrittenAgo(cprog.home[l], amount)'
    BY DEF LinesInv
  <1>1. Clocked!Slot(l, amount)' \in 0 .. Clocked!Size(l)' - 1
    BY SlotRangeNext
  <1>2. buf'[l][Clocked!Slot(l, amount)'] = 0
    BY <1>1 DEF Clocked!EmptyBuffers
  <1>3. cprog'.home[l] \in Clocked!Contexts /\ MaxDelay \in Nat
    BY ProgramFacts
  <1> QED
    BY <1>2, <1>3 DEF WrittenAgo

LEMMA ClockedInitTypes == Clocked!Init => ClockedTypes /\ RegionsInv
  <1> SUFFICES ASSUME Clocked!Init PROVE ClockedTypes /\ RegionsInv
    OBVIOUS
  <1>1. cprog \in ClockedPrograms /\ stack = <<>>
    BY DEF Clocked!Init
  <1>2. RegionsInv
    BY <1>1 DEF RegionsInv
  <1>3. ClockedTypes
    <2>1. \A l \in Lines : buf[l] \in [0 .. Clocked!Size(l) - 1 -> Nat] /\ counter[l] \in 0 .. Clocked!Size(l) - 1
      BY <1>1, ProgramFacts DEF Clocked!Init, Clocked!EmptyBuffers
    <2>2. \A d \in BlockDomains : dsCounter[d] < cprog.factor[d]
      BY <1>1, ProgramFacts DEF Clocked!Init
    <2>3. /\ cursor \in [Clocked!Contexts -> Nat] /\ fired \in [Clocked!Contexts -> Nat]
          /\ dsCounter \in [BlockDomains -> Nat]
          /\ perm \in [BlockDomains -> Nat] /\ held \in [BlockDomains -> Nat]
          /\ slowVar \in [BlockDomains -> 0 .. MaxCalls \cup {Off}]
          /\ slowDone \in [BlockDomains -> BOOLEAN]
          /\ computed \in [BlockDomains -> Nat]
      BY DEF Clocked!Init
    <2>4. inCall \in BOOLEAN /\ calls \in 0 .. MaxCalls /\ samples \in 0 .. MaxSamples
      <3>1. inCall = FALSE /\ calls = 0 /\ samples = 0
        BY DEF Clocked!Init
      <3>2. MaxCalls \in Nat /\ MaxSamples \in Nat
        BY <1>1, ProgramFacts
      <3>3. inCall \in BOOLEAN
        BY <3>1, Zenon
      <3>4. calls \in 0 .. MaxCalls /\ samples \in 0 .. MaxSamples
        BY <3>1, <3>2
      <3> QED
        BY <3>3, <3>4
    <2> QED
      BY <1>1, <2>1, <2>2, <2>3, <2>4 DEF ClockedTypes
  <1> QED
    BY <1>2, <1>3

LEMMA ClockedInit == Clocked!Init => ClockedInv
  <1> SUFFICES ASSUME Clocked!Init PROVE ClockedInv
    OBVIOUS
  <1> USE DEF Clocked!Init
  <1>1. ClockedTypes /\ RegionsInv
    BY ClockedInitTypes
  <1>2. (\A x : ~ Open(x) /\ ~ Running(x)) /\ \A d : ~ Passed(d)
    BY NoRegions
  <1>3. LinesInv
    <2> SUFFICES ASSUME NEW l \in Lines, NEW amount \in 0 .. MaxDelay, amount >= 1
                 PROVE  buf[l][Clocked!Slot(l, amount)] = WrittenAgo(cprog.home[l], amount)
      BY <1>2 DEF LinesInv
    <2>1. /\ Clocked!Slot(l, amount) \in 0 .. Clocked!Size(l) - 1
          /\ cprog.home[l] \in Clocked!Contexts /\ MaxDelay \in Nat
      BY <1>1, SlotFacts, ProgramFacts
    <2> QED
      BY <2>1 DEF WrittenAgo, Clocked!EmptyBuffers
  <1>4. PhaseInv
    BY <1>2, ProgramFacts DEF PhaseInv, Starts, Ticks
  <1>5. SlowInv
    BY <1>2 DEF SlowInv
  <1> QED
    BY <1>1, <1>3, <1>4, <1>5 DEF ClockedInv

LEMMA ClearStep == ClockedInv /\ Clocked!Clear => ClockedInv'
  <1> SUFFICES ASSUME ClockedInv, Clocked!Clear PROVE ClockedInv'
    OBVIOUS
  <1> USE DEF ClockedInv
  <1>1. /\ inCall # TRUE /\ cprog' = cprog /\ stack' = stack /\ inCall' = inCall /\ calls' = calls
        /\ slowVar' = slowVar /\ slowDone' = slowDone /\ computed' = computed /\ samples' = 0
        /\ buf' = Clocked!EmptyBuffers
        /\ cursor' = [c \in Clocked!Contexts |-> 0] /\ counter' = [l \in Lines |-> 0]
        /\ dsCounter' = [d \in BlockDomains |-> 0] /\ perm' = [d \in BlockDomains |-> 0]
        /\ fired' = [c \in Clocked!Contexts |-> 0] /\ held' = [d \in BlockDomains |-> 0]
    BY DEF Clocked!Clear, Clocked!slowVars
  <1>2. stack = <<>>
    BY <1>1 DEF RegionsInv
  <1>3. (\A x : ~ Open(x) /\ ~ Running(x)) /\ \A d : ~ Passed(d)
    BY <1>2, NoRegions
  <1>4. /\ \A x : Open(x)' <=> Open(x)
        /\ \A x : Running(x)' <=> Running(x)
        /\ \A d \in BlockDomains : Passed(d)' <=> Passed(d)
        /\ RegionsInv'
    BY <1>1, SameRegions
  <1>5. \A l : Clocked!Size(l)' = Clocked!Size(l)
    BY <1>1, SameProgram
  <1>6. /\ MaxDelay \in Nat \ {0} /\ MaxSamples \in Nat /\ BlockDomains \subseteq Clocked!Contexts
        /\ \A d \in BlockDomains : cprog.factor[d] \in Nat \ {0} /\ cprog.parent[d] \in Clocked!Contexts
        /\ \A l \in Lines : Clocked!Size(l) \in Nat /\ Clocked!Size(l) > MaxDelay
    BY ProgramFacts DEF ClockedTypes
  <1>7. ClockedTypes'
    <2>1. \A l \in Lines : /\ buf'[l] \in [0 .. Clocked!Size(l) - 1 -> Nat]
                           /\ counter'[l] \in 0 .. Clocked!Size(l) - 1
      BY <1>1, <1>6 DEF Clocked!EmptyBuffers
    <2>2. \A d \in BlockDomains : dsCounter'[d] < cprog.factor[d]
      BY <1>1, <1>6
    <2> QED
      BY <1>1, <1>5, <1>6, <2>1, <2>2 DEF ClockedTypes
  <1>8. LinesInv'
    <2>1. Clocked!EmptyBuffers' = Clocked!EmptyBuffers
      BY <1>5 DEF Clocked!EmptyBuffers
    <2> QED
      BY <1>1, <1>3, <1>4, <1>7, <2>1, ClearedLines DEF ClockedTypes
  <1>9. PhaseInv'
    BY <1>1, <1>3, <1>4, <1>6 DEF PhaseInv, Starts, Ticks
  <1>10. SlowInv'
    BY <1>1, <1>3, <1>4 DEF SlowInv
  <1> QED
    BY <1>4, <1>7, <1>8, <1>9, <1>10

LEMMA StartCallStep == ClockedInv /\ Clocked!StartCall => ClockedInv'
  <1> SUFFICES ASSUME ClockedInv, Clocked!StartCall PROVE ClockedInv'
    OBVIOUS
  <1> USE DEF ClockedInv
  <1>1. /\ inCall # TRUE /\ calls < MaxCalls /\ cprog' = cprog /\ stack' = stack /\ inCall' = TRUE
        /\ calls' = calls + 1 /\ samples' = samples
        /\ buf' = buf /\ cursor' = cursor /\ counter' = counter /\ dsCounter' = dsCounter
        /\ perm' = perm /\ fired' = fired /\ held' = held
        /\ slowVar' = [d \in BlockDomains |-> IF Clocked!KeptLive(d) THEN 0 ELSE Off]
        /\ slowDone' = [d \in BlockDomains |-> FALSE] /\ computed' = [d \in BlockDomains |-> 0]
    BY DEF Clocked!StartCall, Clocked!lineVars, Clocked!Flags
  <1>2. stack = <<>>
    BY <1>1 DEF RegionsInv
  <1>3. (\A x : ~ Open(x) /\ ~ Running(x)) /\ \A d : ~ Passed(d)
    BY <1>2, NoRegions
  <1>4. /\ \A x : Open(x)' <=> Open(x)
        /\ \A x : Running(x)' <=> Running(x)
        /\ \A d \in BlockDomains : Passed(d)' <=> Passed(d)
        /\ RegionsInv'
    BY <1>1, <1>2, SameRegions
  <1>5. /\ \A l : Clocked!Size(l)' = Clocked!Size(l)
        /\ \A d : Clocked!Moved(d)' = Clocked!Moved(d)
    BY <1>1, SameProgram
  <1>6. MaxCalls \in Nat
    BY ProgramFacts DEF ClockedTypes
  <1>7. ClockedTypes'
    BY <1>1, <1>5, <1>6 DEF ClockedTypes
  <1>8. LinesInv'
    BY <1>1, <1>4, SameLines
  <1>9. PhaseInv'
    <2>1. \A d \in BlockDomains : Starts(d)' = Starts(d) /\ Ticks(d)' = Ticks(d)
      BY <1>1, <1>4 DEF Starts, Ticks
    <2> QED
      BY <1>1, <2>1 DEF PhaseInv
  <1>10. SlowInv'
    BY <1>1, <1>3, <1>4, <1>5 DEF SlowInv
  <1> QED
    BY <1>4, <1>7, <1>8, <1>9, <1>10

LEMMA EndCallStep == ClockedInv /\ Clocked!EndCall => ClockedInv'
  <1> SUFFICES ASSUME ClockedInv, Clocked!EndCall PROVE ClockedInv'
    OBVIOUS
  <1> USE DEF ClockedInv
  <1>1. /\ stack = <<>> /\ cprog' = cprog /\ stack' = stack /\ inCall' = FALSE
        /\ calls' = calls /\ samples' = samples
        /\ buf' = buf /\ cursor' = cursor /\ counter' = counter /\ dsCounter' = dsCounter
        /\ perm' = perm /\ fired' = fired /\ held' = held
        /\ slowVar' = slowVar /\ slowDone' = slowDone /\ computed' = computed
    BY DEF Clocked!EndCall, Clocked!lineVars, Clocked!slowVars
  <1>2. (\A x : ~ Open(x) /\ ~ Running(x)) /\ \A d : ~ Passed(d)
    BY <1>1, NoRegions
  <1>3. /\ \A x : Open(x)' <=> Open(x)
        /\ \A x : Running(x)' <=> Running(x)
        /\ \A d \in BlockDomains : Passed(d)' <=> Passed(d)
        /\ RegionsInv'
    BY <1>1, SameRegions
  <1>4. /\ \A l : Clocked!Size(l)' = Clocked!Size(l)
        /\ \A d : Clocked!Moved(d)' = Clocked!Moved(d)
    BY <1>1, SameProgram
  <1>5. ClockedTypes'
    BY <1>1, <1>4 DEF ClockedTypes
  <1>6. LinesInv'
    BY <1>1, <1>3, SameLines
  <1>7. PhaseInv'
    <2>1. \A d \in BlockDomains : Starts(d)' = Starts(d) /\ Ticks(d)' = Ticks(d)
      BY <1>1, <1>3 DEF Starts, Ticks
    <2> QED
      BY <1>1, <2>1 DEF PhaseInv
  <1>8. SlowInv'
    BY <1>1, <1>2, <1>3, <1>4 DEF SlowInv
  <1> QED
    BY <1>3, <1>5, <1>6, <1>7, <1>8

LEMMA StartSampleStep == ClockedInv /\ Clocked!StartSample => ClockedInv'
  <1> SUFFICES ASSUME ClockedInv, Clocked!StartSample PROVE ClockedInv'
    OBVIOUS
  <1> USE DEF ClockedInv
  <1>1. /\ stack = <<>> /\ cprog' = cprog /\ inCall = TRUE /\ inCall' = inCall
        /\ stack' = <<Clocked!Region(SampleLoop, 1)>>
        /\ calls' = calls /\ samples < MaxSamples /\ samples' = samples + 1
        /\ buf' = buf /\ cursor' = cursor /\ counter' = counter /\ dsCounter' = dsCounter
        /\ perm' = perm /\ fired' = fired /\ held' = held
        /\ slowVar' = slowVar /\ slowDone' = slowDone /\ computed' = computed
    BY DEF Clocked!StartSample, Clocked!lineVars, Clocked!slowVars, ClockedTypes
  <1>2. (\A x : ~ Open(x) /\ ~ Running(x)) /\ \A d : ~ Passed(d)
    BY <1>1, NoRegions
  <1>3. /\ MaxClock \in Nat /\ SampleLoop \in Clocked!Contexts /\ SampleLoop \notin BlockDomains
        /\ MaxSamples \in Nat
    BY ProgramFacts DEF ClockedTypes
  <1> DEFINE r == Clocked!Region(SampleLoop, 1)
  <1>4. /\ r \in Regions /\ r.ctx = SampleLoop /\ r.stage = "body"
        /\ r.blocks = Clocked!BlocksIn(SampleLoop)
    BY <1>3 DEF Regions, Clocked!Region, Clocked!BlocksIn
  <1> HIDE DEF r
  <1>5. stack' \in Seq(Regions) /\ Len(stack') = 1 /\ stack'[1] = r
    BY <1>1, <1>4 DEF r
  <1>6. \A i \in 1 .. 1 : i = 1
    OBVIOUS
  <1>7. /\ \A x : Open(x)' <=> x = SampleLoop
        /\ \A x : ~ Running(x)'
        /\ \A d \in BlockDomains : ~ Passed(d)'
    BY <1>4, <1>5, <1>6 DEF Open, Running, Passed
  <1>8. RegionsInv'
    <2>1. Clocked!BlocksIn(SampleLoop)' = Clocked!BlocksIn(SampleLoop)
      BY <1>1 DEF Clocked!BlocksIn
    <2> QED
      BY <1>1, <1>3, <1>4, <1>5, <1>6, <2>1 DEF RegionsInv
  <1>9. /\ \A l : Clocked!Size(l)' = Clocked!Size(l)
        /\ \A d : Clocked!Moved(d)' = Clocked!Moved(d)
        /\ \A d : Clocked!KeptLive(d)' = Clocked!KeptLive(d)
    BY <1>1, SameProgram
  <1>10. ClockedTypes'
    BY <1>1, <1>3, <1>9 DEF ClockedTypes
  <1>11. LinesInv'
    BY <1>1, <1>7, SameLines
  <1>12. PhaseInv'
    <2>1. \A d \in BlockDomains : Starts(d)' = Starts(d) /\ Ticks(d)' = Ticks(d)
      BY <1>1, <1>2, <1>3, <1>7 DEF Starts, Ticks
    <2> QED
      BY <1>1, <2>1 DEF PhaseInv
  <1>13. SlowInv'
    BY <1>1, <1>2, <1>7, <1>9 DEF SlowInv
  <1> QED
    BY <1>8, <1>10, <1>11, <1>12, <1>13

LEMMA GuardStep ==
  ASSUME NEW d \in BlockDomains, NEW clock \in Clocked!Clocks(d)
  PROVE  ClockedInv /\ Clocked!Guard(d, clock) => ClockedInv'
  <1> SUFFICES ASSUME ClockedInv, Clocked!Guard(d, clock) PROVE ClockedInv'
    OBVIOUS
  <1> USE DEF ClockedInv
  <1>1. /\ cprog' = cprog /\ inCall' = inCall /\ stack # <<>> /\ Clocked!Current.stage = "blocks"
        /\ d \in Clocked!Current.blocks
        /\ calls' = calls /\ samples' = samples
        /\ buf' = buf /\ cursor' = cursor /\ counter' = counter /\ dsCounter' = Clocked!Ticked(d, clock)
        /\ perm' = perm /\ fired' = fired /\ held' = held
        /\ slowVar' = slowVar /\ slowDone' = slowDone /\ computed' = computed
    BY DEF Clocked!Guard, Clocked!lineVars, Clocked!slowVars
  <1>2. /\ RegionsInv'
        /\ \A x : Open(x)' <=> Open(x) \/ (x = d /\ Clocked!Runs(d, clock) > 0)
        /\ \A x : Running(x)' <=> Running(x)
        /\ \A e \in BlockDomains : Passed(e)' <=> Passed(e) \/ e = d
        /\ ~ Open(d) /\ ~ Passed(d)
    BY GuardRegions
  <1>3. /\ \A l : Clocked!Size(l)' = Clocked!Size(l)
        /\ \A e : Clocked!Lazy(e)' = Clocked!Lazy(e)
        /\ \A e : Clocked!Moved(e)' = Clocked!Moved(e)
        /\ \A e : Clocked!KeptLive(e)' = Clocked!KeptLive(e)
    BY <1>1, SameProgram
  <1>4. /\ cprog.factor[d] \in Nat \ {0} /\ dsCounter[d] \in Nat /\ dsCounter[d] < cprog.factor[d]
        /\ dsCounter \in [BlockDomains -> Nat] /\ cprog.parent[d] \in Clocked!Contexts
        /\ fired \in [Clocked!Contexts -> Nat] /\ BlockDomains \subseteq Clocked!Contexts
        /\ fired[d] \in Nat /\ fired[cprog.parent[d]] \in Nat
    BY ProgramFacts DEF ClockedTypes
  <1>5. /\ cprog.shape[d] = "modulo" =>
             /\ clock = cprog.factor[d]
             /\ dsCounter' = [dsCounter EXCEPT ![d] = (dsCounter[d] + 1) % cprog.factor[d]]
             /\ Clocked!Runs(d, clock) = IF dsCounter[d] = 0 THEN 1 ELSE 0
        /\ cprog.shape[d] # "modulo" => dsCounter' = dsCounter
    <2>1. cprog.shape[d] = "modulo" => clock = cprog.factor[d]
      BY DEF Clocked!Clocks
    <2> QED
      BY <1>1, <1>4, <2>1 DEF Clocked!Ticked, Clocked!Runs
  <1>6. /\ (dsCounter[d] + 1) % cprog.factor[d] =
             IF dsCounter[d] + 1 = cprog.factor[d] THEN 0 ELSE dsCounter[d] + 1
    <2>1. PICK f \in Nat \ {0}, k \in Nat : f = cprog.factor[d] /\ k = dsCounter[d] /\ k < f
      BY <1>4
    <2>2. CASE k + 1 = f
      <3>1. (1 * f + 0) % f = 0
        BY <2>1, Remainder
      <3>2. 1 * f + 0 = k + 1
        BY <2>1, <2>2
      <3> QED
        BY <2>1, <2>2, <3>1, <3>2
    <2>3. CASE k + 1 # f
      <3>1. PICK r \in 0 .. f - 1 : r = k + 1
        BY <2>1, <2>3
      <3>2. (0 * f + r) % f = r
        BY <2>1, <3>1, Remainder
      <3>3. 0 * f + r = r
        BY <2>1, <3>1
      <3> QED
        BY <2>1, <2>3, <3>1, <3>2, <3>3
    <2> QED
      BY <2>2, <2>3
  <1>7. ClockedTypes'
    <2>1. /\ dsCounter' \in [BlockDomains -> Nat]
          /\ \A e \in BlockDomains : dsCounter'[e] < cprog.factor[e]
      <3>1. CASE cprog.shape[d] = "modulo"
        <4>1. dsCounter' = [dsCounter EXCEPT ![d] = IF dsCounter[d] + 1 = cprog.factor[d] THEN 0 ELSE dsCounter[d] + 1]
          BY <1>5, <1>6, <3>1
        <4>2. /\ dsCounter \in [BlockDomains -> Nat]
              /\ \A e \in BlockDomains : dsCounter[e] < cprog.factor[e]
          BY DEF ClockedInv, ClockedTypes
        <4>3. dsCounter' \in [BlockDomains -> Nat]
          BY <1>4, <4>1, <4>2
        <4>4. \A e \in BlockDomains \ {d} : dsCounter'[e] < cprog.factor[e]
          BY <1>4, <4>1, <4>2
        <4>5. dsCounter'[d] < cprog.factor[d]
          BY <1>4, <4>1, <4>2
        <4> QED
          BY <4>3, <4>4, <4>5
      <3>2. CASE cprog.shape[d] # "modulo"
        BY <1>5, <3>2 DEF ClockedTypes
      <3> QED
        BY <3>1, <3>2
    <2> QED
      BY <1>1, <1>3, <2>1 DEF ClockedTypes
  <1>8. LinesInv'
    BY <1>1, <1>2, SameLines
  <1>9. PhaseInv'
    <2> SUFFICES ASSUME NEW e \in BlockDomains, cprog.shape[e] = "modulo"
                 PROVE  Starts(e)' * cprog.factor[e] =
                           Ticks(e)' + IF dsCounter'[e] = 0 THEN 0 ELSE cprog.factor[e] - dsCounter'[e]
      BY <1>1 DEF PhaseInv
    <2>1. CASE e # d
      <3>1. Starts(e)' = Starts(e) /\ Ticks(e)' = Ticks(e)
        BY <1>1, <1>2, <2>1 DEF Starts, Ticks
      <3>2. dsCounter'[e] = dsCounter[e]
        BY <1>4, <1>5, <2>1
      <3> QED
        BY <3>1, <3>2 DEF PhaseInv
    <2>2. CASE e = d
      <3>1. /\ Ticks(d) = fired[cprog.parent[d]] /\ Ticks(d)' = fired[cprog.parent[d]] + 1
            /\ Starts(d) = fired[d]
            /\ Starts(d)' = fired[d] + IF dsCounter[d] = 0 THEN 1 ELSE 0
        BY <1>1, <1>2, <1>4, <1>5, <2>2 DEF Ticks, Starts
      <3>2. PICK f \in Nat \ {0}, k \in Nat, g \in Nat, t \in Nat :
               f = cprog.factor[d] /\ k = dsCounter[d] /\ g = fired[d] /\ t = fired[cprog.parent[d]]
        BY <1>4
      <3>3. k < f /\ g * f = t + IF k = 0 THEN 0 ELSE f - k
        BY <1>4, <2>2, <3>1, <3>2 DEF PhaseInv
      <3>4. dsCounter'[d] = IF k + 1 = f THEN 0 ELSE k + 1
        BY <1>4, <1>5, <1>6, <2>2, <3>2
      <3>5. Starts(d)' = g + (IF k = 0 THEN 1 ELSE 0) /\ Ticks(d)' = t + 1
        BY <3>1, <3>2
      <3>6. (g + 1) * f = g * f + f
        BY ONLY f \in Nat \ {0}, g \in Nat, NextMultiple
      <3>7. CASE k = 0
        BY <2>2, <3>2, <3>3, <3>4, <3>5, <3>6, <3>7
      <3>8. CASE k # 0
        BY <2>2, <3>2, <3>3, <3>4, <3>5, <3>8
      <3> QED
        BY <3>7, <3>8
    <2> QED
      BY <2>1, <2>2
  <1>10. SlowInv'
    BY <1>1, <1>2, <1>3 DEF SlowInv
  <1> QED
    BY <1>2, <1>7, <1>8, <1>9, <1>10

LEMMA BodyStep == ClockedInv /\ Clocked!Body => ClockedInv'
  <1> SUFFICES ASSUME ClockedInv, Clocked!Body PROVE ClockedInv'
    OBVIOUS
  <1> USE DEF ClockedInv
  <1>1. PICK c : c = Clocked!Current.ctx
    OBVIOUS
  <1> DEFINE first == c # SampleLoop /\ Clocked!Lazy(c) /\ ~ slowDone[c]
  <1>2. /\ stack # <<>> /\ Clocked!Current.stage = "body"
        /\ cprog' = cprog /\ inCall' = inCall /\ calls' = calls /\ samples' = samples
        /\ buf' = Clocked!Written(c) /\ cursor' = cursor /\ counter' = counter /\ dsCounter' = dsCounter
        /\ fired' = fired /\ held' = held
        /\ first => /\ slowVar' = [slowVar EXCEPT ![c] = calls]
                    /\ slowDone' = [slowDone EXCEPT ![c] = TRUE]
                    /\ computed' = [computed EXCEPT ![c] = computed[c] + 1]
                    /\ perm' = IF Clocked!Moved(c) THEN [perm EXCEPT ![c] = calls] ELSE perm
        /\ ~ first => slowVar' = slowVar /\ slowDone' = slowDone /\ computed' = computed /\ perm' = perm
    BY <1>1 DEF Clocked!Body, Clocked!slowVars
  <1>3. /\ RegionsInv'
        /\ \A x : Open(x)' <=> Open(x)
        /\ \A x : Running(x)' <=> Running(x) \/ x = c
        /\ \A d \in BlockDomains : Passed(d)' <=> Passed(d)
        /\ ~ Running(c)
    BY <1>1, BodyRegions
  <1>4. /\ \A l : Clocked!Size(l)' = Clocked!Size(l)
        /\ \A d : Clocked!Lazy(d)' = Clocked!Lazy(d)
        /\ \A d : Clocked!Moved(d)' = Clocked!Moved(d)
        /\ \A d : Clocked!KeptLive(d)' = Clocked!KeptLive(d)
    BY <1>2, SameProgram
  <1>5. /\ c \in Clocked!Contexts /\ Open(c) /\ inCall = TRUE
        /\ first => c \in BlockDomains
        /\ fired \in [Clocked!Contexts -> Nat] /\ fired[c] \in Nat
        /\ calls \in Nat /\ calls \in 0 .. MaxCalls
    <2>1. c \in Clocked!Contexts /\ Open(c) /\ inCall = TRUE
      BY <1>1, <1>2, TopRegion
    <2>2. c \in BlockDomains \/ c = SampleLoop
      BY <2>1, ProgramFacts DEF ClockedTypes
    <2>3. fired \in [Clocked!Contexts -> Nat] /\ calls \in 0 .. MaxCalls
      BY DEF ClockedTypes
    <2> QED
      BY <2>1, <2>2, <2>3
  <1> HIDE DEF first
  <1>6. ASSUME NEW l \in Lines
        PROVE  /\ buf'[l] \in [0 .. Clocked!Size(l) - 1 -> Nat]
               /\ cprog.home[l] # c => buf'[l] = buf[l]
               /\ cprog.home[l] = c => buf'[l] = [buf[l] EXCEPT ![Clocked!Slot(l, 0)] = fired[c] + 1]
    <2>1. l \in Clocked!LinesIn(c) <=> cprog.home[l] = c
      BY DEF Clocked!LinesIn
    <2>2. buf'[l] = IF cprog.home[l] = c THEN [buf[l] EXCEPT ![Clocked!Slot(l, 0)] = fired[c] + 1] ELSE buf[l]
      BY <1>2, <2>1 DEF Clocked!Written
    <2>3. buf[l] \in [0 .. Clocked!Size(l) - 1 -> Nat]
      BY DEF ClockedTypes
    <2> QED
      <3>1. CASE cprog.home[l] = c
        <4>1. buf'[l] = [buf[l] EXCEPT ![Clocked!Slot(l, 0)] = fired[c] + 1]
          BY <2>2, <3>1
        <4>2. fired[c] + 1 \in Nat
          BY <1>5
        <4> QED
          BY <2>3, <3>1, <4>1, <4>2
      <3>2. CASE cprog.home[l] # c
        BY <2>2, <2>3, <3>2
      <3> QED
        BY <3>1, <3>2
  <1>7. ClockedTypes'
    <2>1. /\ slowVar' \in [BlockDomains -> 0 .. MaxCalls \cup {Off}]
          /\ slowDone' \in [BlockDomains -> BOOLEAN]
          /\ computed' \in [BlockDomains -> Nat]
          /\ perm' \in [BlockDomains -> Nat]
      <3>1. CASE first
        <4>1. /\ slowVar' = [slowVar EXCEPT ![c] = calls]
              /\ slowDone' = [slowDone EXCEPT ![c] = TRUE]
              /\ computed' = [computed EXCEPT ![c] = computed[c] + 1]
              /\ perm' = IF Clocked!Moved(c) THEN [perm EXCEPT ![c] = calls] ELSE perm
          BY <1>2, <3>1
        <4>2. /\ slowVar \in [BlockDomains -> 0 .. MaxCalls \cup {Off}]
              /\ slowDone \in [BlockDomains -> BOOLEAN]
              /\ computed \in [BlockDomains -> Nat] /\ computed[c] + 1 \in Nat
              /\ perm \in [BlockDomains -> Nat]
          BY <1>5, <3>1 DEF ClockedTypes
        <4>3. slowVar' \in [BlockDomains -> 0 .. MaxCalls \cup {Off}]
          BY <1>5, <4>1, <4>2
        <4>4. slowDone' \in [BlockDomains -> BOOLEAN]
          BY <4>1, <4>2
        <4>5. computed' \in [BlockDomains -> Nat] /\ perm' \in [BlockDomains -> Nat]
          BY <1>5, <4>1, <4>2
        <4> QED
          BY <4>3, <4>4, <4>5
      <3>2. CASE ~ first
        BY <1>2, <3>2 DEF ClockedTypes
      <3> QED
        BY <3>1, <3>2
    <2> QED
      BY <1>2, <1>4, <1>6, <2>1 DEF ClockedTypes
  <1>8. LinesInv'
    <2> SUFFICES ASSUME NEW l \in Lines, NEW amount \in 0 .. MaxDelay,
                        amount >= 1 \/ Running(cprog.home[l])'
                 PROVE  buf'[l][Clocked!Slot(l, amount)'] = WrittenAgo(cprog.home[l], amount)'
      BY <1>2 DEF LinesInv
    <2>1. Clocked!Slot(l, amount)' = Clocked!Slot(l, amount)
      BY <1>2, SameSlots
    <2>2. WrittenAgo(cprog.home[l], amount)' = WrittenAgo(cprog.home[l], amount)
      BY <1>2 DEF WrittenAgo
    <2>3. /\ Clocked!Slot(l, amount) \in 0 .. Clocked!Size(l) - 1
          /\ amount # 0 => Clocked!Slot(l, amount) # Clocked!Slot(l, 0)
          /\ Clocked!Slot(l, 0) \in 0 .. Clocked!Size(l) - 1
      BY SlotFacts
    <2>4. buf[l] \in [0 .. Clocked!Size(l) - 1 -> Nat]
      BY DEF ClockedTypes
    <2>5. amount # 0 <=> amount >= 1
      BY ProgramFacts DEF ClockedTypes
    <2>6. CASE cprog.home[l] # c
      <3>1. amount >= 1 \/ Running(cprog.home[l])
        BY <1>2, <1>3, <2>6
      <3>2. buf[l][Clocked!Slot(l, amount)] = WrittenAgo(cprog.home[l], amount)
        BY <3>1 DEF LinesInv
      <3> QED
        BY <1>6, <2>1, <2>2, <2>6, <3>2
    <2>7. CASE cprog.home[l] = c /\ amount # 0
      <3>1. buf[l][Clocked!Slot(l, amount)] = WrittenAgo(cprog.home[l], amount)
        BY <2>5, <2>7 DEF LinesInv
      <3> QED
        <4>1. buf'[l] = [buf[l] EXCEPT ![Clocked!Slot(l, 0)] = fired[c] + 1]
          BY <1>6, <2>7
        <4>2. buf'[l][Clocked!Slot(l, amount)] = buf[l][Clocked!Slot(l, amount)]
          BY <2>3, <2>4, <2>7, <4>1
        <4> QED
          BY <2>1, <2>2, <3>1, <4>2
    <2>8. CASE cprog.home[l] = c /\ amount = 0
      <3>1. WrittenAgo(cprog.home[l], amount) = fired[c] + 1
        BY <1>5, <2>8 DEF WrittenAgo
      <3> QED
        <4>1. buf'[l] = [buf[l] EXCEPT ![Clocked!Slot(l, 0)] = fired[c] + 1]
          BY <1>6, <2>8
        <4>2. buf'[l][Clocked!Slot(l, 0)] = fired[c] + 1
          BY <2>3, <2>4, <4>1
        <4> QED
          BY <2>1, <2>2, <2>8, <3>1, <4>2
    <2> QED
      BY <2>6, <2>7, <2>8
  <1>9. PhaseInv'
    <2>1. \A d \in BlockDomains : Starts(d)' = Starts(d) /\ Ticks(d)' = Ticks(d)
      BY <1>2, <1>3 DEF Starts, Ticks
    <2> QED
      BY <1>2, <2>1 DEF PhaseInv
  <1>10. SlowInv'
    <2> SUFFICES ASSUME NEW d \in BlockDomains
                 PROVE  /\ computed'[d] = IF slowDone'[d] THEN 1 ELSE 0
                        /\ Running(d)' /\ Clocked!Lazy(d) => slowDone'[d] = TRUE
                        /\ slowDone'[d] = TRUE /\ Clocked!Moved(d) => perm'[d] = calls
                        /\ slowDone'[d] = TRUE /\ Clocked!KeptLive(d) => slowVar'[d] = calls
                        /\ perm'[d] = held[d] \/ (Clocked!Moved(d) /\ Open(d))
      BY <1>2, <1>3, <1>4 DEF SlowInv
    <2>1. /\ computed[d] = IF slowDone[d] THEN 1 ELSE 0
          /\ Running(d) /\ Clocked!Lazy(d) => slowDone[d] = TRUE
          /\ slowDone[d] = TRUE /\ Clocked!Moved(d) => perm[d] = calls
          /\ slowDone[d] = TRUE /\ Clocked!KeptLive(d) => slowVar[d] = calls
          /\ perm[d] = held[d] \/ (Clocked!Moved(d) /\ Open(d))
      BY <1>5 DEF SlowInv
    <2>2. /\ slowVar \in [BlockDomains -> 0 .. MaxCalls \cup {Off}]
          /\ slowDone \in [BlockDomains -> BOOLEAN]
          /\ computed \in [BlockDomains -> Nat]
          /\ perm \in [BlockDomains -> Nat]
          /\ d # SampleLoop
      BY ProgramFacts DEF ClockedTypes
    <2>3. CASE d # c
      <3>1. /\ computed'[d] = computed[d] /\ slowDone'[d] = slowDone[d] /\ perm'[d] = perm[d]
            /\ slowVar'[d] = slowVar[d]
        BY <1>2, <2>2, <2>3
      <3> QED
        BY <1>3, <2>1, <2>3, <3>1
    <2>4. CASE d = c /\ first
      <3>1. computed[d] = 0
        BY <2>1, <2>4 DEF first
      <3>2. /\ computed'[d] = 1 /\ slowDone'[d] = TRUE /\ slowVar'[d] = calls
            /\ perm'[d] = IF Clocked!Moved(d) THEN calls ELSE perm[d]
        BY <1>2, <2>2, <2>4, <3>1
      <3> QED
        BY <1>5, <2>1, <2>4, <3>2
    <2>5. CASE d = c /\ ~ first
      <3>1. Clocked!Lazy(d) => slowDone[d] = TRUE
        BY <2>2, <2>5 DEF first
      <3> QED
        BY <1>2, <2>1, <2>5, <3>1
    <2> QED
      BY <2>3, <2>4, <2>5
  <1> QED
    BY <1>3, <1>7, <1>8, <1>9, <1>10

(* Advancing a cursor, or copying, makes amount k address what k - 1 did.     *)
LEMMA AdvancedSlots ==
  ASSUME ClockedTypes, cprog' = cprog, NEW l \in Lines, NEW amount \in 1 .. MaxDelay,
         cprog.kind[l] = "circular" => Clocked!CursorOf(l)' = Clocked!CursorOf(l) + 1,
         cprog.kind[l] = "ifWrapping" => counter'[l] = Clocked!Counter(l),
         buf'[l] = IF cprog.kind[l] = "shift"
                   THEN [i \in DOMAIN buf[l] |-> IF i = 0 THEN buf[l][0] ELSE buf[l][i - 1]]
                   ELSE buf[l]
  PROVE  buf'[l][Clocked!Slot(l, amount)'] = buf[l][Clocked!Slot(l, amount - 1)]
  <1>1. /\ Clocked!Size(l) \in Nat \ {0} /\ Clocked!Size(l) > MaxDelay /\ MaxDelay \in Nat \ {0}
        /\ cprog.kind[l] \in {"shift", "circular", "ifWrapping"}
        /\ cprog.home[l] \in Clocked!Contexts
        /\ counter[l] \in 0 .. Clocked!Size(l) - 1
        /\ Clocked!CursorOf(l) \in Nat
        /\ amount \in Nat /\ amount # 0 /\ amount < Clocked!Size(l)
        /\ Clocked!Size(l)' = Clocked!Size(l)
        /\ DOMAIN buf[l] = 0 .. Clocked!Size(l) - 1
    BY ProgramFacts, SameProgram DEF ClockedTypes, Clocked!CursorOf
  <1>2. CASE cprog.kind[l] = "shift"
    <2>1. Clocked!Slot(l, amount)' = amount /\ Clocked!Slot(l, amount - 1) = amount - 1
      BY <1>2 DEF Clocked!Slot
    <2> QED
      BY <1>1, <1>2, <2>1
  <1>3. CASE cprog.kind[l] = "circular"
    <2>1. /\ Clocked!Slot(l, amount)' = ((Clocked!CursorOf(l) + 1) - amount) % Clocked!Size(l)
          /\ Clocked!Slot(l, amount - 1) = (Clocked!CursorOf(l) - (amount - 1)) % Clocked!Size(l)
      BY <1>1, <1>3 DEF Clocked!Slot
    <2>2. (Clocked!CursorOf(l) + 1) - amount = Clocked!CursorOf(l) - (amount - 1)
      BY <1>1
    <2>3. Clocked!Slot(l, amount)' = Clocked!Slot(l, amount - 1)
      BY <2>1, <2>2
    <2> QED
      BY <1>3, <2>3
  <1>4. CASE cprog.kind[l] = "ifWrapping"
    <2> DEFINE s == Clocked!Size(l)
               k == counter[l]
    <2>1. s \in Nat \ {0} /\ k \in 0 .. s - 1 /\ s = Clocked!Size(l) /\ k = counter[l]
      BY <1>1
    <2>2. /\ Clocked!Slot(l, amount)' = (counter'[l] + s - amount) % s
          /\ Clocked!Slot(l, amount - 1) = (k + s - (amount - 1)) % s
      BY <1>1, <1>4, <2>1 DEF Clocked!Slot
    <2> HIDE DEF s, k
    <2>3. counter'[l] = IF k + 1 >= s THEN 0 ELSE k + 1
      BY <1>4, <2>1 DEF Clocked!Counter
    <2>4. CASE k + 1 >= s
      <3>1. /\ counter'[l] + s - amount = 0 + s - amount
            /\ k + s - (amount - 1) = (0 + s - amount) + 1 * s /\ 0 + s - amount \in Int
        <4>1. k = s - 1 /\ counter'[l] = 0 /\ s \in Nat /\ amount \in Nat
          BY <1>1, <2>1, <2>3, <2>4
        <4>2. (s - 1) + s - (amount - 1) = (0 + s - amount) + 1 * s /\ 0 + s - amount \in Int
          BY <4>1
        <4> QED
          BY <4>1, <4>2
      <3>2. ((0 + s - amount) + 1 * s) % s = (0 + s - amount) % s
        <4>1. PICK y \in Int : y = 0 + s - amount
          BY <3>1
        <4>2. s \in Nat \ {0} /\ 1 \in Int
          BY <2>1
        <4>3. (y + 1 * s) % s = y % s
          BY <4>2, ShiftedRemainder
        <4> QED
          BY <4>1, <4>3
      <3> QED
        BY <1>4, <2>2, <3>1, <3>2
    <2>5. CASE ~ (k + 1 >= s)
      <3>1. counter'[l] + s - amount = k + s - (amount - 1)
        BY <1>1, <2>1, <2>3, <2>5
      <3> QED
        BY <1>4, <2>2, <3>1
    <2> QED
      BY <2>4, <2>5
  <1> QED
    BY <1>1, <1>2, <1>3, <1>4

LEMMA EndBodyStep == ClockedInv /\ Clocked!EndBody => ClockedInv'
  <1> SUFFICES ASSUME ClockedInv, Clocked!EndBody PROVE ClockedInv'
    OBVIOUS
  <1> USE DEF ClockedInv
  <1>1. PICK c : c = Clocked!Current.ctx
    OBVIOUS
  <1>2. /\ stack # <<>> /\ Clocked!Current.stage = "blocks" /\ Clocked!Current.blocks = {}
        /\ cprog' = cprog /\ inCall' = inCall /\ calls' = calls /\ samples' = samples
        /\ dsCounter' = dsCounter /\ slowDone' = slowDone /\ computed' = computed
    BY DEF Clocked!EndBody
  <1>3. perm' = IF c # SampleLoop /\ ~ Clocked!Moved(c)
                THEN [perm EXCEPT ![c] = Clocked!HeldValue(c)] ELSE perm
    BY <1>1 DEF Clocked!EndBody
  <1>4. held' = IF c = SampleLoop THEN held
                ELSE [held EXCEPT ![c] = IF cprog.hold[c] = "fresh" THEN fired[c] + 1 ELSE calls]
    BY <1>1 DEF Clocked!EndBody
  <1>5. /\ buf' = Clocked!Shifted(c)
        /\ cursor' = IF c \in Clocked!IotaDomains THEN [cursor EXCEPT ![c] = cursor[c] + 1] ELSE cursor
        /\ counter' = [l \in Lines |-> IF l \in Clocked!Counted(c) THEN Clocked!Counter(l) ELSE counter[l]]
        /\ fired' = [fired EXCEPT ![c] = fired[c] + 1]
    BY <1>1 DEF Clocked!EndBody
  <1>6. slowVar' = IF c # SampleLoop /\ Clocked!Lazy(c) /\ ~ Clocked!KeptLive(c)
                   THEN [slowVar EXCEPT ![c] = Off] ELSE slowVar
    BY <1>1 DEF Clocked!EndBody
  <1>7. /\ RegionsInv'
        /\ \A x : Open(x)' <=> Open(x) /\ (x # c \/ Clocked!Current.left > 1)
        /\ \A x : Running(x)' <=> Running(x) /\ x # c
        /\ \A d \in BlockDomains : cprog.parent[d] = c => Passed(d) /\ ~ Passed(d)'
        /\ \A d \in BlockDomains : cprog.parent[d] # c => (Passed(d)' <=> Passed(d))
    BY <1>1, EndRegions
  <1>8. /\ \A l : Clocked!Size(l)' = Clocked!Size(l)
        /\ \A d : Clocked!Lazy(d)' = Clocked!Lazy(d)
        /\ \A d : Clocked!Moved(d)' = Clocked!Moved(d)
        /\ \A d : Clocked!KeptLive(d)' = Clocked!KeptLive(d)
    BY <1>2, SameProgram
  <1>9. /\ c \in Clocked!Contexts /\ Open(c) /\ Running(c) /\ inCall = TRUE
        /\ c # SampleLoop <=> c \in BlockDomains
        /\ c \in BlockDomains => cprog.parent[c] # c
        /\ fired \in [Clocked!Contexts -> Nat] /\ fired[c] \in Nat
        /\ calls \in Nat /\ calls \in 0 .. MaxCalls
    <2>1. /\ c \in Clocked!Contexts /\ Open(c) /\ Running(c) /\ inCall = TRUE
          /\ c \in BlockDomains => cprog.parent[c] # c
      BY <1>1, <1>2, TopRegion
    <2>2. c # SampleLoop <=> c \in BlockDomains
      BY <2>1, ProgramFacts DEF ClockedTypes
    <2>3. fired \in [Clocked!Contexts -> Nat] /\ calls \in 0 .. MaxCalls
      BY DEF ClockedTypes
    <2> QED
      BY <2>1, <2>2, <2>3
  <1>10. c \in BlockDomains /\ cprog.shape[c] = "modulo" => Clocked!Current.left = 1
    BY <1>1, <1>2, TopRegion DEF RegionsInv
  <1>11. ASSUME NEW l \in Lines
         PROVE  /\ buf'[l] \in [0 .. Clocked!Size(l) - 1 -> Nat]
                /\ counter'[l] \in 0 .. Clocked!Size(l) - 1
                /\ cprog.home[l] # c => /\ buf'[l] = buf[l] /\ counter'[l] = counter[l]
                                        /\ Clocked!CursorOf(l)' = Clocked!CursorOf(l)
                /\ cprog.home[l] = c =>
                      /\ cprog.kind[l] = "circular" => Clocked!CursorOf(l)' = Clocked!CursorOf(l) + 1
                      /\ cprog.kind[l] = "ifWrapping" => counter'[l] = Clocked!Counter(l)
                      /\ buf'[l] = IF cprog.kind[l] = "shift"
                                   THEN [i \in DOMAIN buf[l] |-> IF i = 0 THEN buf[l][0] ELSE buf[l][i - 1]]
                                   ELSE buf[l]
    <2>1. /\ l \in Clocked!LinesIn(c) <=> cprog.home[l] = c
          /\ l \in Clocked!Counted(c) <=> cprog.home[l] = c /\ cprog.kind[l] = "ifWrapping"
          /\ cprog.kind[l] = "circular" => cprog.home[l] \in Clocked!IotaDomains
      BY DEF Clocked!LinesIn, Clocked!Counted, Clocked!IotaDomains
    <2>2. /\ buf[l] \in [0 .. Clocked!Size(l) - 1 -> Nat] /\ counter[l] \in 0 .. Clocked!Size(l) - 1
          /\ Clocked!Size(l) \in Nat /\ cprog.home[l] \in Clocked!Contexts
          /\ cursor \in [Clocked!Contexts -> Nat]
      BY ProgramFacts DEF ClockedTypes
    <2>3. buf'[l] = IF cprog.home[l] = c /\ cprog.kind[l] = "shift"
                    THEN [i \in DOMAIN buf[l] |-> IF i = 0 THEN buf[l][0] ELSE buf[l][i - 1]]
                    ELSE buf[l]
      BY <1>5, <2>1 DEF Clocked!Shifted
    <2>4. counter'[l] = IF cprog.home[l] = c /\ cprog.kind[l] = "ifWrapping" THEN Clocked!Counter(l) ELSE counter[l]
      BY <1>5, <2>1
    <2>5. Clocked!Counter(l) \in 0 .. Clocked!Size(l) - 1
      BY <2>2 DEF Clocked!Counter
    <2>6. buf'[l] \in [0 .. Clocked!Size(l) - 1 -> Nat]
      <3>1. \A i \in 0 .. Clocked!Size(l) - 1 : i # 0 => i - 1 \in 0 .. Clocked!Size(l) - 1
        BY <2>2
      <3> QED
        BY <2>2, <2>3, <3>1
    <2>7. /\ Clocked!CursorOf(l) = cursor[cprog.home[l]]
          /\ Clocked!CursorOf(l)' = cursor'[cprog.home[l]]
      BY <1>2 DEF Clocked!CursorOf
    <2>8. cprog.home[l] # c => Clocked!CursorOf(l)' = Clocked!CursorOf(l)
      BY <1>5, <2>2, <2>7
    <2>9. cprog.home[l] = c /\ cprog.kind[l] = "circular" => Clocked!CursorOf(l)' = Clocked!CursorOf(l) + 1
      BY <1>5, <2>1, <2>2, <2>7
    <2> QED
      BY <2>2, <2>3, <2>4, <2>5, <2>6, <2>8, <2>9
  <1>12. /\ c \in BlockDomains /\ cprog.hold[c] = "fresh" => Clocked!HeldValue(c) = fired[c] + 1
         /\ c \in BlockDomains /\ cprog.hold[c] # "fresh" /\ ~ Clocked!Moved(c) => Clocked!HeldValue(c) = calls
    <2>1. c \in BlockDomains /\ Clocked!Lazy(c) => slowDone[c] = TRUE
      BY <1>9 DEF SlowInv
    <2>2. c \in BlockDomains /\ Clocked!Lazy(c) /\ ~ Clocked!Moved(c) => slowVar[c] = calls
      BY <1>9, <2>1 DEF SlowInv, Clocked!KeptLive
    <2> QED
      BY <2>2 DEF Clocked!HeldValue
  <1>13. ClockedTypes'
    <2>1. cursor' \in [Clocked!Contexts -> Nat] /\ fired' \in [Clocked!Contexts -> Nat]
      BY <1>5, <1>9 DEF ClockedTypes
    <2>2. perm' \in [BlockDomains -> Nat]
      <3>1. c \in BlockDomains /\ ~ Clocked!Moved(c) => Clocked!HeldValue(c) \in Nat
        BY <1>9, <1>12
      <3> QED
        BY <1>3, <1>9, <3>1 DEF ClockedTypes
    <2>3. held' \in [BlockDomains -> Nat]
      BY <1>4, <1>9 DEF ClockedTypes
    <2>4. slowVar' \in [BlockDomains -> 0 .. MaxCalls \cup {Off}]
      BY <1>6 DEF ClockedTypes
    <2> QED
      BY <1>2, <1>8, <1>11, <2>1, <2>2, <2>3, <2>4 DEF ClockedTypes
  <1>14. LinesInv'
    <2> SUFFICES ASSUME NEW l \in Lines, NEW amount \in 0 .. MaxDelay,
                        amount >= 1 \/ Running(cprog.home[l])'
                 PROVE  buf'[l][Clocked!Slot(l, amount)'] = WrittenAgo(cprog.home[l], amount)'
      BY <1>2 DEF LinesInv
    <2>1. CASE cprog.home[l] # c
      <3>1. amount >= 1 \/ Running(cprog.home[l])
        BY <1>2, <1>7
      <3>2. buf[l][Clocked!Slot(l, amount)] = WrittenAgo(cprog.home[l], amount)
        BY <3>1 DEF LinesInv
      <3>3. Clocked!Slot(l, amount)' = Clocked!Slot(l, amount)
        BY <1>2, <1>8, <1>11, <2>1 DEF Clocked!Slot
      <3>4. cprog.home[l] \in Clocked!Contexts
        BY ProgramFacts DEF ClockedTypes
      <3>5. fired'[cprog.home[l]] = fired[cprog.home[l]]
        BY <1>5, <1>9, <2>1, <3>4
      <3>6. WrittenAgo(cprog.home[l], amount)' = WrittenAgo(cprog.home[l], amount)
        BY <1>2, <3>5 DEF WrittenAgo
      <3> QED
        BY <1>11, <2>1, <3>2, <3>3, <3>6
    <2>2. CASE cprog.home[l] = c
      <3>1. amount \in 1 .. MaxDelay /\ amount - 1 \in 0 .. MaxDelay /\ amount \in Nat
        BY <1>2, <1>7, <2>2, ProgramFacts DEF ClockedTypes
      <3>2. buf'[l][Clocked!Slot(l, amount)'] = buf[l][Clocked!Slot(l, amount - 1)]
        BY <1>2, <1>11, <2>2, <3>1, AdvancedSlots
      <3>3. buf[l][Clocked!Slot(l, amount - 1)] = WrittenAgo(cprog.home[l], amount - 1)
        BY <1>9, <2>2, <3>1 DEF LinesInv
      <3>4. fired'[c] = fired[c] + 1
        BY <1>5, <1>9
      <3>5. WrittenAgo(c, amount)' = WrittenAgo(c, amount - 1)
        BY <1>9, <3>1, <3>4 DEF WrittenAgo
      <3>6. WrittenAgo(cprog.home[l], amount)' = WrittenAgo(c, amount)'
        BY <1>2, <2>2 DEF WrittenAgo
      <3> QED
        BY <2>2, <3>2, <3>3, <3>5, <3>6
    <2> QED
      BY <2>1, <2>2
  <1>15. PhaseInv'
    <2> SUFFICES ASSUME NEW d \in BlockDomains, cprog.shape[d] = "modulo"
                 PROVE  Starts(d)' = Starts(d) /\ Ticks(d)' = Ticks(d)
      BY <1>2 DEF PhaseInv
    <2>1. /\ cprog.parent[d] \in Clocked!Contexts /\ d \in Clocked!Contexts
          /\ fired[d] \in Nat /\ fired[cprog.parent[d]] \in Nat
      BY <1>9, ProgramFacts DEF ClockedTypes
    <2>2. Starts(d)' = Starts(d)
      <3>1. CASE d = c
        <4>1. Open(d) /\ ~ Open(d)' /\ fired'[d] = fired[d] + 1
          BY <1>5, <1>7, <1>9, <1>10, <2>1, <3>1
        <4> QED
          BY <2>1, <4>1 DEF Starts
      <3>2. CASE d # c
        <4>1. (Open(d)' <=> Open(d)) /\ fired'[d] = fired[d]
          BY <1>5, <1>7, <1>9, <2>1, <3>2
        <4> QED
          BY <4>1 DEF Starts
      <3> QED
        BY <3>1, <3>2
    <2>3. Ticks(d)' = Ticks(d)
      <3>1. CASE cprog.parent[d] = c
        <4>1. Passed(d) /\ ~ Passed(d)' /\ fired'[c] = fired[c] + 1
          BY <1>5, <1>7, <1>9, <3>1
        <4> QED
          BY <1>2, <1>9, <3>1, <4>1 DEF Ticks
      <3>2. CASE cprog.parent[d] # c
        <4>1. (Passed(d)' <=> Passed(d)) /\ fired'[cprog.parent[d]] = fired[cprog.parent[d]]
          BY <1>5, <1>7, <1>9, <2>1, <3>2
        <4> QED
          BY <1>2, <4>1 DEF Ticks
      <3> QED
        BY <3>1, <3>2
    <2> QED
      BY <2>2, <2>3
  <1>16. SlowInv'
    <2> SUFFICES ASSUME NEW d \in BlockDomains
                 PROVE  /\ computed[d] = IF slowDone[d] THEN 1 ELSE 0
                        /\ Running(d)' /\ Clocked!Lazy(d) => slowDone[d] = TRUE
                        /\ slowDone[d] = TRUE /\ Clocked!Moved(d) => perm'[d] = calls
                        /\ slowDone[d] = TRUE /\ Clocked!KeptLive(d) => slowVar'[d] = calls
                        /\ perm'[d] = held'[d] \/ (Clocked!Moved(d) /\ Open(d)')
      BY <1>2, <1>8 DEF SlowInv
    <2>1. /\ computed[d] = IF slowDone[d] THEN 1 ELSE 0
          /\ Running(d) /\ Clocked!Lazy(d) => slowDone[d] = TRUE
          /\ slowDone[d] = TRUE /\ Clocked!Moved(d) => perm[d] = calls
          /\ slowDone[d] = TRUE /\ Clocked!KeptLive(d) => slowVar[d] = calls
          /\ perm[d] = held[d] \/ (Clocked!Moved(d) /\ Open(d))
      BY <1>9 DEF SlowInv
    <2>2. /\ slowVar \in [BlockDomains -> 0 .. MaxCalls \cup {Off}]
          /\ perm \in [BlockDomains -> Nat] /\ held \in [BlockDomains -> Nat]
      BY DEF ClockedTypes
    <2>3. CASE d # c
      <3>1. perm'[d] = perm[d] /\ slowVar'[d] = slowVar[d] /\ held'[d] = held[d]
        BY <1>3, <1>4, <1>6, <2>2, <2>3
      <3> QED
        BY <1>7, <2>1, <2>3, <3>1
    <2>4. CASE d = c
      <3>1. c # SampleLoop
        BY <1>9, <2>4
      <3>2. held'[d] = IF cprog.hold[d] = "fresh" THEN fired[d] + 1 ELSE calls
        BY <1>4, <2>2, <2>4, <3>1
      <3>3. Clocked!Moved(d) => cprog.hold[d] # "fresh" /\ Clocked!Lazy(d) /\ ~ Clocked!KeptLive(d)
        BY DEF Clocked!Moved, Clocked!KeptLive
      <3>4. Clocked!KeptLive(d) => Clocked!Lazy(d) /\ ~ Clocked!Moved(d)
        BY DEF Clocked!KeptLive
      <3>5. CASE Clocked!Moved(d)
        <4>1. perm'[d] = perm[d]
          BY <1>3, <2>4, <3>5
        <4> QED
          BY <1>7, <1>9, <2>1, <2>4, <3>2, <3>3, <3>5, <4>1
      <3>6. CASE ~ Clocked!Moved(d)
        <4>1. perm'[d] = Clocked!HeldValue(d)
          BY <1>3, <2>2, <2>4, <3>1, <3>6
        <4>2. perm'[d] = held'[d]
          BY <1>9, <1>12, <2>4, <3>2, <3>6, <4>1
        <4>3. Clocked!KeptLive(d) => slowVar'[d] = slowVar[d]
          BY <1>6, <2>4
        <4> QED
          BY <1>7, <2>1, <3>6, <4>2, <4>3
      <3> QED
        BY <3>5, <3>6
    <2> QED
      BY <2>3, <2>4
  <1> QED
    BY <1>7, <1>13, <1>14, <1>15, <1>16

LEMMA ClockedProperties ==
  ClockedInv => /\ Clocked!TypeOK
                /\ Clocked!LinesDelayByFirings
                /\ Clocked!DownsamplersKeepPhase
                /\ Clocked!HoldsAreAsHoisted
                /\ Clocked!SlowValueOncePerCall
  <1> SUFFICES ASSUME ClockedInv
               PROVE  /\ Clocked!TypeOK
                      /\ Clocked!LinesDelayByFirings
                      /\ Clocked!DownsamplersKeepPhase
                      /\ Clocked!HoldsAreAsHoisted
                      /\ Clocked!SlowValueOncePerCall
    OBVIOUS
  <1> USE DEF ClockedInv
  <1>1. \A i \in 1 .. Len(stack) : stack[i] \in Regions
    BY DEF RegionsInv
  <1>2. Clocked!TypeOK
    <2>1. \A d \in BlockDomains : dsCounter[d] \in 0 .. cprog.factor[d] - 1
      BY ProgramFacts DEF ClockedTypes
    <2>2. \A l \in Lines : DOMAIN buf[l] = 0 .. Clocked!Size(l) - 1 /\ counter[l] \in 0 .. Clocked!Size(l) - 1
      BY DEF ClockedTypes
    <2>3. \A i \in 1 .. Len(stack) :
             stack[i] \in [ctx : Clocked!Contexts, left : 1 .. MaxClock + 1,
                           stage : {"body", "blocks"}, blocks : SUBSET BlockDomains]
      BY <1>1 DEF Regions
    <2> QED
      BY <2>1, <2>2, <2>3 DEF Clocked!TypeOK, ClockedTypes
  <1>3. Clocked!LinesDelayByFirings
    <2> SUFFICES ASSUME NEW i \in 1 .. Len(stack), stack[i].stage = "blocks",
                        NEW l \in Clocked!LinesIn(stack[i].ctx), NEW amount \in 0 .. MaxDelay
                 PROVE  buf[l][Clocked!Slot(l, amount)] =
                           IF amount <= fired[stack[i].ctx] THEN fired[stack[i].ctx] + 1 - amount ELSE 0
      BY DEF Clocked!LinesDelayByFirings
    <2>1. l \in Lines /\ cprog.home[l] = stack[i].ctx /\ Running(cprog.home[l])
      BY DEF Clocked!LinesIn, Running
    <2>2. buf[l][Clocked!Slot(l, amount)] = WrittenAgo(cprog.home[l], amount)
      BY <2>1 DEF LinesInv
    <2> QED
      BY <2>1, <2>2 DEF WrittenAgo
  <1>4. Clocked!DownsamplersKeepPhase
    <2> SUFFICES ASSUME NEW d \in BlockDomains, cprog.shape[d] = "modulo",
                        \A i \in 1 .. Len(stack) : stack[i].ctx \notin {d, cprog.parent[d]}
                 PROVE  fired[d] * cprog.factor[d] \in
                           fired[cprog.parent[d]] .. fired[cprog.parent[d]] + cprog.factor[d] - 1
      BY DEF Clocked!DownsamplersKeepPhase
    <2>1. ~ Open(d) /\ ~ Passed(d)
      BY DEF Open, Passed
    <2>2. PICK f \in Nat \ {0}, k \in Nat, g \in Nat, t \in Nat :
             f = cprog.factor[d] /\ k = dsCounter[d] /\ g = fired[d] /\ t = fired[cprog.parent[d]] /\ k < f
      BY ProgramFacts DEF ClockedTypes
    <2>3. g * f = t + IF k = 0 THEN 0 ELSE f - k
      BY <2>1, <2>2 DEF PhaseInv, Starts, Ticks
    <2>4. g * f \in t .. t + f - 1
      BY <2>2, <2>3
    <2> QED
      BY <2>2, <2>4
  <1>5. Clocked!HoldsAreAsHoisted
    <2> SUFFICES ASSUME NEW d \in BlockDomains,
                        (\A i \in 1 .. Len(stack) : stack[i].ctx # d) \/ cprog.hold[d] = "slowRead"
                 PROVE  perm[d] = held[d]
      BY DEF Clocked!HoldsAreAsHoisted
    <2> QED
      BY DEF SlowInv, Open, Clocked!Moved
  <1>6. Clocked!SlowValueOncePerCall
    <2>1. \A d \in BlockDomains : computed[d] <= 1
      BY DEF SlowInv
    <2>2. ASSUME NEW i \in 1 .. Len(stack), stack[i].ctx # SampleLoop, stack[i].stage = "blocks",
                 cprog.hold[stack[i].ctx] = "slowRead", Clocked!Lazy(stack[i].ctx)
          PROVE  slowVar[stack[i].ctx] = calls
      <3>1. stack[i].ctx \in BlockDomains
        BY <1>1, <2>2, ProgramFacts DEF Regions, ClockedTypes
      <3>2. Running(stack[i].ctx)
        BY <2>2 DEF Running
      <3>3. inCall = TRUE
        <4>1. stack # <<>>
          BY <2>2 DEF RegionsInv
        <4> QED
          BY <4>1 DEF RegionsInv
      <3>4. Clocked!KeptLive(stack[i].ctx)
        BY <2>2 DEF Clocked!KeptLive, Clocked!Moved
      <3> QED
        BY <2>2, <3>1, <3>2, <3>3, <3>4 DEF SlowInv
    <2> QED
      BY <2>1, <2>2 DEF Clocked!SlowValueOncePerCall
  <1> QED
    BY <1>2, <1>3, <1>4, <1>5, <1>6

-----------------------------------------------------------------------------
(* The hierarchical graph.                                                    *)

CallsOfVisit == [sig : Sigs, base : Hierarchy!Keys, own : Hierarchy!Keys,
                 left : SUBSET Sigs, child : Sigs \cup {Nothing}]

OpenCalls(s) == {s[i] : i \in 1 .. Len(s)}

\* the graph a signal belongs to, once its domain is known
PlaceOf(s) ==
    IF hprog.env[s] # Nil THEN keyOf[hprog.env[s]]
    ELSE IF s \in hprog.slow /\ ~ Hierarchy!IsWrapper(s) THEN "control" ELSE "top"

KeysInv ==
    /\ keyOf[Nil] = "top"
    /\ \A e \in Hierarchy!Envs \ {Nil} :
           keyOf[e] # Nothing =>
               /\ keyOf[e] \in Sigs /\ Hierarchy!IsWrapper(keyOf[e])
               /\ hprog.inner[keyOf[e]] = e /\ owned[keyOf[e]] # Nothing
    /\ \A w \in Sigs : Hierarchy!IsWrapper(w) /\ owned[w] # Nothing => keyOf[hprog.inner[w]] = w
    /\ \A e \in Hierarchy!Envs : \A a \in hprog.above[e] : keyOf[e] # Nothing => keyOf[a] # Nothing

PlacesInv ==
    \A s \in Sigs : owned[s] # Nothing => keyOf[hprog.env[s]] # Nothing /\ owned[s] = PlaceOf(s)

CallInv(f) ==
    /\ owned[f.sig] # Nothing /\ f.own = owned[f.sig] /\ f.base = keyOf[hprog.env[f.sig]]
    /\ f.left \subseteq Hierarchy!Children(f.sig)
    /\ f.child # Nothing => f.child \in Hierarchy!Children(f.sig) /\ owned[f.child] # Nothing

(* A value from further out is noted with the block of its reader.            *)
NotedFarOut(s, d) ==
    \E w \in Sigs : /\ Hierarchy!IsWrapper(w) /\ hprog.inner[w] = hprog.env[s]
                    /\ hprog.env[s] # Nil /\ hprog.env[d] \notin {hprog.env[s], hprog.env[w]}
                    /\ owned[w] # Nothing /\ <<owned[w], w, d, FALSE>> \in edges

(* A need is ready, or a call is still to return that will see to it.         *)
ReadyFor(s, d) ==
    /\ owned[d] # Nothing
    /\ \/ owned[d] = "control" /\ owned[s] # "control"
       \/ \E h \in Hierarchy!Hosts(s, owned[d]) : <<owned[d], h, d, FALSE>> \in edges
       \/ NotedFarOut(s, d)

Waiting(s, d) == \E f \in OpenCalls(hstack) : f.sig = s /\ (d \in f.left \/ f.child = d)

ReadyInv ==
    \A s \in Sigs : \A d \in hprog.now[s] :
        owned[s] # Nothing /\ ~ Hierarchy!IsWrapper(s) => ReadyFor(s, d) \/ Waiting(s, d)

(* An edge stands for a need.                                                 *)
EdgeInv(e) ==
    ~ e[4] =>
        \E s \in Sigs :
            /\ e[3] \in Hierarchy!Needs(s)
            /\ \/ e[2] = s
               \/ Hierarchy!IsWrapper(e[2]) /\ hprog.inner[e[2]] = hprog.env[s]

HierarchyTypes ==
    /\ hprog \in Forests
    /\ keyOf \in [Hierarchy!Envs -> Hierarchy!Keys \cup {Nothing}]
    /\ owned \in [Sigs -> Hierarchy!Keys \cup {Nothing}]
    /\ edges \subseteq Hierarchy!Keys \X Sigs \X Sigs \X BOOLEAN
    /\ outputsLeft \subseteq hprog.outputs
    /\ hstack \in Seq(CallsOfVisit)

HierarchyInv ==
    /\ HierarchyTypes /\ KeysInv /\ PlacesInv
    /\ \A f \in OpenCalls(hstack) : CallInv(f)
    /\ ReadyInv
    /\ \A e \in edges : EdgeInv(e)

LEMMA CallPushed ==
  ASSUME NEW R, NEW s \in Seq(R), NEW x \in R
  PROVE  <<x>> \o s \in Seq(R) /\ OpenCalls(<<x>> \o s) = {x} \cup OpenCalls(s)
  <1> DEFINE t == <<x>> \o s
  <1>1. /\ t \in Seq(R) /\ Len(t) = Len(s) + 1 /\ t[1] = x
        /\ \A i \in 1 .. Len(s) : t[i + 1] = s[i]
    OBVIOUS
  <1> HIDE DEF t
  <1>2. Len(s) \in Nat
    OBVIOUS
  <1>3. \A i \in 1 .. Len(t) : i = 1 \/ (i - 1 \in 1 .. Len(s) /\ (i - 1) + 1 = i)
    BY <1>1, <1>2
  <1>4. \A i \in 1 .. Len(s) : i + 1 \in 1 .. Len(t)
    BY <1>1, <1>2
  <1>5. 1 \in 1 .. Len(t)
    BY <1>1, <1>2
  <1>6. OpenCalls(t) = {x} \cup OpenCalls(s)
    <2>1. ASSUME NEW y \in OpenCalls(t)
          PROVE  y \in {x} \cup OpenCalls(s)
      <3>1. PICK i \in 1 .. Len(t) : y = t[i]
        BY <2>1 DEF OpenCalls
      <3>2. CASE i = 1
        BY <1>1, <3>1, <3>2
      <3>3. CASE i - 1 \in 1 .. Len(s) /\ (i - 1) + 1 = i
        <4>1. s[i - 1] = t[i]
          BY <1>1, <3>3
        <4> QED
          BY <3>1, <3>3, <4>1 DEF OpenCalls
      <3> QED
        BY <1>3, <3>2, <3>3
    <2>2. ASSUME NEW i \in 1 .. Len(s)
          PROVE  s[i] \in OpenCalls(t)
      BY <1>1, <1>4 DEF OpenCalls
    <2>3. x \in OpenCalls(t)
      BY <1>1, <1>5 DEF OpenCalls
    <2>4. \A y \in OpenCalls(s) : y \in OpenCalls(t)
      BY <2>2 DEF OpenCalls
    <2> QED
      BY <2>1, <2>3, <2>4
  <1> QED
    BY <1>1, <1>6 DEF t

LEMMA CallPopped ==
  ASSUME NEW R, NEW s \in Seq(R), s # <<>>
  PROVE  /\ Head(s) \in R /\ Tail(s) \in Seq(R)
         /\ OpenCalls(s) = {Head(s)} \cup OpenCalls(Tail(s))
  <1>1. Head(s) \in R /\ Tail(s) \in Seq(R) /\ s = <<Head(s)>> \o Tail(s)
    OBVIOUS
  <1> QED
    BY <1>1, CallPushed

LEMMA NoCalls == OpenCalls(<<>>) = {}
  BY DEF OpenCalls

(* What the assumption says of the forest at hand.                            *)
LEMMA ForestFacts ==
  ASSUME hprog \in Forests
  PROVE  /\ hprog.env \in [Sigs -> Hierarchy!Envs] /\ hprog.slow \subseteq Sigs
         /\ hprog.now \in [Sigs -> SUBSET Sigs] /\ hprog.held \in [Sigs -> SUBSET Sigs]
         /\ hprog.clock \in [Sigs -> Sigs \cup {Nothing}] /\ hprog.inner \in [Sigs -> Hierarchy!Envs]
         /\ hprog.above \in [Hierarchy!Envs -> SUBSET Hierarchy!Envs]
         /\ hprog.outputs \subseteq Sigs
         /\ hprog \in Hierarchy!Program
         /\ Hierarchy!WellClocked(hprog)
         /\ \A s \in Sigs : s \in Hierarchy!Blocks(hprog) <=> Hierarchy!IsWrapper(s)
         /\ Nil \in Hierarchy!Envs /\ Nothing \notin Sigs
         /\ Nothing \notin Hierarchy!Keys /\ "top" \notin Sigs /\ "control" \notin Sigs
         /\ "top" \in Hierarchy!Keys /\ "control" \in Hierarchy!Keys /\ Sigs \subseteq Hierarchy!Keys
         /\ "top" # Nothing /\ "control" # Nothing
  <1>1. hprog \in Hierarchy!Program /\ Hierarchy!WellClocked(hprog)
    BY LoweringAssumption DEF Hierarchy!HierarchyAssumption
  <1>2. /\ Nothing \notin Sigs
        /\ Nothing \notin Hierarchy!Keys /\ {"top", "control"} \cap Sigs = {}
    BY LoweringAssumption DEF Hierarchy!HierarchyAssumption
  <1>3. \A s \in Sigs : s \in Hierarchy!Blocks(hprog) <=> Hierarchy!IsWrapper(s)
    BY DEF Hierarchy!Blocks, Hierarchy!IsWrapper
  <1>4. /\ hprog.env \in [Sigs -> Hierarchy!Envs] /\ hprog.slow \subseteq Sigs
        /\ hprog.now \in [Sigs -> SUBSET Sigs] /\ hprog.held \in [Sigs -> SUBSET Sigs]
        /\ hprog.clock \in [Sigs -> Sigs \cup {Nothing}] /\ hprog.inner \in [Sigs -> Hierarchy!Envs]
        /\ hprog.above \in [Hierarchy!Envs -> SUBSET Hierarchy!Envs]
        /\ hprog.outputs \subseteq Sigs
    BY <1>1 DEF Hierarchy!Program
  <1> QED
    BY <1>1, <1>2, <1>3, <1>4 DEF Hierarchy!Keys, Hierarchy!Envs

(* Blocks and their domains, one rule at a time.                              *)
LEMMA BlockRules ==
  ASSUME hprog \in Forests, NEW w \in Sigs, Hierarchy!IsWrapper(w)
  PROVE  /\ hprog.inner[w] # Nil
         /\ hprog.above[hprog.inner[w]] = {hprog.env[w]} \cup hprog.above[hprog.env[w]]
         /\ hprog.clock[w] \in hprog.now[w] /\ hprog.clock[w] \in Sigs /\ w \notin hprog.slow
         /\ \A v \in Sigs : Hierarchy!IsWrapper(v) /\ hprog.inner[v] = hprog.inner[w] => v = w
         /\ \A d \in Hierarchy!Children(w) : hprog.env[d] \in {hprog.inner[w], Nil}
  <1>1. w \in Hierarchy!Blocks(hprog) /\ Hierarchy!WellClocked(hprog)
    BY ForestFacts
  <1>2. /\ hprog.inner[w] # Nil
        /\ hprog.above[hprog.inner[w]] = {hprog.env[w]} \cup hprog.above[hprog.env[w]]
        /\ hprog.clock[w] \in hprog.now[w] /\ w \notin hprog.slow
        /\ \A v \in Hierarchy!Blocks(hprog) : hprog.inner[v] = hprog.inner[w] => v = w
        /\ \A d \in hprog.now[w] \cup hprog.held[w] : hprog.env[d] \in {hprog.inner[w], Nil}
    BY <1>1 DEF Hierarchy!WellClocked
  <1>3. hprog.clock[w] \in Sigs
    BY ForestFacts DEF Hierarchy!IsWrapper
  <1>4. \A v \in Sigs : Hierarchy!IsWrapper(v) => v \in Hierarchy!Blocks(hprog)
    BY ForestFacts
  <1> QED
    BY <1>2, <1>3, <1>4 DEF Hierarchy!Children

LEMMA SignalRules ==
  ASSUME hprog \in Forests, NEW s \in Sigs, ~ Hierarchy!IsWrapper(s), NEW d \in Hierarchy!Children(s)
  PROVE  d \in Sigs /\ hprog.env[d] \in {hprog.env[s]} \cup hprog.above[hprog.env[s]]
  <1>1. s \in Sigs \ Hierarchy!Blocks(hprog) /\ Hierarchy!WellClocked(hprog)
    BY ForestFacts
  <1>2. d \in Sigs /\ d \in hprog.now[s] \cup hprog.held[s]
    BY ForestFacts DEF Hierarchy!Children
  <1> QED
    BY <1>1, <1>2 DEF Hierarchy!WellClocked

LEMMA DomainRules ==
  ASSUME hprog \in Forests
  PROVE  /\ \A s \in hprog.slow : s \in Sigs /\ ~ Hierarchy!IsWrapper(s) /\ Hierarchy!Children(s) \subseteq hprog.slow
         /\ hprog.above[Nil] = {} /\ \A e \in Hierarchy!Envs : e \notin hprog.above[e]
         /\ \A e \in Hierarchy!Envs : hprog.above[e] \subseteq Hierarchy!Envs
         /\ \A s \in hprog.outputs : s \in Sigs /\ hprog.env[s] = Nil
  <1>1. Hierarchy!WellClocked(hprog)
    BY ForestFacts
  <1>2. /\ \A s \in hprog.slow : hprog.now[s] \cup hprog.held[s] \subseteq hprog.slow
        /\ hprog.above[Nil] = {} /\ \A e \in GraphDomains : e \notin hprog.above[e]
        /\ \A s \in hprog.outputs : hprog.env[s] = Nil
    BY <1>1 DEF Hierarchy!WellClocked
  <1>3. \A s \in hprog.slow : s \in Sigs /\ ~ Hierarchy!IsWrapper(s)
    BY ForestFacts, BlockRules
  <1>4. \A e \in Hierarchy!Envs : e \notin hprog.above[e] /\ hprog.above[e] \subseteq Hierarchy!Envs
    BY <1>2, ForestFacts DEF Hierarchy!Envs
  <1> QED
    BY <1>2, <1>3, <1>4, ForestFacts DEF Hierarchy!Children

(* Where a visited signal is.                                                 *)
LEMMA VisitedIs ==
  ASSUME HierarchyTypes, KeysInv, PlacesInv, NEW s \in Sigs, owned[s] # Nothing
  PROVE  /\ hprog.env[s] \in Hierarchy!Envs
         /\ hprog.env[s] # Nil =>
               \E w \in Sigs : /\ Hierarchy!IsWrapper(w) /\ hprog.inner[w] = hprog.env[s]
                               /\ keyOf[hprog.env[s]] = w /\ owned[w] # Nothing
                               /\ owned[s] = w
         /\ hprog.env[s] = Nil =>
               /\ keyOf[hprog.env[s]] = "top"
               /\ owned[s] = IF s \in hprog.slow THEN "control" ELSE "top"
         /\ Hierarchy!KeyFor(hprog.env[s], keyOf) = keyOf[hprog.env[s]]
  <1>1. hprog.env[s] \in Hierarchy!Envs
    BY ForestFacts DEF HierarchyTypes
  <1>2. keyOf[hprog.env[s]] # Nothing /\ owned[s] = PlaceOf(s)
    BY DEF PlacesInv
  <1>3. CASE hprog.env[s] # Nil
    BY <1>1, <1>2, <1>3 DEF KeysInv, PlaceOf, Hierarchy!KeyFor
  <1>4. CASE hprog.env[s] = Nil
    <2>1. s \in hprog.slow => ~ Hierarchy!IsWrapper(s)
      BY DomainRules DEF HierarchyTypes
    <2> QED
      BY <1>1, <1>2, <1>4, <2>1 DEF KeysInv, PlaceOf, Hierarchy!KeyFor
  <1> QED
    BY <1>3, <1>4

(* A child's domain is known when its parent's is.                            *)
LEMMA ChildIsKnown ==
  ASSUME HierarchyTypes, KeysInv, PlacesInv, NEW s \in Sigs, owned[s] # Nothing,
         NEW d \in Hierarchy!Children(s)
  PROVE  d \in Sigs /\ keyOf[hprog.env[d]] # Nothing
  <1>1. d \in Sigs /\ hprog.env[d] \in Hierarchy!Envs /\ keyOf[Nil] # Nothing /\ hprog \in Forests
    BY ForestFacts DEF Hierarchy!Children, HierarchyTypes, KeysInv
  <1>2. CASE Hierarchy!IsWrapper(s)
    <2>1. hprog.env[d] \in {hprog.inner[s], Nil}
      BY <1>1, <1>2, BlockRules
    <2>2. keyOf[hprog.inner[s]] = s /\ s # Nothing
      BY <1>1, <1>2, ForestFacts DEF KeysInv
    <2> QED
      BY <1>1, <2>1, <2>2
  <1>3. CASE ~ Hierarchy!IsWrapper(s)
    <2>1. hprog.env[d] \in {hprog.env[s]} \cup hprog.above[hprog.env[s]]
      BY <1>1, <1>3, SignalRules
    <2>2. keyOf[hprog.env[s]] # Nothing /\ hprog.env[s] \in Hierarchy!Envs
      BY <1>1, ForestFacts DEF PlacesInv
    <2> QED
      BY <1>1, <2>1, <2>2 DEF KeysInv
  <1> QED
    BY <1>2, <1>3

(* A visit only adds: keys, owners, edges.                                    *)
Grows ==
    /\ hprog' = hprog
    /\ \A e \in Hierarchy!Envs : keyOf[e] # Nothing => keyOf'[e] = keyOf[e]
    /\ \A s \in Sigs : owned[s] # Nothing => owned'[s] = owned[s]
    /\ edges \subseteq edges'

LEMMA ForestStays ==
  ASSUME hprog' = hprog
  PROVE  /\ \A s : Hierarchy!IsWrapper(s)' <=> Hierarchy!IsWrapper(s)
         /\ \A s : Hierarchy!Children(s)' = Hierarchy!Children(s)
         /\ \A s : Hierarchy!Needs(s)' = Hierarchy!Needs(s)
  BY DEF Hierarchy!IsWrapper, Hierarchy!Children, Hierarchy!Needs

LEMMA StaysReady ==
  ASSUME HierarchyTypes, Grows, NEW s \in Sigs, NEW d \in Sigs, owned[s] # Nothing, ReadyFor(s, d)
  PROVE  ReadyFor(s, d)'
  <1>1. owned'[d] = owned[d] /\ owned[d] # Nothing /\ owned'[s] = owned[s]
    BY DEF Grows, ReadyFor
  <1>2. \A h \in Hierarchy!Hosts(s, owned[d]) : h \in Sigs /\ owned[h] = owned[d]
    BY DEF Hierarchy!Hosts
  <1>3. \A h \in Hierarchy!Hosts(s, owned[d]) : h \in Hierarchy!Hosts(s, owned[d])'
    BY <1>1, <1>2, ForestStays DEF Grows, Hierarchy!Hosts
  <1>4. CASE owned[d] = "control" /\ owned[s] # "control"
    BY <1>1, <1>4 DEF ReadyFor
  <1>5. CASE \E h \in Hierarchy!Hosts(s, owned[d]) : <<owned[d], h, d, FALSE>> \in edges
    BY <1>1, <1>3, <1>5 DEF Grows, ReadyFor
  <1>6. CASE NotedFarOut(s, d)
    <2>1. PICK w \in Sigs :
            /\ Hierarchy!IsWrapper(w) /\ hprog.inner[w] = hprog.env[s]
            /\ hprog.env[s] # Nil /\ hprog.env[d] \notin {hprog.env[s], hprog.env[w]}
            /\ owned[w] # Nothing /\ <<owned[w], w, d, FALSE>> \in edges
      BY <1>6 DEF NotedFarOut
    <2>2. owned'[w] = owned[w] /\ <<owned'[w], w, d, FALSE>> \in edges' /\ hprog' = hprog
          /\ Hierarchy!IsWrapper(w)'
      BY <2>1, ForestStays DEF Grows
    <2>3. NotedFarOut(s, d)'
      BY <2>1, <2>2 DEF NotedFarOut
    <2> QED
      BY <1>1, <2>3 DEF ReadyFor
  <1> QED
    BY <1>4, <1>5, <1>6 DEF ReadyFor

LEMMA CallStays ==
  ASSUME HierarchyTypes, PlacesInv, Grows, NEW f \in CallsOfVisit, CallInv(f)
  PROVE  CallInv(f)'
  <1>1. /\ f.sig \in Sigs /\ owned[f.sig] # Nothing
        /\ f.child # Nothing => f.child \in Sigs /\ owned[f.child] # Nothing
        /\ hprog.env[f.sig] \in Hierarchy!Envs /\ keyOf[hprog.env[f.sig]] # Nothing
    BY ForestFacts DEF CallInv, CallsOfVisit, HierarchyTypes, PlacesInv
  <1> QED
    BY <1>1, ForestStays DEF CallInv, Grows

LEMMA EdgeStays ==
  ASSUME HierarchyTypes, Grows, NEW e \in edges, EdgeInv(e)
  PROVE  EdgeInv(e)'
  <1> QED
    BY ForestStays DEF EdgeInv, Grows

LEMMA HierarchyInit ==
  ASSUME Hierarchy!Init
  PROVE  HierarchyInv
  <1>1. /\ hprog \in Forests /\ edges = {} /\ hstack = <<>> /\ outputsLeft = hprog.outputs
        /\ keyOf = [e \in Hierarchy!Envs |-> IF e = Nil THEN "top" ELSE Nothing]
        /\ owned = [s \in Sigs |-> Nothing]
    BY DEF Hierarchy!Init
  <1>2. HierarchyTypes
    <2>1. keyOf \in [Hierarchy!Envs -> Hierarchy!Keys \cup {Nothing}]
      BY <1>1, ForestFacts
    <2>2. owned \in [Sigs -> Hierarchy!Keys \cup {Nothing}]
      BY <1>1
    <2>3. hstack \in Seq(CallsOfVisit)
      BY <1>1
    <2> QED
      BY <1>1, <2>1, <2>2, <2>3 DEF HierarchyTypes
  <1>3. KeysInv
    <2>1. \A e \in Hierarchy!Envs : \A a \in hprog.above[e] : keyOf[e] # Nothing => keyOf[a] # Nothing
      BY <1>1, DomainRules
    <2> QED
      BY <1>1, <2>1, ForestFacts DEF KeysInv
  <1>4. PlacesInv /\ ReadyInv
    BY <1>1 DEF PlacesInv, ReadyInv
  <1> QED
    BY <1>1, <1>2, <1>3, <1>4, NoCalls DEF HierarchyInv

(* visit of a signal whose domain is known, above the calls `frames'.         *)
LEMMA EnterStep ==
  ASSUME HierarchyTypes, KeysInv, PlacesInv, hprog' = hprog,
         NEW s \in Sigs, keyOf[hprog.env[s]] # Nothing,
         NEW frames, Hierarchy!Enter(s, frames)
  PROVE  /\ Grows /\ KeysInv' /\ PlacesInv' /\ owned'[s] # Nothing
         /\ keyOf' \in [Hierarchy!Envs -> Hierarchy!Keys \cup {Nothing}]
         /\ owned' \in [Sigs -> Hierarchy!Keys \cup {Nothing}]
         /\ edges' \subseteq Hierarchy!Keys \X Sigs \X Sigs \X BOOLEAN
         /\ \A e \in edges' \ edges : EdgeInv(e)'
         /\ \A t \in Sigs : t # s => owned'[t] = owned[t]
         /\ \/ owned[s] # Nothing /\ hstack' = frames
            \/ \E f \in CallsOfVisit :
                  /\ f.sig = s /\ f.left = Hierarchy!Children(s) /\ CallInv(f)'
                  /\ hstack' = <<f>> \o frames
  <1>0. /\ hprog \in Forests /\ hprog.env[s] \in Hierarchy!Envs
        /\ owned \in [Sigs -> Hierarchy!Keys \cup {Nothing}]
        /\ keyOf \in [Hierarchy!Envs -> Hierarchy!Keys \cup {Nothing}]
        /\ edges \subseteq Hierarchy!Keys \X Sigs \X Sigs \X BOOLEAN
    BY ForestFacts DEF HierarchyTypes
  <1>1. CASE owned[s] # Nothing
    <2>1. hstack' = frames /\ owned' = owned /\ edges' = edges /\ keyOf' = keyOf
      BY <1>1 DEF Hierarchy!Enter
    <2>2. KeysInv' /\ PlacesInv'
      BY <2>1, ForestStays DEF KeysInv, PlacesInv, PlaceOf
    <2> QED
      BY <1>0, <1>1, <2>1, <2>2 DEF Grows
  <1>2. CASE owned[s] = Nothing
    <2> DEFINE base == Hierarchy!KeyFor(hprog.env[s], keyOf)
               own == IF Hierarchy!IsWrapper(s) THEN base ELSE Hierarchy!EffectiveKey(base, s)
               f == Hierarchy!Frame(s, base, own)
    <2>1. /\ owned' = [owned EXCEPT ![s] = own]
          /\ keyOf' = Hierarchy!Registered(s)
          /\ edges' = edges \cup Hierarchy!ClockEdge(s, own)
          /\ hstack' = <<f>> \o frames
      BY <1>2, Zenon DEF Hierarchy!Enter
    <2>2. base = keyOf[hprog.env[s]] /\ base \in Hierarchy!Keys /\ base # "control"
          /\ (base = "top" <=> hprog.env[s] = Nil)
      BY <1>0, ForestFacts DEF Hierarchy!KeyFor, KeysInv
    <2>3. /\ own \in Hierarchy!Keys /\ own # Nothing
          /\ own = IF hprog.env[s] # Nil THEN base
                   ELSE IF s \in hprog.slow /\ ~ Hierarchy!IsWrapper(s) THEN "control" ELSE "top"
          /\ (Hierarchy!IsWrapper(s) => own = base)
      BY <1>0, <2>2, ForestFacts DEF Hierarchy!EffectiveKey
    <2>4. /\ owned' \in [Sigs -> Hierarchy!Keys \cup {Nothing}]
          /\ owned'[s] = own
          /\ \A t \in Sigs : t # s => owned'[t] = owned[t]
      <3> HIDE DEF own
      <3> QED
        BY <1>0, <2>1, <2>3
    <2>5. Hierarchy!IsWrapper(s) =>
            /\ hprog.inner[s] \in Hierarchy!Envs /\ hprog.inner[s] # Nil
            /\ keyOf[hprog.inner[s]] = Nothing
            /\ keyOf' = [keyOf EXCEPT ![hprog.inner[s]] = s]
      <3> SUFFICES ASSUME Hierarchy!IsWrapper(s)
                   PROVE  /\ hprog.inner[s] \in Hierarchy!Envs /\ hprog.inner[s] # Nil
                          /\ keyOf[hprog.inner[s]] = Nothing
                          /\ keyOf' = [keyOf EXCEPT ![hprog.inner[s]] = s]
        OBVIOUS
      <3>1. hprog.inner[s] \in Hierarchy!Envs /\ hprog.inner[s] # Nil
        BY <1>0, ForestFacts, BlockRules
      <3>2. ASSUME keyOf[hprog.inner[s]] # Nothing
            PROVE  FALSE
        <4>1. PICK v \in Sigs : /\ v = keyOf[hprog.inner[s]] /\ Hierarchy!IsWrapper(v)
                                /\ hprog.inner[v] = hprog.inner[s] /\ owned[v] # Nothing
          BY <3>1, <3>2 DEF KeysInv
        <4>2. v = s
          BY <1>0, <4>1, BlockRules
        <4> QED
          BY <1>2, <4>1, <4>2
      <3> QED
        BY <2>1, <3>1, <3>2 DEF Hierarchy!Registered
    <2>6. ~ Hierarchy!IsWrapper(s) => keyOf' = keyOf
      BY <2>1 DEF Hierarchy!Registered
    <2>7. /\ keyOf' \in [Hierarchy!Envs -> Hierarchy!Keys \cup {Nothing}]
          /\ \A e \in Hierarchy!Envs : keyOf[e] # Nothing => keyOf'[e] = keyOf[e]
          /\ \A e \in Hierarchy!Envs : keyOf'[e] # keyOf[e] =>
                Hierarchy!IsWrapper(s) /\ e = hprog.inner[s] /\ keyOf'[e] = s
      <3>1. CASE Hierarchy!IsWrapper(s)
        <4>1. s \in Hierarchy!Keys \cup {Nothing}
          BY <1>0, ForestFacts
        <4> QED
          BY <1>0, <2>5, <3>1, <4>1
      <3>2. CASE ~ Hierarchy!IsWrapper(s)
        BY <1>0, <2>6, <3>2
      <3> QED
        BY <3>1, <3>2
    <2>8. edges \subseteq edges' /\ edges' \subseteq Hierarchy!Keys \X Sigs \X Sigs \X BOOLEAN
      <3>1. Hierarchy!ClockEdge(s, own) \subseteq Hierarchy!Keys \X Sigs \X Sigs \X BOOLEAN
        <4>1. Hierarchy!IsWrapper(s) => hprog.clock[s] \in Sigs
          BY <1>0, BlockRules
        <4>2. PICK k \in Hierarchy!Keys : k = own
          BY <2>3
        <4>3. Hierarchy!IsWrapper(s) =>
                <<k, s, hprog.clock[s], FALSE>> \in Hierarchy!Keys \X Sigs \X Sigs \X BOOLEAN
          BY <4>1
        <4>4. Hierarchy!ClockEdge(s, own) \subseteq {<<k, s, hprog.clock[s], FALSE>>}
              /\ (~ Hierarchy!IsWrapper(s) => Hierarchy!ClockEdge(s, own) = {})
          BY <4>2 DEF Hierarchy!ClockEdge
        <4> HIDE DEF own
        <4> QED
          BY <4>3, <4>4
      <3> HIDE DEF own
      <3> QED
        BY <1>0, <2>1, <3>1
    <2>9. Grows
      BY <1>2, <2>4, <2>7, <2>8 DEF Grows
    <2>10. KeysInv'
      <3>1. keyOf'[Nil] = "top"
        BY <1>0, <2>7, ForestFacts DEF KeysInv
      <3>2. \A e \in Hierarchy!Envs \ {Nil} :
               keyOf'[e] # Nothing =>
                   /\ keyOf'[e] \in Sigs /\ Hierarchy!IsWrapper(keyOf'[e])
                   /\ hprog.inner[keyOf'[e]] = e /\ owned'[keyOf'[e]] # Nothing
        <4> SUFFICES ASSUME NEW e \in Hierarchy!Envs \ {Nil}, keyOf'[e] # Nothing
                     PROVE  /\ keyOf'[e] \in Sigs /\ Hierarchy!IsWrapper(keyOf'[e])
                            /\ hprog.inner[keyOf'[e]] = e /\ owned'[keyOf'[e]] # Nothing
          OBVIOUS
        <4>1. CASE keyOf'[e] = keyOf[e]
          <5>1. /\ keyOf[e] \in Sigs /\ Hierarchy!IsWrapper(keyOf[e])
                /\ hprog.inner[keyOf[e]] = e /\ owned[keyOf[e]] # Nothing
            BY <4>1 DEF KeysInv
          <5> QED
            BY <2>9, <4>1, <5>1 DEF Grows
        <4>2. CASE keyOf'[e] # keyOf[e]
          BY <2>3, <2>4, <2>7, <4>2
        <4> QED
          BY <4>1, <4>2
      <3>3. \A w \in Sigs : Hierarchy!IsWrapper(w) /\ owned'[w] # Nothing => keyOf'[hprog.inner[w]] = w
        <4> SUFFICES ASSUME NEW w \in Sigs, Hierarchy!IsWrapper(w), owned'[w] # Nothing
                     PROVE  keyOf'[hprog.inner[w]] = w
          OBVIOUS
        <4>1. CASE w = s
          BY <1>0, <2>5, <4>1
        <4>2. CASE w # s
          <5>1. keyOf[hprog.inner[w]] = w /\ w # Nothing /\ hprog.inner[w] \in Hierarchy!Envs
            BY <1>0, <2>4, <4>2, ForestFacts DEF KeysInv
          <5> QED
            BY <2>7, <5>1
        <4> QED
          BY <4>1, <4>2
      <3>4. \A e \in Hierarchy!Envs : \A a \in hprog.above[e] : keyOf'[e] # Nothing => keyOf'[a] # Nothing
        <4> SUFFICES ASSUME NEW e \in Hierarchy!Envs, NEW a \in hprog.above[e], keyOf'[e] # Nothing
                     PROVE  keyOf'[a] # Nothing
          OBVIOUS
        <4>0. a \in Hierarchy!Envs
          BY <1>0, DomainRules
        <4>1. CASE keyOf'[e] = keyOf[e]
          <5>1. keyOf[a] # Nothing
            BY <4>1 DEF KeysInv
          <5> QED
            BY <2>7, <4>0, <5>1
        <4>2. CASE keyOf'[e] # keyOf[e]
          <5>1. Hierarchy!IsWrapper(s) /\ e = hprog.inner[s]
            BY <2>7, <4>2
          <5>2. a \in {hprog.env[s]} \cup hprog.above[hprog.env[s]]
            BY <1>0, <5>1, BlockRules
          <5>3. keyOf[a] # Nothing
            BY <1>0, <5>2 DEF KeysInv
          <5> QED
            BY <2>7, <4>0, <5>3
        <4> QED
          BY <4>1, <4>2
      <3> QED
        BY <3>1, <3>2, <3>3, <3>4, ForestStays DEF KeysInv
    <2>11. PlacesInv'
      <3>1. \A t \in Sigs : owned'[t] # Nothing =>
               keyOf'[hprog.env[t]] # Nothing
               /\ owned'[t] = IF hprog.env[t] # Nil THEN keyOf'[hprog.env[t]]
                              ELSE IF t \in hprog.slow /\ ~ Hierarchy!IsWrapper(t) THEN "control" ELSE "top"
        <4> SUFFICES ASSUME NEW t \in Sigs, owned'[t] # Nothing
                     PROVE  keyOf'[hprog.env[t]] # Nothing
                            /\ owned'[t] = IF hprog.env[t] # Nil THEN keyOf'[hprog.env[t]]
                               ELSE IF t \in hprog.slow /\ ~ Hierarchy!IsWrapper(t) THEN "control" ELSE "top"
          OBVIOUS
        <4>0. hprog.env[t] \in Hierarchy!Envs
          BY <1>0, ForestFacts
        <4>1. CASE t = s
          <5> HIDE DEF own, base
          <5> QED
            BY <1>0, <2>2, <2>3, <2>4, <2>7, <4>1
        <4>2. CASE t # s
          <5>1. /\ keyOf[hprog.env[t]] # Nothing
                /\ owned[t] = IF hprog.env[t] # Nil THEN keyOf[hprog.env[t]]
                              ELSE IF t \in hprog.slow /\ ~ Hierarchy!IsWrapper(t) THEN "control" ELSE "top"
            BY <2>4, <4>2 DEF PlacesInv, PlaceOf
          <5> HIDE DEF own, base
          <5> QED
            BY <2>4, <2>7, <4>0, <4>2, <5>1
        <4> QED
          BY <4>1, <4>2
      <3> HIDE DEF own, base
      <3> QED
        BY <3>1, ForestStays DEF PlacesInv, PlaceOf
    <2>12. \A e \in edges' \ edges : EdgeInv(e)'
      <3> SUFFICES ASSUME NEW e \in edges' \ edges
                   PROVE  EdgeInv(e)'
        OBVIOUS
      <3>1. Hierarchy!IsWrapper(s) /\ e = <<own, s, hprog.clock[s], FALSE>>
        <4> HIDE DEF own
        <4> QED
          BY <2>1 DEF Hierarchy!ClockEdge
      <3>2. hprog.clock[s] \in hprog.now[s]
        BY <1>0, <3>1, BlockRules
      <3>3. e[3] \in Hierarchy!Needs(s)' /\ e[2] = s
        <4> HIDE DEF own
        <4> QED
          BY <3>1, <3>2 DEF Hierarchy!Needs
      <3> QED
        BY <3>3 DEF EdgeInv
    <2>13. PICK g \in CallsOfVisit :
             /\ g = f /\ g.sig = s /\ g.left = Hierarchy!Children(s)
             /\ g.base = base /\ g.own = own /\ g.child = Nothing
      <3>1. f = [sig |-> s, base |-> base, own |-> own, left |-> Hierarchy!Children(s), child |-> Nothing]
        BY Zenon DEF Hierarchy!Frame
      <3>2. PICK kids \in SUBSET Sigs : kids = Hierarchy!Children(s)
        BY <1>0, ForestFacts DEF Hierarchy!Children
      <3>3. PICK b \in Hierarchy!Keys : b = base
        BY <2>2
      <3>4. PICK o \in Hierarchy!Keys : o = own
        BY <2>3
      <3>5. f = [sig |-> s, base |-> b, own |-> o, left |-> kids, child |-> Nothing]
        BY <3>1, <3>2, <3>3, <3>4
      <3> HIDE DEF f, own, base
      <3> QED
        BY <3>2, <3>3, <3>4, <3>5 DEF CallsOfVisit
    <2>14. owned'[s] # Nothing
      BY <2>3, <2>4
    <2>15. /\ g.sig = s /\ g.left = Hierarchy!Children(s) /\ CallInv(g)'
           /\ hstack' = <<g>> \o frames
      <3>1. keyOf'[hprog.env[s]] = base
        BY <1>0, <2>2, <2>7
      <3>2. CallInv(g)'
        <4> HIDE DEF f, own, base
        <4> QED
          BY <2>3, <2>4, <2>13, <3>1, ForestStays DEF CallInv
      <3>3. hstack' = <<g>> \o frames
        <4> HIDE DEF f
        <4> QED
          BY <2>1, <2>13
      <3> HIDE DEF f, own, base
      <3> QED
        BY <2>13, <3>2, <3>3
    <2> HIDE DEF f, own, base
    <2> QED
      BY <2>4, <2>7, <2>8, <2>9, <2>10, <2>11, <2>12, <2>14, <2>15
  <1> QED
    BY <1>1, <1>2

(* A child is at home in its parent's domain, or around it.                   *)
LEMMA ChildIsAround ==
  ASSUME HierarchyTypes, NEW s \in Sigs, ~ Hierarchy!IsWrapper(s), NEW d \in Hierarchy!Children(s)
  PROVE  /\ hprog.env[d] = hprog.env[s] \/ hprog.env[d] \in hprog.above[hprog.env[s]]
         /\ hprog.env[s] = Nil => hprog.env[d] = Nil
  <1>1. hprog \in Forests
    BY DEF HierarchyTypes
  <1> QED
    BY <1>1, SignalRules, DomainRules

SettledFarOut(s, d, new) ==
    \E w \in Sigs : /\ Hierarchy!IsWrapper(w) /\ hprog.inner[w] = hprog.env[s]
                    /\ hprog.env[s] # Nil /\ hprog.env[d] \notin {hprog.env[s], hprog.env[w]}
                    /\ owned[w] # Nothing /\ <<owned[w], w, d, FALSE>> \in new

(* What the edges of a call to its child do for that child.                   *)
LEMMA EdgesSettle ==
  ASSUME HierarchyTypes, KeysInv, PlacesInv, NEW f \in CallsOfVisit, CallInv(f), f.child # Nothing
  PROVE  /\ Hierarchy!Edges(f, f.child) \subseteq Hierarchy!Keys \X Sigs \X Sigs \X BOOLEAN
         /\ \A e \in Hierarchy!Edges(f, f.child) : EdgeInv(e)
         /\ f.child \in hprog.now[f.sig] /\ ~ Hierarchy!IsWrapper(f.sig) =>
               \/ owned[f.child] = "control" /\ owned[f.sig] # "control"
               \/ \E h \in Hierarchy!Hosts(f.sig, owned[f.child]) :
                     <<owned[f.child], h, f.child, FALSE>> \in Hierarchy!Edges(f, f.child)
               \/ SettledFarOut(f.sig, f.child, Hierarchy!Edges(f, f.child))
  <1>0. PICK s \in Sigs, d \in Sigs :
           /\ f.sig = s /\ f.child = d /\ owned[s] # Nothing /\ owned[d] # Nothing
           /\ f.own = owned[s] /\ f.base = keyOf[hprog.env[s]] /\ d \in Hierarchy!Children(s)
    BY DEF CallInv, CallsOfVisit
  <1>1. /\ hprog \in Forests /\ hprog.env[s] \in Hierarchy!Envs /\ hprog.env[d] \in Hierarchy!Envs
        /\ owned[s] \in Hierarchy!Keys /\ owned[d] \in Hierarchy!Keys
    BY <1>0, ForestFacts DEF HierarchyTypes
  <1> SUFFICES
        /\ Hierarchy!Edges(f, d) \subseteq Hierarchy!Keys \X Sigs \X Sigs \X BOOLEAN
        /\ \A e \in Hierarchy!Edges(f, d) : EdgeInv(e)
        /\ d \in hprog.now[s] /\ ~ Hierarchy!IsWrapper(s) =>
              \/ owned[d] = "control" /\ owned[s] # "control"
              \/ \E h \in Hierarchy!Hosts(s, owned[d]) :
                    <<owned[d], h, d, FALSE>> \in Hierarchy!Edges(f, d)
              \/ SettledFarOut(s, d, Hierarchy!Edges(f, d))
    BY <1>0
  <1>2. CASE Hierarchy!IsWrapper(s)
    <2>1. Hierarchy!Edges(f, d) = {}
      BY <1>0, <1>2 DEF Hierarchy!Edges
    <2> QED
      BY <1>2, <2>1
  <1>3. CASE ~ Hierarchy!IsWrapper(s) /\ hprog.env[d] \in hprog.above[hprog.env[s]]
    <2>0. hprog.env[s] # Nil /\ hprog.env[d] # hprog.env[s]
      BY <1>0, <1>1, <1>3, ChildIsAround, DomainRules
    <2>1. PICK w \in Sigs : /\ Hierarchy!IsWrapper(w) /\ hprog.inner[w] = hprog.env[s]
                            /\ keyOf[hprog.env[s]] = w /\ owned[w] # Nothing /\ owned[s] = w
      BY <1>0, <2>0, VisitedIs
    <2>2. /\ Hierarchy!KeyFor(hprog.env[w], keyOf) = keyOf[hprog.env[w]]
          /\ hprog.env[w] # Nil => keyOf[hprog.env[w]] \in Sigs /\ owned[w] = keyOf[hprog.env[w]]
          /\ hprog.env[w] = Nil => keyOf[hprog.env[w]] = "top" /\ owned[w] = "top"
      <3>1. w \notin hprog.slow
        BY <1>1, <2>1, BlockRules
      <3> QED
        BY <2>1, <3>1, VisitedIs
    <2>3. /\ keyOf[hprog.env[w]] = owned[w] /\ owned[w] # "control" /\ owned[w] \in Hierarchy!Keys
          /\ w # "control"
      BY <1>1, <2>2, ForestFacts
    <2>4. Hierarchy!Edges(f, d) = {<<owned[w], w, d, FALSE>>}
      <3>1. Hierarchy!Edges(f, d) = Hierarchy!Precondition(f, d)
        BY <1>0, <1>3 DEF Hierarchy!Edges
      <3> QED
        BY <1>0, <2>1, <2>2, <2>3, <3>1 DEF Hierarchy!Precondition
    <2>5. hprog.env[d] = Nil => owned[d] \in {"control", "top"}
                                /\ (d \in hprog.slow => owned[d] = "control")
      BY <1>0, VisitedIs
    <2>6. \/ owned[d] = "control" /\ owned[s] # "control"
          \/ owned[d] = owned[w]
          \/ SettledFarOut(s, d, Hierarchy!Edges(f, d))
      <3>1. CASE hprog.env[d] # hprog.env[w]
        BY <2>0, <2>1, <2>4, <3>1 DEF SettledFarOut
      <3>2. CASE hprog.env[d] = hprog.env[w] /\ hprog.env[d] = Nil
        BY <2>1, <2>2, <2>3, <2>5, <3>2
      <3>3. CASE hprog.env[d] = hprog.env[w] /\ hprog.env[d] # Nil
        BY <1>0, <2>2, <3>3, VisitedIs
      <3> QED
        BY <3>1, <3>2, <3>3
    <2>7. w \in Hierarchy!Hosts(s, owned[w])
      BY <2>1 DEF Hierarchy!Hosts
    <2>8. \A e \in Hierarchy!Edges(f, d) : EdgeInv(e)
      <3>1. PICK e : e = <<owned[w], w, d, FALSE>>
        OBVIOUS
      <3>2. e[1] = owned[w] /\ e[2] = w /\ e[3] = d
        BY <3>1
      <3>3. d \in Hierarchy!Needs(s)
        BY <1>0, <2>0, ForestFacts DEF Hierarchy!Needs, Hierarchy!Children
      <3>4. EdgeInv(e)
        BY <2>1, <3>2, <3>3 DEF EdgeInv
      <3> QED
        BY <2>4, <3>1, <3>4
    <2>9. Hierarchy!Edges(f, d) \subseteq Hierarchy!Keys \X Sigs \X Sigs \X BOOLEAN
      <3>1. <<owned[w], w, d, FALSE>> \in Hierarchy!Keys \X Sigs \X Sigs \X BOOLEAN
        BY <2>3
      <3> QED
        BY <2>4, <3>1
    <2> QED
      BY <2>4, <2>6, <2>7, <2>8, <2>9
  <1>4. CASE ~ Hierarchy!IsWrapper(s) /\ hprog.env[d] = hprog.env[s]
    <2>0. hprog.env[d] \notin hprog.above[hprog.env[s]]
      BY <1>1, <1>4, DomainRules
    <2>1. Hierarchy!Edges(f, d) = Hierarchy!Ordering(f, d)
      BY <1>0, <1>4, <2>0 DEF Hierarchy!Edges
    <2>2. \A e \in Hierarchy!Ordering(f, d) :
             \E x \in BOOLEAN : /\ e = <<owned[s], s, d, x>>
                                /\ ~ x => d \in hprog.now[s]
      BY <1>0 DEF Hierarchy!Ordering
    <2>3. Hierarchy!Edges(f, d) \subseteq Hierarchy!Keys \X Sigs \X Sigs \X BOOLEAN
      <3> SUFFICES ASSUME NEW e \in Hierarchy!Ordering(f, d)
                   PROVE  e \in Hierarchy!Keys \X Sigs \X Sigs \X BOOLEAN
        BY <2>1
      <3>1. PICK x \in BOOLEAN : e = <<owned[s], s, d, x>>
        BY <2>2
      <3> QED
        BY <1>1, <3>1
    <2>4. \A e \in Hierarchy!Edges(f, d) : EdgeInv(e)
      <3> SUFFICES ASSUME NEW e \in Hierarchy!Ordering(f, d)
                   PROVE  EdgeInv(e)
        BY <2>1
      <3>1. PICK x \in BOOLEAN : e = <<owned[s], s, d, x>> /\ (~ x => d \in hprog.now[s])
        BY <2>2
      <3>2. e[2] = s /\ e[3] = d /\ e[4] = x
        BY <3>1
      <3> QED
        BY <3>1, <3>2 DEF EdgeInv, Hierarchy!Needs
    <2>5. ASSUME d \in hprog.now[s]
          PROVE  \/ owned[d] = "control" /\ owned[s] # "control"
                 \/ owned[d] = owned[s] /\ <<owned[s], s, d, FALSE>> \in Hierarchy!Ordering(f, d)
      <3>1. hprog.env[s] # Nil => keyOf[hprog.env[s]] \in Sigs /\ owned[s] = keyOf[hprog.env[s]]
                                  /\ owned[d] = keyOf[hprog.env[s]]
        BY <1>0, <1>4, VisitedIs
      <3>2. hprog.env[s] = Nil => /\ keyOf[hprog.env[s]] = "top"
                                  /\ owned[s] = IF s \in hprog.slow THEN "control" ELSE "top"
                                  /\ owned[d] = IF d \in hprog.slow THEN "control" ELSE "top"
        BY <1>0, <1>4, VisitedIs
      <3>3. s \in hprog.slow => d \in hprog.slow
        BY <1>0, <1>1, DomainRules
      <3>4. CASE hprog.env[s] # Nil
        <4>1. Hierarchy!EffectiveKey(f.base, d) # "control"
          BY <1>0, <3>1, <3>4, ForestFacts DEF Hierarchy!EffectiveKey, HierarchyTypes
        <4>2. <<owned[s], s, d, FALSE>> \in Hierarchy!Ordering(f, d)
          BY <1>0, <2>5, <4>1 DEF Hierarchy!Ordering
        <4> QED
          BY <3>1, <3>4, <4>2
      <3>5. CASE hprog.env[s] = Nil
        <4>1. CASE owned[s] # "control" /\ d \in hprog.slow
          BY <3>2, <3>5, <4>1
        <4>2. CASE owned[s] = "control" \/ d \notin hprog.slow
          <5>1. owned[d] = owned[s]
            BY <3>2, <3>3, <3>5, <4>2
          <5>2. ~ (f.own # "control" /\ Hierarchy!EffectiveKey(f.base, d) = "control")
            BY <1>0, <3>2, <3>5, <4>2 DEF Hierarchy!EffectiveKey
          <5>3. <<owned[s], s, d, FALSE>> \in Hierarchy!Ordering(f, d)
            BY <1>0, <2>5, <5>2 DEF Hierarchy!Ordering
          <5> QED
            BY <5>1, <5>3
        <4> QED
          BY <4>1, <4>2
      <3> QED
        BY <3>4, <3>5
    <2>6. s \in Hierarchy!Hosts(s, owned[s])
      BY DEF Hierarchy!Hosts
    <2> QED
      BY <2>1, <2>3, <2>4, <2>5, <2>6
  <1> QED
    BY <1>0, <1>2, <1>3, <1>4, ChildIsAround

LEMMA VisitOutputStep ==
  ASSUME HierarchyInv, NEW s \in Sigs, Hierarchy!VisitOutput(s)
  PROVE  HierarchyInv'
  <1>0. /\ hprog' = hprog /\ hprog \in Forests /\ hstack = <<>> /\ s \in outputsLeft
        /\ outputsLeft' = outputsLeft \ {s}
        /\ HierarchyTypes /\ KeysInv /\ PlacesInv /\ ReadyInv
        /\ \A e \in edges : EdgeInv(e)
    BY Zenon DEF Hierarchy!VisitOutput, HierarchyInv, HierarchyTypes
  <1>1. PICK frames : frames = <<>>
    OBVIOUS
  <1>2. Hierarchy!Enter(s, frames)
    BY <1>1 DEF Hierarchy!VisitOutput
  <1>3. keyOf[hprog.env[s]] # Nothing
    <2>1. hprog.env[s] = Nil
      BY <1>0, DomainRules DEF HierarchyTypes
    <2> QED
      BY <1>0, <2>1, ForestFacts DEF KeysInv
  <1>4. /\ Grows /\ KeysInv' /\ PlacesInv' /\ owned'[s] # Nothing
        /\ keyOf' \in [Hierarchy!Envs -> Hierarchy!Keys \cup {Nothing}]
        /\ owned' \in [Sigs -> Hierarchy!Keys \cup {Nothing}]
        /\ edges' \subseteq Hierarchy!Keys \X Sigs \X Sigs \X BOOLEAN
        /\ \A e \in edges' \ edges : EdgeInv(e)'
        /\ \A t \in Sigs : t # s => owned'[t] = owned[t]
        /\ \/ owned[s] # Nothing /\ hstack' = frames
           \/ \E f \in CallsOfVisit :
                 /\ f.sig = s /\ f.left = Hierarchy!Children(s) /\ CallInv(f)'
                 /\ hstack' = <<f>> \o frames
    BY <1>0, <1>2, <1>3, EnterStep
  <1>5. \A e \in edges' : EdgeInv(e)'
    BY <1>0, <1>4, EdgeStays
  <1>6. outputsLeft' \subseteq hprog'.outputs
    BY <1>0 DEF HierarchyTypes
  <1>7. \A t \in Sigs : \A d \in hprog.now[t] :
           owned[t] # Nothing /\ ~ Hierarchy!IsWrapper(t) => ReadyFor(t, d)'
    <2> SUFFICES ASSUME NEW t \in Sigs, NEW d \in hprog.now[t],
                        owned[t] # Nothing, ~ Hierarchy!IsWrapper(t)
                 PROVE  ReadyFor(t, d)'
      OBVIOUS
    <2>1. d \in Sigs
      BY <1>0, ForestFacts
    <2>2. ReadyFor(t, d)
      BY <1>0, NoCalls DEF ReadyInv, Waiting
    <2> QED
      BY <1>0, <1>4, <2>1, <2>2, StaysReady
  <1>8. CASE owned[s] # Nothing /\ hstack' = frames
    <2>1. \A t \in Sigs : owned'[t] # Nothing => owned[t] # Nothing
      BY <1>4, <1>8
    <2>2. ReadyInv'
      BY <1>0, <1>7, <2>1, ForestStays DEF ReadyInv
    <2>3. HierarchyTypes'
      BY <1>0, <1>1, <1>4, <1>6, <1>8 DEF HierarchyTypes
    <2>4. OpenCalls(hstack)' = {}
      BY <1>1, <1>8, NoCalls DEF OpenCalls
    <2> QED
      BY <1>4, <1>5, <2>2, <2>3, <2>4 DEF HierarchyInv
  <1>9. CASE \E f \in CallsOfVisit :
                /\ f.sig = s /\ f.left = Hierarchy!Children(s) /\ CallInv(f)'
                /\ hstack' = <<f>> \o frames
    <2>1. PICK f \in CallsOfVisit :
                /\ f.sig = s /\ f.left = Hierarchy!Children(s) /\ CallInv(f)'
                /\ hstack' = <<f>> \o frames
      BY <1>9
    <2>2. frames \in Seq(CallsOfVisit) /\ OpenCalls(frames) = {}
      BY <1>1, NoCalls
    <2>3. hstack' \in Seq(CallsOfVisit) /\ OpenCalls(hstack') = {f}
      BY <2>1, <2>2, CallPushed
    <2>4. OpenCalls(hstack)' = {f}
      BY <2>3 DEF OpenCalls
    <2>5. HierarchyTypes'
      BY <1>0, <1>4, <1>6, <2>3 DEF HierarchyTypes
    <2>6. ReadyInv'
      <3> SUFFICES ASSUME NEW t \in Sigs, NEW d \in hprog.now[t], owned'[t] # Nothing,
                          ~ Hierarchy!IsWrapper(t)
                   PROVE  ReadyFor(t, d)' \/ Waiting(t, d)'
        BY <1>0, ForestStays DEF ReadyInv
      <3>1. CASE t = s
        <4>1. d \in f.left
          BY <2>1, <3>1 DEF Hierarchy!Children
        <4> QED
          BY <2>1, <2>4, <3>1, <4>1 DEF Waiting
      <3>2. CASE t # s
        BY <1>4, <1>7, <3>2
      <3> QED
        BY <3>1, <3>2
    <2> QED
      BY <1>4, <1>5, <2>1, <2>4, <2>5, <2>6 DEF HierarchyInv
  <1> QED
    BY <1>4, <1>8, <1>9

(* The call on top of the stack moves on to g, with the rest of the stack.    *)
LEMMA TopMoves ==
  ASSUME HierarchyInv, hstack # <<>>
  PROVE  /\ Head(hstack) \in CallsOfVisit /\ CallInv(Head(hstack))
         /\ Tail(hstack) \in Seq(CallsOfVisit)
         /\ OpenCalls(hstack) = {Head(hstack)} \cup OpenCalls(Tail(hstack))
         /\ OpenCalls(Tail(hstack)) \subseteq CallsOfVisit
  <1>1. /\ Head(hstack) \in CallsOfVisit /\ Tail(hstack) \in Seq(CallsOfVisit)
        /\ OpenCalls(hstack) = {Head(hstack)} \cup OpenCalls(Tail(hstack))
    BY CallPopped DEF HierarchyInv, HierarchyTypes
  <1>2. CallInv(Head(hstack))
    BY <1>1 DEF HierarchyInv
  <1>3. \A r \in Seq(CallsOfVisit) : OpenCalls(r) \subseteq CallsOfVisit
    BY DEF OpenCalls
  <1> QED
    BY <1>1, <1>2, <1>3

(* A call with less left and another child.                                   *)
LEMMA CallWith ==
  ASSUME NEW f \in CallsOfVisit, NEW d \in Sigs
  PROVE  \E g \in CallsOfVisit :
           /\ g = [f EXCEPT !.left = @ \ {d}, !.child = d]
           /\ g.sig = f.sig /\ g.own = f.own /\ g.base = f.base
           /\ g.left = f.left \ {d} /\ g.child = d
  <1> DEFINE g == [f EXCEPT !.left = @ \ {d}, !.child = d]
  <1>1. PICK l \in SUBSET Sigs : l = f.left \ {d}
    BY DEF CallsOfVisit
  <1>2. g = [f EXCEPT !.left = l, !.child = d]
    BY <1>1, Zenon
  <1>3. /\ g \in CallsOfVisit /\ g.sig = f.sig /\ g.own = f.own /\ g.base = f.base
        /\ g.left = l /\ g.child = d
    <2> HIDE DEF g
    <2> QED
      BY <1>2 DEF CallsOfVisit
  <1> HIDE DEF g
  <1>4. \E h \in CallsOfVisit :
           /\ h = g
           /\ h.sig = f.sig /\ h.own = f.own /\ h.base = f.base
           /\ h.left = f.left \ {d} /\ h.child = d
    BY <1>1, <1>3
  <1> QED
    BY <1>4, Zenon DEF g

LEMMA CallWithChild ==
  ASSUME NEW f \in CallsOfVisit, NEW c \in Sigs \cup {Nothing}
  PROVE  LET g == [f EXCEPT !.child = c]
         IN  /\ g \in CallsOfVisit /\ g.sig = f.sig /\ g.own = f.own /\ g.base = f.base
             /\ g.left = f.left /\ g.child = c
  BY DEF CallsOfVisit

LEMMA DescendStep ==
  ASSUME HierarchyInv, NEW d \in Sigs, Hierarchy!Descend(d)
  PROVE  HierarchyInv'
  <1>0. /\ hprog' = hprog /\ hprog \in Forests /\ hstack # <<>> /\ outputsLeft' = outputsLeft
        /\ HierarchyTypes /\ KeysInv /\ PlacesInv /\ ReadyInv
        /\ \A e \in edges : EdgeInv(e)
        /\ Nothing \notin Sigs
    BY ForestFacts, Zenon DEF Hierarchy!Descend, HierarchyInv, HierarchyTypes
  <1>1. PICK f, rest :
           /\ f = Head(hstack) /\ rest = Tail(hstack) /\ f \in CallsOfVisit /\ CallInv(f)
           /\ rest \in Seq(CallsOfVisit) /\ OpenCalls(hstack) = {f} \cup OpenCalls(rest)
           /\ OpenCalls(rest) \subseteq CallsOfVisit
    BY <1>0, TopMoves
  <1>2. PICK g \in CallsOfVisit :
           /\ g = [f EXCEPT !.left = @ \ {d}, !.child = d]
           /\ g.sig = f.sig /\ g.own = f.own /\ g.base = f.base
           /\ g.left = f.left \ {d} /\ g.child = d
    BY <1>1, CallWith, Zenon
  <1>3. f.child = Nothing /\ d \in f.left
    BY <1>1 DEF Hierarchy!Descend, Hierarchy!top
  <1>4. PICK frames : frames = <<g>> \o rest
    OBVIOUS
  <1>5. Hierarchy!Enter(d, frames)
    BY <1>1, <1>2, <1>4 DEF Hierarchy!Descend, Hierarchy!top
  <1>6. frames \in Seq(CallsOfVisit) /\ OpenCalls(frames) = {g} \cup OpenCalls(rest)
    BY <1>1, <1>4, CallPushed
  <1>7. /\ f.sig \in Sigs /\ owned[f.sig] # Nothing /\ d \in Hierarchy!Children(f.sig)
    BY <1>1, <1>3 DEF CallInv, CallsOfVisit
  <1>8. keyOf[hprog.env[d]] # Nothing
    BY <1>0, <1>7, ChildIsKnown
  <1>9. /\ Grows /\ KeysInv' /\ PlacesInv' /\ owned'[d] # Nothing
        /\ keyOf' \in [Hierarchy!Envs -> Hierarchy!Keys \cup {Nothing}]
        /\ owned' \in [Sigs -> Hierarchy!Keys \cup {Nothing}]
        /\ edges' \subseteq Hierarchy!Keys \X Sigs \X Sigs \X BOOLEAN
        /\ \A e \in edges' \ edges : EdgeInv(e)'
        /\ \A t \in Sigs : t # d => owned'[t] = owned[t]
        /\ \/ owned[d] # Nothing /\ hstack' = frames
           \/ \E c \in CallsOfVisit :
                 /\ c.sig = d /\ c.left = Hierarchy!Children(d) /\ CallInv(c)'
                 /\ hstack' = <<c>> \o frames
    BY <1>0, <1>5, <1>8, EnterStep
  <1>10. \A e \in edges' : EdgeInv(e)'
    BY <1>0, <1>9, EdgeStays
  <1>11. outputsLeft' \subseteq hprog'.outputs
    BY <1>0 DEF HierarchyTypes
  <1>12. \A c \in OpenCalls(rest) : CallInv(c)'
    BY <1>0, <1>1, <1>9, CallStays DEF HierarchyInv
  <1>13. CallInv(g)'
    <2>1. CallInv(f)'
      BY <1>0, <1>1, <1>9, CallStays
    <2>2. d \in Hierarchy!Children(f.sig)'
      BY <1>0, <1>7, ForestStays
    <2> QED
      BY <1>2, <1>9, <2>1, <2>2 DEF CallInv
  <1>14. \A t \in Sigs : \A x \in hprog.now[t] :
            owned[t] # Nothing /\ ~ Hierarchy!IsWrapper(t) =>
              \/ ReadyFor(t, x)'
              \/ \E c \in OpenCalls(frames) : c.sig = t /\ (x \in c.left \/ c.child = x)
    <2> SUFFICES ASSUME NEW t \in Sigs, NEW x \in hprog.now[t],
                        owned[t] # Nothing, ~ Hierarchy!IsWrapper(t)
                 PROVE  \/ ReadyFor(t, x)'
                        \/ \E c \in OpenCalls(frames) : c.sig = t /\ (x \in c.left \/ c.child = x)
      OBVIOUS
    <2>1. x \in Sigs /\ x # Nothing
      BY <1>0, ForestFacts
    <2>2. CASE ReadyFor(t, x)
      BY <1>0, <1>9, <2>1, <2>2, StaysReady
    <2>3. CASE Waiting(t, x)
      <3>1. PICK c \in {f} \cup OpenCalls(rest) : c.sig = t /\ (x \in c.left \/ c.child = x)
        BY <1>1, <2>3 DEF Waiting
      <3>2. CASE c = f
        <4>1. x \in f.left
          BY <1>3, <2>1, <3>1, <3>2
        <4>2. g.sig = t /\ (x \in g.left \/ g.child = x)
          BY <1>2, <3>1, <3>2, <4>1
        <4> QED
          BY <1>6, <4>2
      <3>3. CASE c \in OpenCalls(rest)
        BY <1>6, <3>1, <3>3
      <3> QED
        BY <3>1, <3>2, <3>3
    <2> QED
      BY <1>0, <2>2, <2>3 DEF ReadyInv
  <1>15. CASE owned[d] # Nothing /\ hstack' = frames
    <2>1. OpenCalls(hstack)' = {g} \cup OpenCalls(rest)
      BY <1>6, <1>15 DEF OpenCalls
    <2>2. HierarchyTypes'
      BY <1>0, <1>6, <1>9, <1>11, <1>15 DEF HierarchyTypes
    <2>3. ReadyInv'
      <3> SUFFICES ASSUME NEW t \in Sigs, NEW x \in hprog.now[t], owned'[t] # Nothing,
                          ~ Hierarchy!IsWrapper(t)
                   PROVE  ReadyFor(t, x)' \/ Waiting(t, x)'
        BY <1>0, ForestStays DEF ReadyInv
      <3>1. owned[t] # Nothing
        BY <1>9, <1>15
      <3>2. \/ ReadyFor(t, x)'
            \/ \E c \in {g} \cup OpenCalls(rest) : c.sig = t /\ (x \in c.left \/ c.child = x)
        BY <1>6, <1>14, <3>1
      <3> QED
        BY <2>1, <3>2 DEF Waiting
    <2> QED
      BY <1>9, <1>10, <1>12, <1>13, <2>1, <2>2, <2>3 DEF HierarchyInv
  <1>16. CASE \E c \in CallsOfVisit :
                 /\ c.sig = d /\ c.left = Hierarchy!Children(d) /\ CallInv(c)'
                 /\ hstack' = <<c>> \o frames
    <2>1. PICK c \in CallsOfVisit :
                 /\ c.sig = d /\ c.left = Hierarchy!Children(d) /\ CallInv(c)'
                 /\ hstack' = <<c>> \o frames
      BY <1>16
    <2>2. /\ hstack' \in Seq(CallsOfVisit)
          /\ OpenCalls(hstack') = {c} \cup ({g} \cup OpenCalls(rest))
      BY <1>6, <2>1, CallPushed
    <2>3. OpenCalls(hstack)' = {c} \cup ({g} \cup OpenCalls(rest))
      BY <2>2 DEF OpenCalls
    <2>4. HierarchyTypes'
      BY <1>0, <1>9, <1>11, <2>2 DEF HierarchyTypes
    <2>5. ReadyInv'
      <3> SUFFICES ASSUME NEW t \in Sigs, NEW x \in hprog.now[t], owned'[t] # Nothing,
                          ~ Hierarchy!IsWrapper(t)
                   PROVE  ReadyFor(t, x)' \/ Waiting(t, x)'
        BY <1>0, ForestStays DEF ReadyInv
      <3>1. CASE t = d
        <4>1. x \in c.left
          BY <2>1, <3>1 DEF Hierarchy!Children
        <4> QED
          BY <2>1, <2>3, <3>1, <4>1 DEF Waiting
      <3>2. CASE t # d
        <4>1. owned[t] # Nothing
          BY <1>9, <3>2
        <4>2. \/ ReadyFor(t, x)'
              \/ \E b \in {g} \cup OpenCalls(rest) : b.sig = t /\ (x \in b.left \/ b.child = x)
          BY <1>6, <1>14, <4>1
        <4> QED
          BY <2>3, <4>2 DEF Waiting
      <3> QED
        BY <3>1, <3>2
    <2> QED
      BY <1>9, <1>10, <1>12, <1>13, <2>1, <2>3, <2>4, <2>5 DEF HierarchyInv
  <1> QED
    BY <1>9, <1>15, <1>16

LEMMA ResumeStep ==
  ASSUME HierarchyInv, Hierarchy!Resume
  PROVE  HierarchyInv'
  <1>0. /\ hprog' = hprog /\ hprog \in Forests /\ hstack # <<>> /\ outputsLeft' = outputsLeft
        /\ keyOf' = keyOf /\ owned' = owned
        /\ HierarchyTypes /\ KeysInv /\ PlacesInv /\ ReadyInv
        /\ \A e \in edges : EdgeInv(e)
        /\ Nothing \notin Sigs
    BY ForestFacts, Zenon DEF Hierarchy!Resume, HierarchyInv, HierarchyTypes
  <1>1. PICK f, rest :
           /\ f = Head(hstack) /\ rest = Tail(hstack) /\ f \in CallsOfVisit /\ CallInv(f)
           /\ rest \in Seq(CallsOfVisit) /\ OpenCalls(hstack) = {f} \cup OpenCalls(rest)
           /\ OpenCalls(rest) \subseteq CallsOfVisit
    BY <1>0, TopMoves
  <1>2. PICK g \in CallsOfVisit :
           /\ g = [f EXCEPT !.child = Nothing]
           /\ g.sig = f.sig /\ g.own = f.own /\ g.base = f.base
           /\ g.left = f.left /\ g.child = Nothing
    BY <1>1, CallWithChild
  <1>3. /\ f.child # Nothing
        /\ edges' = edges \cup Hierarchy!Edges(f, f.child)
        /\ hstack' = <<g>> \o rest
    BY <1>1, <1>2 DEF Hierarchy!Resume, Hierarchy!top
  <1>4. hstack' \in Seq(CallsOfVisit) /\ OpenCalls(hstack)' = {g} \cup OpenCalls(rest)
    <2>1. hstack' \in Seq(CallsOfVisit) /\ OpenCalls(hstack') = {g} \cup OpenCalls(rest)
      BY <1>1, <1>3, CallPushed
    <2> QED
      BY <2>1 DEF OpenCalls
  <1>5. Grows
    BY <1>0, <1>3 DEF Grows
  <1>6. /\ Hierarchy!Edges(f, f.child) \subseteq Hierarchy!Keys \X Sigs \X Sigs \X BOOLEAN
        /\ \A e \in Hierarchy!Edges(f, f.child) : EdgeInv(e)
        /\ f.child \in hprog.now[f.sig] /\ ~ Hierarchy!IsWrapper(f.sig) =>
              \/ owned[f.child] = "control" /\ owned[f.sig] # "control"
              \/ \E h \in Hierarchy!Hosts(f.sig, owned[f.child]) :
                    <<owned[f.child], h, f.child, FALSE>> \in Hierarchy!Edges(f, f.child)
              \/ SettledFarOut(f.sig, f.child, Hierarchy!Edges(f, f.child))
    BY <1>0, <1>1, <1>3, EdgesSettle
  <1>7. KeysInv' /\ PlacesInv'
    BY <1>0, ForestStays DEF KeysInv, PlacesInv, PlaceOf
  <1>8. HierarchyTypes'
    BY <1>0, <1>3, <1>4, <1>6 DEF HierarchyTypes
  <1>9. \A e \in edges' : EdgeInv(e)'
    <2> SUFFICES ASSUME NEW e \in edges'
                 PROVE  EdgeInv(e)'
      OBVIOUS
    <2>1. EdgeInv(e)
      BY <1>0, <1>3, <1>6
    <2> QED
      BY <1>0, <2>1, ForestStays DEF EdgeInv
  <1>10. \A c \in OpenCalls(rest) : CallInv(c)'
    BY <1>0, <1>1, <1>5, CallStays DEF HierarchyInv
  <1>11. CallInv(g)'
    <2>1. CallInv(f)'
      BY <1>0, <1>1, <1>5, CallStays
    <2> QED
      BY <1>2, <2>1 DEF CallInv
  <1>12. ReadyInv'
    <2> SUFFICES ASSUME NEW t \in Sigs, NEW x \in hprog.now[t], owned[t] # Nothing,
                        ~ Hierarchy!IsWrapper(t)
                 PROVE  ReadyFor(t, x)' \/ Waiting(t, x)'
      BY <1>0, ForestStays DEF ReadyInv
    <2>1. x \in Sigs /\ x # Nothing
      BY <1>0, ForestFacts
    <2>2. CASE ReadyFor(t, x)
      BY <1>0, <1>5, <2>1, <2>2, StaysReady
    <2>3. CASE Waiting(t, x)
      <3>1. PICK c \in {f} \cup OpenCalls(rest) : c.sig = t /\ (x \in c.left \/ c.child = x)
        BY <1>1, <2>3 DEF Waiting
      <3>2. CASE c = f /\ x \in f.left
        BY <1>2, <1>4, <3>1, <3>2 DEF Waiting
      <3>3. CASE c \in OpenCalls(rest)
        BY <1>4, <3>1, <3>3 DEF Waiting
      <3>4. CASE c = f /\ f.child = x
        <4>1. owned[x] # Nothing
          BY <1>1, <2>1, <3>4 DEF CallInv
        <4>2. \/ owned[x] = "control" /\ owned[t] # "control"
              \/ \E h \in Hierarchy!Hosts(t, owned[x]) : <<owned[x], h, x, FALSE>> \in edges'
              \/ SettledFarOut(t, x, Hierarchy!Edges(f, f.child))
          BY <1>3, <1>6, <3>1, <3>4
        <4>3. \A h \in Hierarchy!Hosts(t, owned[x]) : h \in Hierarchy!Hosts(t, owned[x])'
          BY <1>0, ForestStays DEF Hierarchy!Hosts
        <4>4. SettledFarOut(t, x, Hierarchy!Edges(f, f.child)) => NotedFarOut(t, x)'
          BY <1>0, <1>3, ForestStays DEF SettledFarOut, NotedFarOut
        <4> QED
          BY <1>0, <4>1, <4>2, <4>3, <4>4 DEF ReadyFor
      <3> QED
        BY <3>1, <3>2, <3>3, <3>4
    <2> QED
      BY <1>0, <2>2, <2>3 DEF ReadyInv
  <1> QED
    BY <1>4, <1>7, <1>8, <1>9, <1>10, <1>11, <1>12 DEF HierarchyInv

LEMMA ReturnStep ==
  ASSUME HierarchyInv, Hierarchy!Return
  PROVE  HierarchyInv'
  <1>0. /\ hprog' = hprog /\ hprog \in Forests /\ hstack # <<>> /\ outputsLeft' = outputsLeft
        /\ keyOf' = keyOf /\ owned' = owned /\ edges' = edges
        /\ HierarchyTypes /\ KeysInv /\ PlacesInv /\ ReadyInv
        /\ \A e \in edges : EdgeInv(e)
        /\ Nothing \notin Sigs
    BY ForestFacts, Zenon DEF Hierarchy!Return, HierarchyInv, HierarchyTypes
  <1>1. PICK f, rest :
           /\ f = Head(hstack) /\ rest = Tail(hstack) /\ f \in CallsOfVisit /\ CallInv(f)
           /\ rest \in Seq(CallsOfVisit) /\ OpenCalls(hstack) = {f} \cup OpenCalls(rest)
           /\ OpenCalls(rest) \subseteq CallsOfVisit
    BY <1>0, TopMoves
  <1>2. f.child = Nothing /\ f.left = {} /\ hstack' = rest
    BY <1>1 DEF Hierarchy!Return, Hierarchy!top
  <1>3. OpenCalls(hstack)' = OpenCalls(rest)
    BY <1>2 DEF OpenCalls
  <1>4. Grows
    BY <1>0 DEF Grows
  <1>5. KeysInv' /\ PlacesInv'
    BY <1>0, ForestStays DEF KeysInv, PlacesInv, PlaceOf
  <1>6. HierarchyTypes'
    BY <1>0, <1>1, <1>2 DEF HierarchyTypes
  <1>7. \A e \in edges' : EdgeInv(e)'
    BY <1>0, ForestStays DEF EdgeInv
  <1>8. \A c \in OpenCalls(rest) : CallInv(c)'
    BY <1>0, <1>1, <1>4, CallStays DEF HierarchyInv
  <1>9. ReadyInv'
    <2> SUFFICES ASSUME NEW t \in Sigs, NEW x \in hprog.now[t], owned[t] # Nothing,
                        ~ Hierarchy!IsWrapper(t)
                 PROVE  ReadyFor(t, x)' \/ Waiting(t, x)'
      BY <1>0, ForestStays DEF ReadyInv
    <2>1. x \in Sigs /\ x # Nothing
      BY <1>0, ForestFacts
    <2>2. CASE ReadyFor(t, x)
      BY <1>0, <1>4, <2>1, <2>2, StaysReady
    <2>3. CASE Waiting(t, x)
      <3>1. PICK c \in {f} \cup OpenCalls(rest) : c.sig = t /\ (x \in c.left \/ c.child = x)
        BY <1>1, <2>3 DEF Waiting
      <3>2. c \in OpenCalls(rest)
        BY <1>2, <2>1, <3>1
      <3> QED
        BY <1>3, <3>1, <3>2 DEF Waiting
    <2> QED
      BY <1>0, <2>2, <2>3 DEF ReadyInv
  <1> QED
    BY <1>3, <1>5, <1>6, <1>7, <1>8, <1>9 DEF HierarchyInv

LEMMA HierarchyStep ==
  ASSUME HierarchyInv, Hierarchy!Next
  PROVE  HierarchyInv'
  BY VisitOutputStep, DescendStep, ResumeStep, ReturnStep DEF Hierarchy!Next

LEMMA HierarchyExact ==
  ASSUME HierarchyInv
  PROVE  /\ Hierarchy!TypeOK /\ Hierarchy!PlacedInItsDomain /\ Hierarchy!NeededIsReady
         /\ Hierarchy!EdgesAreNeeds
  <1>1. HierarchyTypes /\ KeysInv /\ PlacesInv /\ ReadyInv /\ \A e \in edges : EdgeInv(e)
    BY DEF HierarchyInv
  <1>2. hprog \in Forests
    BY <1>1 DEF HierarchyTypes
  <1>3. Hierarchy!TypeOK
    BY <1>1, <1>2, ForestFacts DEF Hierarchy!TypeOK, HierarchyTypes
  <1>4. Hierarchy!PlacedInItsDomain
    <2> SUFFICES ASSUME NEW s \in Sigs, owned[s] # Nothing
                 PROVE  owned[s] = IF hprog.env[s] # Nil THEN Hierarchy!WrapperOf(hprog.env[s])
                          ELSE IF s \in hprog.slow /\ ~ Hierarchy!IsWrapper(s) THEN "control" ELSE "top"
      BY DEF Hierarchy!PlacedInItsDomain
    <2>1. CASE hprog.env[s] # Nil
      <3>1. PICK w \in Sigs : /\ Hierarchy!IsWrapper(w) /\ hprog.inner[w] = hprog.env[s]
                              /\ owned[s] = w
        BY <1>1, <2>1, VisitedIs
      <3>2. \A v \in Sigs : Hierarchy!IsWrapper(v) /\ hprog.inner[v] = hprog.env[s] => v = w
        BY <1>2, <3>1, BlockRules
      <3>3. Hierarchy!WrapperOf(hprog.env[s]) = w
        BY <3>1, <3>2 DEF Hierarchy!WrapperOf
      <3> QED
        BY <2>1, <3>1, <3>3
    <2>2. CASE hprog.env[s] = Nil
      BY <1>1, <2>2 DEF PlacesInv, PlaceOf
    <2> QED
      BY <2>1, <2>2
  <1>5. Hierarchy!NeededIsReady
    <2> SUFFICES ASSUME Hierarchy!Done, NEW s \in Sigs, NEW d \in hprog.now[s],
                        owned[s] # Nothing, ~ Hierarchy!IsWrapper(s)
                 PROVE  \/ owned[d] = "control" /\ owned[s] # "control"
                        \/ \E h \in Hierarchy!Hosts(s, owned[d]) : <<owned[d], h, d, FALSE>> \in edges
                        \/ /\ Hierarchy!FarOut(s, d)
                           /\ \E w \in {Hierarchy!WrapperOf(hprog.env[s])} : <<owned[w], w, d, FALSE>> \in edges
      BY DEF Hierarchy!NeededIsReady
    <2>1. ~ Waiting(s, d)
      BY NoCalls DEF Waiting, Hierarchy!Done
    <2>2. CASE NotedFarOut(s, d)
      <3>1. PICK w \in Sigs :
              /\ Hierarchy!IsWrapper(w) /\ hprog.inner[w] = hprog.env[s]
              /\ hprog.env[s] # Nil /\ hprog.env[d] \notin {hprog.env[s], hprog.env[w]}
              /\ <<owned[w], w, d, FALSE>> \in edges
        BY <2>2 DEF NotedFarOut
      <3>2. \A v \in Sigs : Hierarchy!IsWrapper(v) /\ hprog.inner[v] = hprog.env[s] => v = w
        BY <1>2, <3>1, BlockRules
      <3>3. Hierarchy!WrapperOf(hprog.env[s]) = w
        BY <3>1, <3>2 DEF Hierarchy!WrapperOf
      <3> QED
        BY <3>1, <3>3 DEF Hierarchy!FarOut
    <2> QED
      BY <1>1, <2>1, <2>2 DEF ReadyInv, ReadyFor
  <1>6. Hierarchy!EdgesAreNeeds
    <2> SUFFICES ASSUME NEW e \in edges, ~ e[4], owned[e[2]] = e[1], owned[e[3]] = e[1]
                 PROVE  \E s \in Sigs : e[3] \in Hierarchy!Needs(s) /\ e[2] \in Hierarchy!Hosts(s, e[1])
      BY DEF Hierarchy!EdgesAreNeeds
    <2>1. PICK s \in Sigs : /\ e[3] \in Hierarchy!Needs(s)
                            /\ \/ e[2] = s
                               \/ Hierarchy!IsWrapper(e[2]) /\ hprog.inner[e[2]] = hprog.env[s]
      BY <1>1 DEF EdgeInv
    <2>2. e[2] \in Sigs
      BY <1>1 DEF HierarchyTypes
    <2>3. e[2] \in Hierarchy!Hosts(s, e[1])
      BY <2>1, <2>2 DEF Hierarchy!Hosts
    <2> QED
      BY <2>1, <2>3
  <1> QED
    BY <1>3, <1>4, <1>5, <1>6

-----------------------------------------------------------------------------
(* The delay plan.                                                            *)

(* What the k-th operand of i is given when i is lowered in u[1] with u[2]    *)
(* samples between it and a read above it.                                    *)
Given(i, k, u) ==
    <<Plan!RegionOf(i, u[1]), IF Plan!Carries(i, k) THEN u[2] + Plan!DelayOf(i, k) ELSE 0>>

CallsOfPlan == PlanNodes \X Nat \X Plan!Contexts

\* a visit of i in c with a has been made, or a longer one, or is to come
Met(i, c, a) ==
    \/ <<i, c>> \in DOMAIN best /\ best[<<i, c>>] >= a
    \/ \E v \in OpenCalls(visits) : v[1] = i /\ v[3] = c /\ v[2] >= a

PlanTypes ==
    /\ graph \in SignalGraphs /\ outcome \in {"planning", "planned", "refused"}
    /\ visits \in Seq(CallsOfPlan)
    /\ DOMAIN best \subseteq PlanNodes \X Plan!Contexts
    /\ \A k \in DOMAIN best : best[k] \in Nat
    /\ lines = [k \in DOMAIN lines |-> lines[k]] /\ DOMAIN lines \subseteq PlanNodes \X Plan!Contexts
    /\ \A k \in DOMAIN lines : lines[k] \in Nat \ {0}
    /\ outputs = [k \in DOMAIN outputs |-> outputs[k]]
    /\ \A k \in DOMAIN outputs : outputs[k] \in Nat \ {0}

(* Nothing is visited or recorded that no path leads to.                      *)
VisitsAreOfPaths ==
    /\ \A v \in OpenCalls(visits) : <<v[3], v[2]>> \in Plan!Occurrences[v[1]]
    /\ \A k \in DOMAIN best : <<k[2], best[k]>> \in Plan!Occurrences[k[1]]
    /\ outcome = "refused" => Plan!Unbounded

(* The memo is closed under what its nodes ask for, up to visits to come.     *)
MemoIsClosed ==
    /\ outcome # "refused" =>
          /\ Met(1, NoContext, 0)
          /\ \A b \in DOMAIN best :
                /\ ~ Plan!Fails(b[1])
                /\ \A k \in DOMAIN graph[b[1]].kids :
                      LET g == Given(b[1], k, <<b[2], best[b]>>) IN Met(Plan!Kid(b[1], k), g[1], g[2])
    /\ outcome = "planned" => visits = <<>>

(* Carriers and lines are those of the visits recorded.                       *)
OutputsInv ==
    /\ \A k \in DOMAIN outputs : \E i \in PlanNodes, c \in Plan!Contexts :
          /\ Plan!Projection(i) /\ k = <<graph[i].at, c>>
          /\ <<c, outputs[k]>> \in Plan!Occurrences[i]
    /\ \A b \in DOMAIN best :
          best[b] > 0 /\ Plan!Projection(b[1]) =>
              /\ <<graph[b[1]].at, b[2]>> \in DOMAIN outputs
              /\ outputs[<<graph[b[1]].at, b[2]>>] >= best[b]

PlannedLines ==
    /\ \A k \in DOMAIN lines : \E i \in PlanNodes :
          /\ Plan!Owned(i) /\ Plan!Kid(i, 1) = k[1] /\ lines[k] = Plan!LengthOf(i)
          /\ k[2] \in Plan!LoweredIn(i)
    /\ \A b \in DOMAIN best :
          Plan!Owned(b[1]) =>
              /\ <<Plan!Kid(b[1], 1), b[2]>> \in DOMAIN lines
              /\ lines[<<Plan!Kid(b[1], 1), b[2]>>] >= Plan!LengthOf(b[1])

PlanInv == PlanTypes /\ VisitsAreOfPaths /\ MemoIsClosed /\ OutputsInv /\ PlannedLines

(***************************************************************************)
(* A recursive function has the meaning it is written with when what it is *)
(* at a place rests on places of lower rank.  step[i][f] is the defining   *)
(* expression at i, of the function f.                                     *)
(***************************************************************************)
RestsOnLower(D, V, rank, top, step) ==
    /\ V # {}
    /\ rank \in [D -> Nat] /\ top \in Nat /\ \A i \in D : rank[i] <= top
    /\ step \in [D -> [[D -> V] -> V]]
    /\ \A i \in D : \A f, g \in [D -> V] :
           (\A j \in D : rank[j] < rank[i] => f[j] = g[j]) => step[i][f] = step[i][g]

LEMMA RecursionUnfolds ==
  ASSUME NEW D, NEW V, NEW rank, NEW top, NEW step,
         RestsOnLower(D, V, rank, top, step)
  PROVE  \E f \in [D -> V] : \A i \in D : f[i] = step[i][f]
  <1> USE DEF RestsOnLower
  <1> DEFINE Below(n) == \E f \in [D -> V] : \A i \in D : rank[i] < n => f[i] = step[i][f]
             U == {n \in Nat : ~ Below(n)}
  <1>1. U = {}
    <2> SUFFICES ASSUME U # {} PROVE FALSE
      OBVIOUS
    <2>1. PICK m \in U : \A n \in U : m <= n
      <3> HIDE DEF Below
      <3>1. U \in SUBSET Nat
        OBVIOUS
      <3> HIDE DEF U
      <3> QED
        BY <3>1, LeastNatural
    <2>2. m # 0
      <3>0. PICK v \in V : TRUE
        OBVIOUS
      <3>1. [i \in D |-> v] \in [D -> V] /\ \A i \in D : ~ (rank[i] < 0)
        OBVIOUS
      <3>2. Below(0)
        BY <3>1
      <3> QED
        BY <2>1, <3>2
    <2>3. m \in Nat /\ m - 1 \in Nat /\ m - 1 \notin U /\ m \notin {n \in Nat : Below(n)}
      <3> HIDE DEF Below
      <3> QED
        BY <2>1, <2>2
    <2>4. PICK f \in [D -> V] : \A i \in D : rank[i] < m - 1 => f[i] = step[i][f]
      BY <2>3
    <2> DEFINE g == [i \in D |-> IF rank[i] < m - 1 THEN f[i] ELSE step[i][f]]
    <2>5. g \in [D -> V]
      OBVIOUS
    <2>6. \A i \in D : g[i] = step[i][f]
      BY <2>4
    <2>7. \A i \in D : rank[i] < m - 1 => g[i] = f[i]
      OBVIOUS
    <2> HIDE DEF g
    <2>8. ASSUME NEW i \in D, rank[i] < m
          PROVE  g[i] = step[i][g]
      <3>1. \A j \in D : rank[j] < rank[i] => g[j] = f[j]
        BY <2>3, <2>7, <2>8
      <3>2. step[i][g] = step[i][f]
        BY <2>5, <3>1
      <3> QED
        BY <2>6, <3>2
    <2>9. Below(m)
      BY <2>5, <2>8
    <2> HIDE DEF Below
    <2> QED
      BY <2>3, <2>9
  <1>2. Below(top + 1)
    <2> HIDE DEF Below
    <2> QED
      BY <1>1
  <1>3. \A i \in D : rank[i] < top + 1
    OBVIOUS
  <1> QED
    BY <1>2, <1>3

LEMMA GraphShape ==
  ASSUME graph \in SignalGraphs
  PROVE  /\ 1 \in PlanNodes /\ PlanNodes \in SUBSET Nat /\ IsFiniteSet(PlanNodes)
         /\ PlanCopyDelay \in Nat /\ NoContext \notin DOMAIN ParentContext
         /\ NoContext \in Plan!Contexts /\ DOMAIN ParentContext \subseteq Plan!Contexts
         /\ \A d \in DOMAIN ParentContext : ParentContext[d] \in Plan!Contexts
         /\ \A i \in PlanNodes :
               /\ graph[i].op \in Plan!Operations
               /\ graph[i].kids \in Seq({j \in PlanNodes : j > i})
               /\ \A k \in DOMAIN graph[i].kids : Plan!Kid(i, k) \in PlanNodes /\ Plan!Kid(i, k) > i
               /\ graph[i].op \in {"delay", "prefix"} => DOMAIN graph[i].kids = {1, 2}
               /\ graph[i].op \in {"delay1", "clocked", "tempvar"} => DOMAIN graph[i].kids = {1}
               /\ graph[i].op = "delay" => graph[i].at \in Nat \cup {-1}
               /\ graph[i].op = "clocked" => graph[i].at \in DOMAIN ParentContext
  <1>1. Plan!ProgramsAssumption
    BY LoweringAssumption
  <1>2. ASSUME NEW i \in PlanNodes
        PROVE  /\ graph[i].op \in Plan!Operations
               /\ graph[i].kids \in Seq({j \in PlanNodes : j > i})
               /\ \A k \in DOMAIN graph[i].kids : Plan!Kid(i, k) \in PlanNodes /\ Plan!Kid(i, k) > i
               /\ graph[i].op \in {"delay", "prefix"} => DOMAIN graph[i].kids = {1, 2}
               /\ graph[i].op \in {"delay1", "clocked", "tempvar"} => DOMAIN graph[i].kids = {1}
               /\ graph[i].op = "delay" => graph[i].at \in Nat \cup {-1}
               /\ graph[i].op = "clocked" => graph[i].at \in DOMAIN ParentContext
    <2>1. /\ graph[i].op \in Plan!Operations
          /\ graph[i].kids \in Seq({j \in PlanNodes : j > i})
          /\ graph[i].op \in {"delay", "prefix"} => Len(graph[i].kids) = 2
          /\ graph[i].op \in {"delay1", "clocked", "tempvar"} => Len(graph[i].kids) = 1
          /\ graph[i].op = "delay" => graph[i].at \in Nat \cup {-1}
          /\ graph[i].op = "clocked" => graph[i].at \in DOMAIN ParentContext
      BY <1>1, <1>2 DEF Plan!ProgramsAssumption
    <2>2. DOMAIN graph[i].kids = 1 .. Len(graph[i].kids)
      BY <2>1
    <2>3. \A k \in DOMAIN graph[i].kids : Plan!Kid(i, k) \in {j \in PlanNodes : j > i}
      <3> SUFFICES ASSUME NEW k \in DOMAIN graph[i].kids
                   PROVE  graph[i].kids[k] \in {j \in PlanNodes : j > i}
        BY DEF Plan!Kid
      <3> QED
        BY <2>1, <2>2, ElementOfSeq
    <2>4. 1 .. 2 = {1, 2} /\ 1 .. 1 = {1}
      OBVIOUS
    <2> QED
      BY <2>1, <2>2, <2>3, <2>4
  <1>3. /\ 1 \in PlanNodes /\ PlanNodes \in SUBSET Nat /\ IsFiniteSet(PlanNodes)
        /\ PlanCopyDelay \in Nat /\ NoContext \notin DOMAIN ParentContext
        /\ \A d \in DOMAIN ParentContext : ParentContext[d] \in Plan!Contexts
    BY <1>1 DEF Plan!ProgramsAssumption, Plan!IsFiniteSet, IsFiniteSet
  <1>4. NoContext \in Plan!Contexts /\ DOMAIN ParentContext \subseteq Plan!Contexts
    BY DEF Plan!Contexts
  <1> QED
    BY <1>2, <1>3, <1>4

(* What is known of the occurrences of a node: they are those its users give  *)
(* it, and that of the root.                                                  *)
OccurrenceOf(j, f) ==
    (IF j = 1 THEN {<<NoContext, 0>>} ELSE {}) \cup
    UNION {UNION {{<<Plan!RegionOf(i, u[1]), IF Plan!Carries(i, k) THEN u[2] + Plan!DelayOf(i, k) ELSE 0>> :
                      u \in f[i]} :
                  k \in {n \in DOMAIN graph[i].kids : Plan!Kid(i, n) = j}} :
           i \in {n \in PlanNodes : n < j}}

LEMMA OccurrenceIs ==
  ASSUME NEW j, NEW f, NEW x
  PROVE  x \in OccurrenceOf(j, f) <=>
             \/ j = 1 /\ x = <<NoContext, 0>>
             \/ \E i \in PlanNodes : \E k \in DOMAIN graph[i].kids : \E u \in f[i] :
                   i < j /\ Plan!Kid(i, k) = j /\ x = Given(i, k, u)
  <1> DEFINE A(i, k) == {Given(i, k, u) : u \in f[i]}
             B(i) == UNION {A(i, k) : k \in {n \in DOMAIN graph[i].kids : Plan!Kid(i, n) = j}}
  <1>1. OccurrenceOf(j, f) = (IF j = 1 THEN {<<NoContext, 0>>} ELSE {}) \cup
                             UNION {B(i) : i \in {n \in PlanNodes : n < j}}
    BY Zenon DEF OccurrenceOf, Given
  <1>2. \A i : x \in B(i) <=> \E k \in DOMAIN graph[i].kids : Plan!Kid(i, k) = j /\ x \in A(i, k)
    <2> HIDE DEF A
    <2> QED
      OBVIOUS
  <1>3. \A i, k : x \in A(i, k) <=> \E u \in f[i] : x = Given(i, k, u)
    OBVIOUS
  <1> HIDE DEF A, B
  <1>4. x \in OccurrenceOf(j, f) <=> \/ j = 1 /\ x = <<NoContext, 0>>
                                     \/ \E i \in PlanNodes : i < j /\ x \in B(i)
    BY <1>1
  <1>5. \A i : x \in B(i) <=> \E k \in DOMAIN graph[i].kids : \E u \in f[i] :
                                 Plan!Kid(i, k) = j /\ x = Given(i, k, u)
    BY <1>2, <1>3, Zenon
  <1> QED
    BY <1>4, <1>5, Zenon

LEMMA GivenIs ==
  ASSUME graph \in SignalGraphs, NEW i \in PlanNodes, NEW k \in DOMAIN graph[i].kids,
         NEW c \in Plan!Contexts, NEW a \in Int
  PROVE  /\ Plan!RegionOf(i, c) \in Plan!Contexts
         /\ Plan!DelayOf(i, k) \in Nat \cup {-1}
         /\ ~ Plan!Fails(i) => Plan!DelayOf(i, k) \in Nat
         /\ Plan!Carries(i, k) \in BOOLEAN
         /\ Given(i, k, <<c, a>>) =
                <<Plan!RegionOf(i, c), IF Plan!Carries(i, k) THEN a + Plan!DelayOf(i, k) ELSE 0>>
         /\ Given(i, k, <<c, a>>) \in Plan!Contexts \X Int
  <1>1. /\ graph[i].op \in Plan!Operations
        /\ graph[i].op = "delay" => graph[i].at \in Nat \cup {-1}
        /\ graph[i].op = "clocked" => graph[i].at \in DOMAIN ParentContext
    BY GraphShape
  <1>2. Plan!RegionOf(i, c) \in Plan!Contexts
    <2>1. Plan!OuterOf(c) \in Plan!Contexts
      BY GraphShape DEF Plan!OuterOf, Plan!Contexts
    <2>2. graph[i].op = "clocked" => graph[i].at \in Plan!Contexts
      BY <1>1, GraphShape
    <2>3. \/ graph[i].op = "clocked" /\ Plan!RegionOf(i, c) = graph[i].at
          \/ graph[i].op = "tempvar" /\ Plan!RegionOf(i, c) = Plan!OuterOf(c)
          \/ Plan!RegionOf(i, c) = c
      BY DEF Plan!RegionOf
    <2> QED
      BY <2>1, <2>2, <2>3
  <1>3. /\ Plan!DelayOf(i, k) \in Nat \cup {-1}
        /\ ~ Plan!Fails(i) => Plan!DelayOf(i, k) \in Nat
    BY <1>1 DEF Plan!DelayOf, Plan!Fails
  <1>4. Plan!Carries(i, k) \in BOOLEAN
    BY DEF Plan!Carries
  <1> QED
    BY <1>2, <1>3, <1>4 DEF Given

LEMMA OccurrencesUnfold ==
  ASSUME graph \in SignalGraphs
  PROVE  Plan!Occurrences = [j \in PlanNodes |-> OccurrenceOf(j, Plan!Occurrences)]
  <1> DEFINE V == SUBSET (Plan!Contexts \X Int)
             rank == [j \in PlanNodes |-> j]
             step == [j \in PlanNodes |-> [f \in [PlanNodes -> V] |-> OccurrenceOf(j, f)]]
  <1>1. \A j \in PlanNodes : \A f \in [PlanNodes -> V] : OccurrenceOf(j, f) \in V
    <2> SUFFICES ASSUME NEW j \in PlanNodes, NEW f \in [PlanNodes -> V], NEW x \in OccurrenceOf(j, f)
                 PROVE  x \in Plan!Contexts \X Int
      OBVIOUS
    <2>1. CASE j = 1 /\ x = <<NoContext, 0>>
      BY <2>1, GraphShape
    <2>2. CASE \E i \in PlanNodes : \E k \in DOMAIN graph[i].kids : \E u \in f[i] :
                   i < j /\ Plan!Kid(i, k) = j /\ x = Given(i, k, u)
      <3>0. PICK i \in PlanNodes : \E k \in DOMAIN graph[i].kids : \E u \in f[i] : x = Given(i, k, u)
        BY <2>2
      <3>1. PICK k \in DOMAIN graph[i].kids, u \in f[i] : x = Given(i, k, u)
        BY <3>0
      <3>2. u \in Plan!Contexts \X Int
        OBVIOUS
      <3>3. PICK c \in Plan!Contexts, a \in Int : u = <<c, a>>
        BY <3>2
      <3> QED
        BY <3>1, <3>3, GivenIs
    <2> QED
      BY <2>1, <2>2, OccurrenceIs
  <1>2. \A j \in PlanNodes : \A f, g \in [PlanNodes -> V] :
            (\A i \in PlanNodes : i < j => f[i] = g[i]) => OccurrenceOf(j, f) = OccurrenceOf(j, g)
    <2>1. ASSUME NEW j \in PlanNodes, NEW f, NEW g, \A i \in PlanNodes : i < j => f[i] = g[i],
                 NEW x \in OccurrenceOf(j, f)
          PROVE  x \in OccurrenceOf(j, g)
      <3>1. CASE j = 1 /\ x = <<NoContext, 0>>
        BY <3>1, OccurrenceIs
      <3>2. CASE \E i \in PlanNodes : \E k \in DOMAIN graph[i].kids : \E u \in f[i] :
                     i < j /\ Plan!Kid(i, k) = j /\ x = Given(i, k, u)
        <4>1. PICK i \in PlanNodes : \E k \in DOMAIN graph[i].kids : \E u \in f[i] :
                     i < j /\ Plan!Kid(i, k) = j /\ x = Given(i, k, u)
          BY <3>2
        <4>2. f[i] = g[i]
          BY <2>1, <4>1
        <4>3. \E k \in DOMAIN graph[i].kids : \E u \in g[i] :
                     i < j /\ Plan!Kid(i, k) = j /\ x = Given(i, k, u)
          BY <4>1, <4>2
        <4> QED
          BY <4>3, OccurrenceIs, Zenon
      <3> QED
        BY <2>1, <3>1, <3>2, OccurrenceIs
    <2> SUFFICES ASSUME NEW j \in PlanNodes, NEW f \in [PlanNodes -> V], NEW g \in [PlanNodes -> V],
                        \A i \in PlanNodes : i < j => f[i] = g[i]
                 PROVE  OccurrenceOf(j, f) = OccurrenceOf(j, g)
      BY Zenon
    <2>2. \A x : x \in OccurrenceOf(j, f) => x \in OccurrenceOf(j, g)
      BY <2>1
    <2>3. \A x : x \in OccurrenceOf(j, g) => x \in OccurrenceOf(j, f)
      BY <2>1
    <2>4. OccurrenceOf(j, f) \in V /\ OccurrenceOf(j, g) \in V
      BY <1>1
    <2> QED
      BY <2>2, <2>3, <2>4
  <1>3. PICK top \in Nat : \A j \in PlanNodes : j <= top
    BY GraphShape, Bounded
  <1>4. \E f \in [PlanNodes -> V] : \A j \in PlanNodes : f[j] = step[j][f]
    <2>1. rank \in [PlanNodes -> Nat] /\ {} \in V
      BY GraphShape
    <2>2. step \in [PlanNodes -> [[PlanNodes -> V] -> V]]
      BY <1>1
    <2>3. \A i \in PlanNodes : rank[i] <= top
      BY <1>3
    <2>4. \A i \in PlanNodes : \A f, g \in [PlanNodes -> V] :
              (\A j \in PlanNodes : rank[j] < rank[i] => f[j] = g[j]) => step[i][f] = step[i][g]
      BY <1>2
    <2> HIDE DEF rank, step, V
    <2> QED
      <3>1. RestsOnLower(PlanNodes, V, rank, top, step)
        BY <1>3, <2>1, <2>2, <2>3, <2>4 DEF RestsOnLower
      <3> QED
        BY ONLY <3>1, RecursionUnfolds
  <1>5. PICK f \in [PlanNodes -> V] : \A j \in PlanNodes : f[j] = OccurrenceOf(j, f)
    BY <1>4
  <1>6. f = [j \in PlanNodes |-> OccurrenceOf(j, f)]
    BY <1>5
  <1>7. \E F : F = [j \in PlanNodes |-> OccurrenceOf(j, F)]
    BY <1>6
  <1>8. Plan!Occurrences = CHOOSE F : F = [j \in PlanNodes |-> OccurrenceOf(j, F)]
    BY Zenon DEF Plan!Occurrences, OccurrenceOf
  <1> QED
    BY <1>7, <1>8, Zenon

LEMMA OccurrenceRule ==
  ASSUME graph \in SignalGraphs, NEW j \in PlanNodes, NEW x
  PROVE  x \in Plan!Occurrences[j] <=>
             \/ j = 1 /\ x = <<NoContext, 0>>
             \/ \E i \in PlanNodes : \E k \in DOMAIN graph[i].kids : \E u \in Plan!Occurrences[i] :
                   i < j /\ Plan!Kid(i, k) = j /\ x = Given(i, k, u)
  <1>1. Plan!Occurrences[j] = OccurrenceOf(j, Plan!Occurrences)
    <2> DEFINE F == Plan!Occurrences
    <2>1. F = [n \in PlanNodes |-> OccurrenceOf(n, F)]
      BY OccurrencesUnfold
    <2> HIDE DEF F
    <2>2. F[j] = OccurrenceOf(j, F)
      BY <2>1
    <2> QED
      BY <2>2 DEF F
  <1> QED
    BY <1>1, OccurrenceIs

(* Chains end further down.                                                   *)
Chains == [end : PlanNodes, implicit : Nat, domain : Plan!Contexts]

ChainOf(i, f) ==
    IF graph[i].op \notin {"delay1", "clocked"}
    THEN [end |-> i, implicit |-> 0, domain |-> NoContext]
    ELSE LET rest == f[Plan!Kid(i, 1)] IN
         [end |-> rest.end,
          implicit |-> rest.implicit + IF graph[i].op = "delay1" THEN 1 ELSE 0,
          domain |-> IF graph[i].op = "clocked" /\ rest.domain = NoContext
                     THEN graph[i].at ELSE rest.domain]

InChain(i) == graph[i].op \in {"delay1", "clocked"}

LEMMA ChainEnds ==
  ASSUME NEW i, NEW f, ~ InChain(i)
  PROVE  ChainOf(i, f) = [end |-> i, implicit |-> 0, domain |-> NoContext]
  BY DEF ChainOf, InChain

LEMMA ChainGoesOn ==
  ASSUME NEW i, NEW f, InChain(i)
  PROVE  ChainOf(i, f) =
             [end |-> f[Plan!Kid(i, 1)].end,
              implicit |-> f[Plan!Kid(i, 1)].implicit + IF graph[i].op = "delay1" THEN 1 ELSE 0,
              domain |-> IF graph[i].op = "clocked" /\ f[Plan!Kid(i, 1)].domain = NoContext
                         THEN graph[i].at ELSE f[Plan!Kid(i, 1)].domain]
  BY DEF ChainOf, InChain

LEMMA ChainTyped ==
  ASSUME graph \in SignalGraphs, NEW i \in PlanNodes, NEW f,
         InChain(i) => f[Plan!Kid(i, 1)] \in Chains
  PROVE  ChainOf(i, f) \in Chains
  <1>1. CASE ~ InChain(i)
    BY <1>1, ChainEnds, GraphShape DEF Chains
  <1>2. CASE InChain(i)
    <2> DEFINE r == f[Plan!Kid(i, 1)]
    <2>1. r \in Chains
      BY <1>2
    <2>2. graph[i].op = "clocked" => graph[i].at \in Plan!Contexts
      BY GraphShape
    <2>3. ChainOf(i, f) = [end |-> r.end,
              implicit |-> r.implicit + IF graph[i].op = "delay1" THEN 1 ELSE 0,
              domain |-> IF graph[i].op = "clocked" /\ r.domain = NoContext
                         THEN graph[i].at ELSE r.domain]
      BY <1>2, ChainGoesOn
    <2> HIDE DEF r
    <2> QED
      BY <2>1, <2>2, <2>3 DEF Chains
  <1> QED
    BY <1>1, <1>2

LEMMA KidOfChain ==
  ASSUME graph \in SignalGraphs, NEW i \in PlanNodes, InChain(i)
  PROVE  1 \in DOMAIN graph[i].kids /\ Plan!Kid(i, 1) \in PlanNodes /\ Plan!Kid(i, 1) > i
  <1>1. DOMAIN graph[i].kids = {1}
    BY GraphShape DEF InChain
  <1> QED
    BY <1>1, GraphShape

LEMMA ChainUnfolds ==
  ASSUME graph \in SignalGraphs
  PROVE  Plan!Chain = [i \in PlanNodes |-> ChainOf(i, Plan!Chain)]
  <1>1. PICK top \in Nat : \A j \in PlanNodes : j <= top
    BY GraphShape, Bounded
  <1> DEFINE rank == [i \in PlanNodes |-> top - i]
             step == [i \in PlanNodes |-> [f \in [PlanNodes -> Chains] |-> ChainOf(i, f)]]
  <1>2. \A i \in PlanNodes : \A f \in [PlanNodes -> Chains] : ChainOf(i, f) \in Chains
    <2> SUFFICES ASSUME NEW i \in PlanNodes, NEW f \in [PlanNodes -> Chains]
                 PROVE  InChain(i) => f[Plan!Kid(i, 1)] \in Chains
      BY ChainTyped
    <2> QED
      BY KidOfChain
  <1>3. \A i \in PlanNodes : \A f, g \in [PlanNodes -> Chains] :
            (\A j \in PlanNodes : j > i => f[j] = g[j]) => ChainOf(i, f) = ChainOf(i, g)
    <2> SUFFICES ASSUME NEW i \in PlanNodes, NEW f, NEW g, \A j \in PlanNodes : j > i => f[j] = g[j]
                 PROVE  ChainOf(i, f) = ChainOf(i, g)
      BY Zenon
    <2>1. CASE ~ InChain(i)
      BY <2>1, ChainEnds
    <2>2. CASE InChain(i)
      <3>1. f[Plan!Kid(i, 1)] = g[Plan!Kid(i, 1)]
        BY <2>2, KidOfChain
      <3> QED
        BY <2>2, <3>1, ChainGoesOn
    <2> QED
      BY <2>1, <2>2
  <1>4. \E f \in [PlanNodes -> Chains] : \A i \in PlanNodes : f[i] = step[i][f]
    <2>1. rank \in [PlanNodes -> Nat] /\ \A i \in PlanNodes : rank[i] <= top
      BY <1>1, GraphShape
    <2>2. step \in [PlanNodes -> [[PlanNodes -> Chains] -> Chains]]
      BY <1>2
    <2>3. \A i \in PlanNodes : \A f, g \in [PlanNodes -> Chains] :
              (\A j \in PlanNodes : rank[j] < rank[i] => f[j] = g[j]) => step[i][f] = step[i][g]
      <3>1. \A i, j \in PlanNodes : rank[j] < rank[i] <=> j > i
        BY <1>1, GraphShape
      <3> QED
        BY <1>3, <3>1
    <2>4. Chains # {}
      <3>1. [end |-> 1, implicit |-> 0, domain |-> NoContext] \in Chains
        BY GraphShape DEF Chains
      <3> QED
        BY <3>1
    <2> HIDE DEF rank, step
    <2>5. RestsOnLower(PlanNodes, Chains, rank, top, step)
      BY <1>1, <2>1, <2>2, <2>3, <2>4 DEF RestsOnLower
    <2> QED
      BY ONLY <2>5, RecursionUnfolds
  <1>5. PICK f \in [PlanNodes -> Chains] : \A i \in PlanNodes : f[i] = ChainOf(i, f)
    BY <1>4
  <1>6. f = [i \in PlanNodes |-> ChainOf(i, f)]
    BY <1>5
  <1>7. \E F : F = [i \in PlanNodes |-> ChainOf(i, F)]
    BY <1>6
  <1>8. Plan!Chain = CHOOSE F : F = [i \in PlanNodes |-> ChainOf(i, F)]
    BY Zenon DEF Plan!Chain, ChainOf
  <1> QED
    BY <1>7, <1>8, Zenon

LEMMA ChainRule ==
  ASSUME graph \in SignalGraphs, NEW i \in PlanNodes
  PROVE  /\ Plan!Chain[i] \in Chains
         /\ Plan!Chain[i] = ChainOf(i, Plan!Chain)
  <1> DEFINE F == Plan!Chain
             B == {j \in PlanNodes : ~ (F[j] \in Chains)}
  <1>1. \A j \in PlanNodes : F[j] = ChainOf(j, F)
    <2>1. F = [j \in PlanNodes |-> ChainOf(j, F)]
      BY ChainUnfolds
    <2> HIDE DEF F
    <2> QED
      BY <2>1
  <1> HIDE DEF F
  <1>2. B = {}
    <2> SUFFICES ASSUME B # {} PROVE FALSE
      OBVIOUS
    <2>1. PICK m \in B : \A j \in B : m >= j
      <3>1. B \in SUBSET Nat /\ B # {} /\ IsFiniteSet(B)
        BY GraphShape, FS_Subset
      <3> HIDE DEF B
      <3> QED
        BY <3>1, Maximum
    <2>2. m \in PlanNodes /\ m \in Nat
      BY <2>1, GraphShape
    <2>3. InChain(m) => F[Plan!Kid(m, 1)] \in Chains
      <3> SUFFICES ASSUME InChain(m), Plan!Kid(m, 1) \in B PROVE FALSE
        BY <2>2, KidOfChain
      <3>1. Plan!Kid(m, 1) > m /\ m >= Plan!Kid(m, 1) /\ Plan!Kid(m, 1) \in Nat
        BY <2>1, <2>2, KidOfChain, GraphShape
      <3> QED
        BY <2>2, <3>1
    <2>4. ChainOf(m, F) \in Chains
      BY <2>2, <2>3, ChainTyped
    <2> QED
      BY <1>1, <2>1, <2>2, <2>4
  <1>3. F[i] \in Chains /\ F[i] = ChainOf(i, F)
    BY <1>1, <1>2
  <1> QED
    BY <1>3 DEF F

LEMMA CallsJoined ==
  ASSUME NEW R, NEW s \in Seq(R), NEW t \in Seq(R)
  PROVE  s \o t \in Seq(R) /\ OpenCalls(s \o t) = OpenCalls(s) \cup OpenCalls(t)
  <1> DEFINE u == s \o t
  <1>1. /\ u \in Seq(R) /\ Len(u) = Len(s) + Len(t)
        /\ \A i \in 1 .. Len(s) : u[i] = s[i]
        /\ \A i \in 1 .. Len(t) : u[i + Len(s)] = t[i]
    OBVIOUS
  <1> HIDE DEF u
  <1>2. Len(s) \in Nat /\ Len(t) \in Nat
    OBVIOUS
  <1>3. \A i \in 1 .. Len(u) : \/ i \in 1 .. Len(s)
                               \/ i - Len(s) \in 1 .. Len(t) /\ (i - Len(s)) + Len(s) = i
    BY <1>1, <1>2
  <1>4. /\ \A i \in 1 .. Len(s) : i \in 1 .. Len(u)
        /\ \A i \in 1 .. Len(t) : i + Len(s) \in 1 .. Len(u)
    BY <1>1, <1>2
  <1>5. ASSUME NEW y \in OpenCalls(u)
        PROVE  y \in OpenCalls(s) \cup OpenCalls(t)
    <2>1. PICK i \in 1 .. Len(u) : y = u[i]
      BY DEF OpenCalls
    <2>2. CASE i \in 1 .. Len(s)
      BY <1>1, <2>1, <2>2 DEF OpenCalls
    <2>3. CASE i - Len(s) \in 1 .. Len(t) /\ (i - Len(s)) + Len(s) = i
      <3>1. t[i - Len(s)] = u[i]
        BY <1>1, <2>3
      <3> QED
        BY <2>1, <2>3, <3>1 DEF OpenCalls
    <2> QED
      BY <1>3, <2>2, <2>3
  <1>6. \A y \in OpenCalls(s) : y \in OpenCalls(u)
    <2>1. \A i \in 1 .. Len(s) : s[i] \in OpenCalls(u)
      BY <1>1, <1>4 DEF OpenCalls
    <2> QED
      BY <2>1 DEF OpenCalls
  <1>7. \A y \in OpenCalls(t) : y \in OpenCalls(u)
    <2>1. \A i \in 1 .. Len(t) : t[i] \in OpenCalls(u)
      BY <1>1, <1>4 DEF OpenCalls
    <2> QED
      BY <2>1 DEF OpenCalls
  <1> QED
    BY <1>1, <1>5, <1>6, <1>7 DEF u

(* The visit the k-th operand asks for.                                       *)
CallFor(i, k, u) == <<Plan!Kid(i, k), Given(i, k, u)[2], Given(i, k, u)[1]>>

LEMMA CallsAre ==
  ASSUME graph \in SignalGraphs, NEW i \in PlanNodes, NEW acc \in Nat, NEW c \in Plan!Contexts,
         ~ Plan!Fails(i)
  PROVE  /\ Plan!Calls(i, acc, c) \in Seq(CallsOfPlan)
         /\ OpenCalls(Plan!Calls(i, acc, c)) =
                {CallFor(i, k, <<c, acc>>) : k \in DOMAIN graph[i].kids}
  <1> DEFINE s == Plan!Calls(i, acc, c)
             F(k) == CallFor(i, k, <<c, acc>>)
  <1>1. \A k \in DOMAIN graph[i].kids : F(k) \in CallsOfPlan
    <2> SUFFICES ASSUME NEW k \in DOMAIN graph[i].kids PROVE F(k) \in CallsOfPlan
      OBVIOUS
    <2>1. Plan!Kid(i, k) \in PlanNodes
      BY GraphShape
    <2>2. /\ Given(i, k, <<c, acc>>) =
               <<Plan!RegionOf(i, c), IF Plan!Carries(i, k) THEN acc + Plan!DelayOf(i, k) ELSE 0>>
          /\ Plan!RegionOf(i, c) \in Plan!Contexts /\ Plan!DelayOf(i, k) \in Nat
      BY GivenIs
    <2> QED
      BY <2>1, <2>2 DEF CallFor, CallsOfPlan
  <1>2. \A k : F(k) = <<Plan!Kid(i, k), IF Plan!Carries(i, k) THEN acc + Plan!DelayOf(i, k) ELSE 0,
                        Plan!RegionOf(i, c)>>
    BY DEF CallFor, Given
  <1> DEFINE op == graph[i].op
  <1>3. CASE op = "delay"
    <2>1. s = <<F(1), F(2)>>
      <3>1. s = <<<<Plan!Kid(i, 1), acc + graph[i].at, c>>, <<Plan!Kid(i, 2), 0, c>>>>
        BY <1>3 DEF Plan!Calls
      <3>2. F(1) = <<Plan!Kid(i, 1), acc + graph[i].at, c>>
        BY <1>2, <1>3 DEF Plan!Carries, Plan!DelayOf, Plan!RegionOf
      <3>3. F(2) = <<Plan!Kid(i, 2), 0, c>>
        BY <1>2, <1>3 DEF Plan!Carries, Plan!DelayOf, Plan!RegionOf
      <3> QED
        BY <3>1, <3>2, <3>3
    <2>2. DOMAIN graph[i].kids = {1, 2}
      BY <1>3, GraphShape
    <2> QED
      BY <1>1, <2>1, <2>2 DEF OpenCalls
  <1>4. CASE op = "prefix"
    <2>1. s = <<F(2), F(1)>>
      <3>1. s = <<<<Plan!Kid(i, 2), acc + 1, c>>, <<Plan!Kid(i, 1), 0, c>>>>
        BY <1>4 DEF Plan!Calls
      <3>2. F(1) = <<Plan!Kid(i, 1), 0, c>>
        BY <1>2, <1>4 DEF Plan!Carries, Plan!DelayOf, Plan!RegionOf
      <3>3. F(2) = <<Plan!Kid(i, 2), acc + 1, c>>
        BY <1>2, <1>4 DEF Plan!Carries, Plan!DelayOf, Plan!RegionOf
      <3> QED
        BY <3>1, <3>2, <3>3
    <2>2. DOMAIN graph[i].kids = {1, 2}
      BY <1>4, GraphShape
    <2> QED
      BY <1>1, <2>1, <2>2 DEF OpenCalls
  <1>5. CASE op \in {"delay1", "clocked", "tempvar"}
    <2>1. s = <<F(1)>>
      <3>1. CASE op = "delay1"
        BY <1>2, <3>1 DEF Plan!Calls, Plan!Carries, Plan!DelayOf, Plan!RegionOf
      <3>2. CASE op = "clocked"
        BY <1>2, <3>2 DEF Plan!Calls, Plan!Carries, Plan!DelayOf, Plan!RegionOf
      <3>3. CASE op = "tempvar"
        BY <1>2, <3>3 DEF Plan!Calls, Plan!Carries, Plan!DelayOf, Plan!RegionOf
      <3> QED
        BY <1>5, <3>1, <3>2, <3>3
    <2>2. DOMAIN graph[i].kids = {1}
      BY <1>5, GraphShape
    <2> QED
      BY <1>1, <2>1, <2>2 DEF OpenCalls
  <1>6. CASE op \notin {"delay", "prefix", "delay1", "clocked", "tempvar"}
    <2>1. s = [k \in DOMAIN graph[i].kids |-> <<Plan!Kid(i, k), 0, c>>]
      BY <1>6 DEF Plan!Calls
    <2>2. \A k \in DOMAIN graph[i].kids : F(k) = <<Plan!Kid(i, k), 0, c>>
      BY <1>2, <1>6 DEF Plan!Carries, Plan!DelayOf, Plan!RegionOf
    <2>3. s = [k \in DOMAIN graph[i].kids |-> F(k)]
      BY <2>1, <2>2
    <2>4. DOMAIN graph[i].kids = 1 .. Len(graph[i].kids) /\ Len(graph[i].kids) \in Nat
      BY GraphShape
    <2> HIDE DEF F, s
    <2>5. PICK n \in Nat : DOMAIN graph[i].kids = 1 .. n
      BY <2>4
    <2>6. s \in [1 .. n -> CallsOfPlan] /\ \A k \in 1 .. n : s[k] = F(k)
      BY <1>1, <2>3, <2>5
    <2>7. s \in Seq(CallsOfPlan) /\ Len(s) = n
      BY <2>6
    <2>8. OpenCalls(s) = {F(k) : k \in DOMAIN graph[i].kids}
      BY <2>5, <2>6, <2>7 DEF OpenCalls
    <2> QED
      BY <2>7, <2>8 DEF s, F
  <1> QED
    BY <1>3, <1>4, <1>5, <1>6

(* A table with one more entry, and one with an entry at least as large.      *)
LEMMA SetIs ==
  ASSUME NEW f, NEW key, NEW n
  PROVE  /\ DOMAIN Plan!Set(f, key, n) = DOMAIN f \cup {key}
         /\ Plan!Set(f, key, n)[key] = n
         /\ \A k \in DOMAIN f : k # key => Plan!Set(f, key, n)[k] = f[k]
         /\ Plan!Set(f, key, n) = [k \in DOMAIN Plan!Set(f, key, n) |-> Plan!Set(f, key, n)[k]]
  BY DEF Plan!Set

Table(f) == f = [k \in DOMAIN f |-> f[k]] /\ \A k \in DOMAIN f : f[k] \in Nat

\* g is f with n at key, unless f has more there
Raised(g, f, key, n) ==
    /\ Table(g) /\ DOMAIN g = DOMAIN f \cup {key} /\ g[key] >= n
    /\ \A k \in DOMAIN f : g[k] >= f[k]
    /\ \A k \in DOMAIN g : (k \in DOMAIN f /\ g[k] = f[k]) \/ (k = key /\ g[k] = n)

LEMMA AtLeastIs ==
  ASSUME NEW f, Table(f), NEW key, NEW n \in Nat
  PROVE  Raised(Plan!AtLeast(f, key, n), f, key, n)
  <1>0. PICK g : g = Plan!AtLeast(f, key, n)
    OBVIOUS
  <1>1. CASE key \in DOMAIN f /\ f[key] >= n
    <2>1. g = f
      BY <1>0, <1>1 DEF Plan!AtLeast
    <2> QED
      BY <1>0, <1>1, <2>1 DEF Table, Raised
  <1>2. CASE ~ (key \in DOMAIN f /\ f[key] >= n)
    <2>1. g = Plan!Set(f, key, n)
      BY <1>0, <1>2 DEF Plan!AtLeast
    <2>2. /\ DOMAIN g = DOMAIN f \cup {key} /\ g[key] = n
          /\ \A k \in DOMAIN f : k # key => g[k] = f[k]
          /\ g = [k \in DOMAIN g |-> g[k]]
      BY <2>1 DEF Plan!Set
    <2>3. key \in DOMAIN f => n >= f[key]
      BY <1>2 DEF Table
    <2>4. Table(g)
      BY <2>2 DEF Table
    <2> QED
      BY <1>0, <2>2, <2>3, <2>4 DEF Table, Raised
  <1> QED
    BY <1>1, <1>2

LEMMA PlanInit ==
  ASSUME Plan!Init
  PROVE  PlanInv
  <1> DEFINE root == <<1, 0, NoContext>>
  <1>1. /\ graph \in SignalGraphs /\ visits = <<root>> /\ outcome = "planning"
        /\ DOMAIN best = {} /\ DOMAIN lines = {} /\ DOMAIN outputs = {}
        /\ lines = [k \in DOMAIN lines |-> lines[k]]
        /\ outputs = [k \in DOMAIN outputs |-> outputs[k]]
    BY DEF Plan!Init
  <1>2. root \in CallsOfPlan
    BY <1>1, GraphShape DEF CallsOfPlan
  <1>3. visits \in Seq(CallsOfPlan) /\ OpenCalls(visits) = {root}
    BY <1>1, <1>2 DEF OpenCalls
  <1>4. <<NoContext, 0>> \in Plan!Occurrences[1]
    BY <1>1, GraphShape, OccurrenceRule
  <1>5. PlanTypes
    BY <1>1, <1>3 DEF PlanTypes
  <1>6. VisitsAreOfPaths
    BY <1>1, <1>3, <1>4 DEF VisitsAreOfPaths
  <1>7. MemoIsClosed
    <2>1. Met(1, NoContext, 0)
      BY <1>3 DEF Met
    <2> QED
      BY <1>1, <2>1 DEF MemoIsClosed
  <1>8. OutputsInv /\ PlannedLines
    BY <1>1 DEF OutputsInv, PlannedLines
  <1> QED
    BY <1>5, <1>6, <1>7, <1>8 DEF PlanInv

(* What the program alone determines.                                         *)
OccurrencesFollow ==
    graph \in SignalGraphs =>
        \A j \in PlanNodes : \A x :
            x \in Plan!Occurrences[j] <=>
                \/ j = 1 /\ x = <<NoContext, 0>>
                \/ \E i \in PlanNodes : \E k \in DOMAIN graph[i].kids : \E u \in Plan!Occurrences[i] :
                      i < j /\ Plan!Kid(i, k) = j /\ x = Given(i, k, u)

LEMMA OccurrencesDoFollow == OccurrencesFollow
  BY OccurrenceRule DEF OccurrencesFollow

LEMMA GivenStays ==
  ASSUME UNCHANGED graph
  PROVE  /\ \A i, k : Plan!Kid(i, k)' = Plan!Kid(i, k)
         /\ \A i, k, u : Given(i, k, u)' = Given(i, k, u)
  <1>1. \A i, k : Plan!Kid(i, k)' = Plan!Kid(i, k)
    BY DEF Plan!Kid
  <1>2. \A i, k : Plan!DelayOf(i, k)' = Plan!DelayOf(i, k)
    BY Zenon DEF Plan!DelayOf
  <1>3. \A i, k : Plan!Carries(i, k)' = Plan!Carries(i, k)
    BY <1>2, Zenon DEF Plan!Carries
  <1>4. \A i, c : Plan!RegionOf(i, c)' = Plan!RegionOf(i, c)
    BY Zenon DEF Plan!RegionOf, Plan!OuterOf
  <1>5. \A i, k, u : Given(i, k, u)' = Given(i, k, u)
    <2> SUFFICES ASSUME NEW i, NEW k, NEW u PROVE Given(i, k, u)' = Given(i, k, u)
      BY Zenon
    <2>1. /\ Plan!DelayOf(i, k)' = Plan!DelayOf(i, k) /\ Plan!Carries(i, k)' = Plan!Carries(i, k)
          /\ Plan!RegionOf(i, u[1])' = Plan!RegionOf(i, u[1])
      BY <1>2, <1>3, <1>4
    <2> QED
      BY <2>1, Zenon DEF Given
  <1> QED
    BY <1>1, <1>5

LEMMA OccurrencesStay ==
  ASSUME graph \in SignalGraphs, UNCHANGED graph, NEW j \in PlanNodes
  PROVE  Plan!Occurrences[j]' = Plan!Occurrences[j]
  <1> DEFINE O == Plan!Occurrences
             P == Plan!Occurrences'
             B == {n \in PlanNodes : ~ (P[n] = O[n])}
             From(n, x, F) == \E i \in PlanNodes : \E k \in DOMAIN graph[i].kids : \E u \in F[i] :
                                 i < n /\ Plan!Kid(i, k) = n /\ x = Given(i, k, u)
  <1>1. \A n \in PlanNodes : \A x : x \in O[n] <=> (n = 1 /\ x = <<NoContext, 0>>) \/ From(n, x, O)
    BY OccurrenceRule
  <1>2. OccurrencesFollow'
    <2>1. OccurrencesFollow
      BY OccurrencesDoFollow
    <2> QED
      BY OccurrencesDoFollow, PTL
  <1>3. \A n \in PlanNodes : \A x : x \in P[n] <=> (n = 1 /\ x = <<NoContext, 0>>) \/ From(n, x, P)
    <2>1. \A n \in PlanNodes : \A x :
            x \in Plan!Occurrences'[n] <=>
                \/ n = 1 /\ x = <<NoContext, 0>>
                \/ \E i \in PlanNodes : \E k \in DOMAIN graph'[i].kids : \E u \in Plan!Occurrences'[i] :
                      i < n /\ Plan!Kid(i, k)' = n /\ x = Given(i, k, u)'
      BY <1>2, Zenon DEF OccurrencesFollow
    <2>2. /\ graph' = graph /\ \A i, k : Plan!Kid(i, k)' = Plan!Kid(i, k)
          /\ \A i, k, u : Given(i, k, u)' = Given(i, k, u)
      BY GivenStays
    <2> QED
      BY <2>1, <2>2
  <1> HIDE DEF O, P
  <1>4. B = {}
    <2> SUFFICES ASSUME B # {} PROVE FALSE
      OBVIOUS
    <2>1. PICK m \in B : \A n \in B : m <= n
      <3>1. B \in SUBSET Nat
        BY GraphShape
      <3> HIDE DEF B
      <3> QED
        BY <3>1, LeastNatural
    <2>2. m \in PlanNodes /\ m \in Nat
      BY GraphShape
    <2>3. \A i \in PlanNodes : i < m => P[i] = O[i]
      <3> SUFFICES ASSUME NEW i \in PlanNodes, i < m, P[i] # O[i] PROVE FALSE
        OBVIOUS
      <3>1. i \in B /\ i \in Nat
        BY GraphShape
      <3>2. m <= i
        BY <2>1, <3>1
      <3> HIDE DEF B
      <3> QED
        BY <2>2, <3>1, <3>2
    <2>4. \A x : From(m, x, P) <=> From(m, x, O)
      BY <2>3
    <2> HIDE DEF From
    <2>5. \A x : x \in P[m] <=> x \in O[m]
      BY <1>1, <1>3, <2>2, <2>4
    <2>6. P[m] = O[m]
      BY <2>5
    <2> QED
      BY <2>1, <2>6
  <1>5. P[j] = O[j]
    BY <1>4
  <1> QED
    BY <1>5 DEF P, O

LEMMA PlanStays ==
  ASSUME graph \in SignalGraphs, UNCHANGED graph
  PROVE  /\ \A i \in PlanNodes : /\ Plan!Occurrences[i]' = Plan!Occurrences[i]
                                /\ Plan!LoweredIn(i)' = Plan!LoweredIn(i)
         /\ Plan!Unbounded' = Plan!Unbounded
         /\ \A i : /\ Plan!Projection(i)' = Plan!Projection(i)
                   /\ Plan!Owned(i)' = Plan!Owned(i) /\ Plan!Fails(i)' = Plan!Fails(i)
                   /\ Plan!LengthOf(i)' = Plan!LengthOf(i)
         /\ \A i, k : Plan!Kid(i, k)' = Plan!Kid(i, k)
         /\ \A i, k, u : Given(i, k, u)' = Given(i, k, u)
  <1>1. \A i \in PlanNodes : Plan!Occurrences[i]' = Plan!Occurrences[i]
    BY OccurrencesStay
  <1>3. \A i, k : Plan!Kid(i, k)' = Plan!Kid(i, k)
    BY GivenStays
  <1>2. Plan!Chain' = Plan!Chain
    BY <1>3, ZenonT(60) DEF Plan!Chain
  <1>4. \A i : /\ Plan!Projection(i)' = Plan!Projection(i) /\ Plan!Fails(i)' = Plan!Fails(i)
               /\ Plan!LengthOf(i)' = Plan!LengthOf(i)
    BY DEF Plan!Projection, Plan!Fails, Plan!LengthOf
  <1>5. \A i : Plan!OnRecursion(i)' = Plan!OnRecursion(i)
    BY <1>2, Zenon DEF Plan!OnRecursion, Plan!Projection
  <1>6. \A i : Plan!Owned(i)' = Plan!Owned(i)
    BY <1>3, <1>5 DEF Plan!Owned
  <1>7. \A i \in PlanNodes : Plan!LoweredIn(i)' = Plan!LoweredIn(i)
    BY <1>1 DEF Plan!LoweredIn
  <1>8. Plan!Unbounded' = Plan!Unbounded
    BY <1>7 DEF Plan!Unbounded
  <1>9. \A i, k, u : Given(i, k, u)' = Given(i, k, u)
    BY GivenStays
  <1> QED
    BY <1>1, <1>3, <1>4, <1>6, <1>7, <1>8, <1>9

(* A step after which the memo says the same or more, and in which no visit   *)
(* to come is lost but for what the memo then says.                           *)
LEMMA MetStays ==
  ASSUME NEW rest, NEW i, NEW c, NEW acc,
         OpenCalls(visits) \subseteq {<<i, acc, c>>} \cup OpenCalls(rest),
         OpenCalls(rest) \subseteq OpenCalls(visits'),
         <<i, c>> \in DOMAIN best', (best')[<<i, c>>] >= acc,
         \A b \in DOMAIN best : b \in DOMAIN best' /\ (best')[b] >= best[b] /\ best[b] \in Nat,
         \A b \in DOMAIN best' : (best')[b] \in Nat, acc \in Nat,
         NEW j, NEW d, NEW a \in Int, Met(j, d, a)
  PROVE  Met(j, d, a)'
  <1>1. CASE <<j, d>> \in DOMAIN best /\ best[<<j, d>>] >= a
    <2>1. <<j, d>> \in DOMAIN best' /\ (best')[<<j, d>>] >= a
      BY <1>1
    <2> QED
      BY <2>1 DEF Met
  <1>2. CASE \E v \in OpenCalls(visits) : v[1] = j /\ v[3] = d /\ v[2] >= a
    <2>1. PICK v \in OpenCalls(visits) : v[1] = j /\ v[3] = d /\ v[2] >= a
      BY <1>2
    <2>2. CASE v = <<i, acc, c>>
      <3>1. <<j, d>> \in DOMAIN best' /\ (best')[<<j, d>>] >= a
        BY <2>1, <2>2
      <3> QED
        BY <3>1 DEF Met
    <2>3. CASE v \in OpenCalls(rest)
      <3>1. v \in OpenCalls(visits')
        BY <2>3
      <3>2. v \in OpenCalls(visits)'
        BY <3>1 DEF OpenCalls
      <3> QED
        BY <2>1, <3>2 DEF Met
    <2> QED
      BY <2>2, <2>3
  <1> QED
    BY <1>1, <1>2 DEF Met

LEMMA TablesStay ==
  ASSUME graph \in SignalGraphs, OutputsInv, PlannedLines, DOMAIN best \subseteq PlanNodes \X Plan!Contexts,
         UNCHANGED <<graph, best, lines, outputs>>
  PROVE  OutputsInv' /\ PlannedLines'
  <1>1. /\ \A k \in DOMAIN outputs : \E i \in PlanNodes, c \in Plan!Contexts :
              /\ Plan!Projection(i)' /\ k = <<graph[i].at, c>>
              /\ <<c, outputs[k]>> \in Plan!Occurrences[i]'
        /\ \A b \in DOMAIN best :
              best[b] > 0 /\ Plan!Projection(b[1])' =>
                  /\ <<graph[b[1]].at, b[2]>> \in DOMAIN outputs
                  /\ outputs[<<graph[b[1]].at, b[2]>>] >= best[b]
    BY PlanStays, Zenon DEF OutputsInv
  <1>2. OutputsInv'
    BY <1>1, Zenon DEF OutputsInv
  <1>3. /\ \A k \in DOMAIN lines : \E i \in PlanNodes :
              /\ Plan!Owned(i)' /\ Plan!Kid(i, 1)' = k[1] /\ lines[k] = Plan!LengthOf(i)'
              /\ k[2] \in Plan!LoweredIn(i)'
        /\ \A b \in DOMAIN best :
              Plan!Owned(b[1])' =>
                  /\ <<Plan!Kid(b[1], 1)', b[2]>> \in DOMAIN lines
                  /\ lines[<<Plan!Kid(b[1], 1)', b[2]>>] >= Plan!LengthOf(b[1])'
    <2>1. \A j : Plan!Owned(j)' = Plan!Owned(j) /\ Plan!LengthOf(j)' = Plan!LengthOf(j)
      BY PlanStays
    <2>2. \A j, k : Plan!Kid(j, k)' = Plan!Kid(j, k)
      BY PlanStays
    <2>3. \A j \in PlanNodes : Plan!LoweredIn(j)' = Plan!LoweredIn(j)
      BY PlanStays
    <2> QED
      BY <2>1, <2>2, <2>3 DEF PlannedLines
  <1>4. PlannedLines'
    BY <1>3, Zenon DEF PlannedLines
  <1> QED
    BY <1>2, <1>4

LEMMA VisitTop ==
  ASSUME PlanTypes, visits # <<>>
  PROVE  \E i \in PlanNodes, acc \in Nat, c \in Plan!Contexts : \E rest \in Seq(CallsOfPlan) :
            /\ visits[1] = <<i, acc, c>> /\ rest = Tail(visits)
            /\ OpenCalls(visits) = {<<i, acc, c>>} \cup OpenCalls(rest)
  <1>1. /\ Head(visits) \in CallsOfPlan /\ Tail(visits) \in Seq(CallsOfPlan)
        /\ OpenCalls(visits) = {Head(visits)} \cup OpenCalls(Tail(visits))
    BY CallPopped DEF PlanTypes
  <1>2. Head(visits) = visits[1]
    BY DEF PlanTypes
  <1>3. PICK i \in PlanNodes, acc \in Nat, c \in Plan!Contexts : Head(visits) = <<i, acc, c>>
    BY <1>1 DEF CallsOfPlan
  <1> QED
    BY <1>1, <1>2, <1>3

LEMMA SkipStep ==
  ASSUME PlanInv, Plan!Skip
  PROVE  PlanInv'
  <1>1. PlanTypes /\ VisitsAreOfPaths /\ MemoIsClosed /\ OutputsInv /\ PlannedLines
    BY DEF PlanInv
  <1>2. /\ outcome = "planning" /\ visits # <<>> /\ visits' = Tail(visits)
        /\ Plan!Seen(visits[1][1], visits[1][2], visits[1][3])
        /\ UNCHANGED <<graph, best, lines, outputs, outcome>>
    BY DEF Plan!Skip
  <1>3. PICK i \in PlanNodes, acc \in Nat, c \in Plan!Contexts : \E rest \in Seq(CallsOfPlan) :
            /\ visits[1] = <<i, acc, c>> /\ rest = Tail(visits)
            /\ OpenCalls(visits) = {<<i, acc, c>>} \cup OpenCalls(rest)
    BY <1>1, <1>2, VisitTop
  <1>4. PICK rest \in Seq(CallsOfPlan) :
            /\ visits[1] = <<i, acc, c>> /\ rest = Tail(visits)
            /\ OpenCalls(visits) = {<<i, acc, c>>} \cup OpenCalls(rest)
    BY <1>3
  <1>5. <<i, c>> \in DOMAIN best /\ best[<<i, c>>] >= acc
    BY <1>2, <1>4 DEF Plan!Seen
  <1>6. OpenCalls(visits)' = OpenCalls(rest)
    BY <1>2, <1>4 DEF OpenCalls
  <1>7. PlanTypes'
    BY <1>1, <1>2, <1>4 DEF PlanTypes
  <1>8. VisitsAreOfPaths'
    <2>1. \A v \in OpenCalls(visits)' : v \in OpenCalls(visits) /\ v[1] \in PlanNodes
      <3>1. \A v \in OpenCalls(rest) : v \in CallsOfPlan
        BY DEF OpenCalls
      <3> QED
        BY <1>4, <1>6, <3>1 DEF CallsOfPlan
    <2>2. \A v \in OpenCalls(visits)' : <<v[3], v[2]>> \in Plan!Occurrences[v[1]]'
      BY <1>1, <1>2, <2>1, PlanStays DEF VisitsAreOfPaths, PlanTypes
    <2>3. \A k \in DOMAIN best : k[1] \in PlanNodes
      BY <1>1 DEF PlanTypes
    <2>4. \A k \in DOMAIN best' : <<k[2], (best')[k]>> \in Plan!Occurrences[k[1]]'
      BY <1>1, <1>2, <2>3, PlanStays DEF VisitsAreOfPaths, PlanTypes
    <2>5. outcome' # "refused"
      BY <1>2
    <2> QED
      BY <2>2, <2>4, <2>5, Zenon DEF VisitsAreOfPaths
  <1>9. \A j, d : \A a \in Int : Met(j, d, a) => Met(j, d, a)'
    <2>1. /\ OpenCalls(visits) \subseteq {<<i, acc, c>>} \cup OpenCalls(rest)
          /\ OpenCalls(rest) \subseteq OpenCalls(visits')
      BY <1>2, <1>4
    <2>2. \A b \in DOMAIN best : b \in DOMAIN best' /\ (best')[b] >= best[b] /\ best[b] \in Nat
      BY <1>1, <1>2 DEF PlanTypes
    <2>3. /\ \A b \in DOMAIN best' : (best')[b] \in Nat
          /\ <<i, c>> \in DOMAIN best' /\ (best')[<<i, c>>] >= acc
      BY <1>1, <1>2, <1>5 DEF PlanTypes
    <2> QED
      BY <2>1, <2>2, <2>3, MetStays
  <1>10. MemoIsClosed'
    <2>1. Met(1, NoContext, 0)'
      BY <1>1, <1>2, <1>9 DEF MemoIsClosed
    <2>2. ASSUME NEW b \in DOMAIN best
          PROVE  /\ ~ Plan!Fails(b[1])
                 /\ \A k \in DOMAIN graph[b[1]].kids :
                       Met(Plan!Kid(b[1], k), Given(b[1], k, <<b[2], best[b]>>)[1],
                           Given(b[1], k, <<b[2], best[b]>>)[2])'
      <3>1. ~ Plan!Fails(b[1]) /\ b[1] \in PlanNodes /\ b[2] \in Plan!Contexts /\ best[b] \in Nat
        BY <1>1, <1>2, <2>2 DEF MemoIsClosed, PlanTypes
      <3>2. ASSUME NEW k \in DOMAIN graph[b[1]].kids
            PROVE  Met(Plan!Kid(b[1], k), Given(b[1], k, <<b[2], best[b]>>)[1],
                       Given(b[1], k, <<b[2], best[b]>>)[2])'
        <4>1. PICK g : g = Given(b[1], k, <<b[2], best[b]>>)
          OBVIOUS
        <4>2. Met(Plan!Kid(b[1], k), g[1], g[2])
          BY <1>1, <1>2, <2>2, <4>1 DEF MemoIsClosed
        <4>3. g[2] \in Int
          <5>1. graph \in SignalGraphs /\ k \in DOMAIN graph[b[1]].kids
            BY <1>1 DEF PlanTypes
          <5>2. PICK n \in PlanNodes, d \in Plan!Contexts, a \in Int :
                  n = b[1] /\ d = b[2] /\ a = best[b]
            BY <3>1
          <5>3. Given(n, k, <<d, a>>) \in Plan!Contexts \X Int
            BY <5>1, <5>2, GivenIs
          <5> QED
            BY <4>1, <5>2, <5>3
        <4>4. PICK n : n = Plan!Kid(b[1], k)
          OBVIOUS
        <4>5. Met(n, g[1], g[2])'
          BY <1>9, <4>2, <4>3, <4>4
        <4>6. n = Plan!Kid(b[1], k)' /\ g = Given(b[1], k, <<b[2], best[b]>>)'
          <5>1. graph' = graph /\ best' = best
            BY <1>2
          <5>2. Plan!Kid(b[1], k)' = Plan!Kid(b[1], k)
            BY <5>1, GivenStays
          <5>3. \A u : Given(b[1], k, u)' = Given(b[1], k, u)
            BY <5>1, GivenStays
          <5>4. PICK u : u = <<b[2], best[b]>>
            OBVIOUS
          <5>5. u = <<b[2], (best')[b]>>
            BY <5>1, <5>4
          <5>6. Given(b[1], k, u)' = Given(b[1], k, <<b[2], best[b]>>)'
            BY <5>5, Zenon
          <5> QED
            BY <4>1, <4>4, <5>2, <5>3, <5>4, <5>6
        <4> QED
          BY <4>5, <4>6, Zenon DEF Met
      <3> QED
        BY <3>1, <3>2
    <2>3. DOMAIN best' = DOMAIN best /\ graph' = graph /\ \A j : Plan!Fails(j)' = Plan!Fails(j)
      BY <1>1, <1>2, PlanStays DEF PlanTypes
    <2>4. outcome' # "planned" /\ outcome = "planning"
      BY <1>2
    <2>5. \A b \in DOMAIN best' :
             /\ ~ Plan!Fails(b[1])'
             /\ \A k \in DOMAIN (graph')[b[1]].kids :
                   Met(Plan!Kid(b[1], k), Given(b[1], k, <<b[2], best[b]>>)[1],
                       Given(b[1], k, <<b[2], best[b]>>)[2])'
      BY <2>2, <2>3, Zenon
    <2> QED
      BY <2>1, <2>4, <2>5, Zenon DEF MemoIsClosed
  <1>11. OutputsInv' /\ PlannedLines'
    BY <1>1, <1>2, TablesStay DEF PlanTypes
  <1> QED
    BY <1>7, <1>8, <1>10, <1>11 DEF PlanInv

(* What a visit of i in c with acc knows and does.                            *)
VisitOf(i, acc, c, rest) ==
    /\ i \in PlanNodes /\ acc \in Nat /\ c \in Plan!Contexts
    /\ rest \in Seq(CallsOfPlan)
    /\ OpenCalls(visits) = {<<i, acc, c>>} \cup OpenCalls(rest)
    /\ outcome = "planning" /\ graph' = graph
    /\ ~ Plan!Seen(i, acc, c)
    /\ best' = Plan!Set(best, <<i, c>>, acc)
    /\ outputs' = IF acc > 0 /\ Plan!Projection(i)
                  THEN Plan!AtLeast(outputs, <<graph[i].at, c>>, acc) ELSE outputs
    /\ lines' = Plan!Scanned(i, c)
    /\ IF Plan!Fails(i)
       THEN outcome' = "refused" /\ visits' = rest
       ELSE outcome' = "planning" /\ visits' = Plan!Calls(i, acc, c) \o rest

LEMMA VisitIs ==
  ASSUME PlanTypes, Plan!Visit
  PROVE  \E i, acc, c, rest : VisitOf(i, acc, c, rest)
  <1>1. /\ outcome = "planning" /\ visits # <<>> /\ graph' = graph
    BY DEF Plan!Visit
  <1>2. PICK i \in PlanNodes, acc \in Nat, c \in Plan!Contexts : \E rest \in Seq(CallsOfPlan) :
            /\ visits[1] = <<i, acc, c>> /\ rest = Tail(visits)
            /\ OpenCalls(visits) = {<<i, acc, c>>} \cup OpenCalls(rest)
    BY <1>1, VisitTop
  <1>3. PICK rest \in Seq(CallsOfPlan) :
            /\ visits[1] = <<i, acc, c>> /\ rest = Tail(visits)
            /\ OpenCalls(visits) = {<<i, acc, c>>} \cup OpenCalls(rest)
    BY <1>2
  <1>4. visits[1][1] = i /\ visits[1][2] = acc /\ visits[1][3] = c
    BY <1>3
  <1>5. VisitOf(i, acc, c, rest)
    BY <1>1, <1>3, <1>4 DEF Plan!Visit, VisitOf
  <1> QED
    BY <1>5

LEMMA BestOfVisit ==
  ASSUME PlanTypes, NEW i, NEW acc, NEW c, NEW rest, VisitOf(i, acc, c, rest)
  PROVE  /\ DOMAIN best' = DOMAIN best \cup {<<i, c>>} /\ (best')[<<i, c>>] = acc
         /\ \A b \in DOMAIN best : b # <<i, c>> => (best')[b] = best[b]
         /\ <<i, c>> \in DOMAIN best => best[<<i, c>>] < acc
         /\ \A b \in DOMAIN best : (best')[b] >= best[b]
         /\ \A b \in DOMAIN best' : (best')[b] \in Nat /\ b[1] \in PlanNodes /\ b[2] \in Plan!Contexts
  <1>1. best' = Plan!Set(best, <<i, c>>, acc)
    BY DEF VisitOf
  <1>2. /\ DOMAIN best' = DOMAIN best \cup {<<i, c>>} /\ (best')[<<i, c>>] = acc
        /\ \A b \in DOMAIN best : b # <<i, c>> => (best')[b] = best[b]
    BY <1>1 DEF Plan!Set
  <1>3. /\ i \in PlanNodes /\ acc \in Nat /\ c \in Plan!Contexts
        /\ DOMAIN best \subseteq PlanNodes \X Plan!Contexts
        /\ \A b \in DOMAIN best : best[b] \in Nat
    BY DEF VisitOf, PlanTypes
  <1>4. <<i, c>> \in DOMAIN best => best[<<i, c>>] < acc
    BY <1>3 DEF VisitOf, Plan!Seen
  <1> QED
    BY <1>2, <1>3, <1>4

LEMMA BestElsewhere ==
  ASSUME PlanTypes, NEW i, NEW acc, NEW c, NEW rest, VisitOf(i, acc, c, rest),
         NEW b \in DOMAIN best', b # <<i, c>>
  PROVE  b \in DOMAIN best /\ (best')[b] = best[b]
  <1>1. /\ DOMAIN best' = DOMAIN best \cup {<<i, c>>}
        /\ \A n \in DOMAIN best : n # <<i, c>> => (best')[n] = best[n]
    <2> HIDE DEF VisitOf, PlanTypes
    <2> QED
      BY BestOfVisit, Zenon
  <1> QED
    BY <1>1

LEMMA OwnedIs ==
  ASSUME graph \in SignalGraphs, NEW i \in PlanNodes, Plan!Owned(i)
  PROVE  /\ Plan!LengthOf(i) \in Nat \ {0} /\ Plan!Kid(i, 1) \in PlanNodes
         /\ 1 \in DOMAIN graph[i].kids
  <1>1. \/ graph[i].op = "delay" /\ graph[i].at > 0
        \/ graph[i].op = "delay1"
    BY DEF Plan!Owned
  <1>2. 1 \in DOMAIN graph[i].kids /\ (graph[i].op = "delay" => graph[i].at \in Int)
    <2>1. 1 \in {1, 2} /\ 1 \in {1} /\ \A n \in Nat \cup {-1} : n \in Int
      OBVIOUS
    <2>2. /\ graph[i].op \in {"delay", "prefix"} => DOMAIN graph[i].kids = {1, 2}
          /\ graph[i].op \in {"delay1", "clocked", "tempvar"} => DOMAIN graph[i].kids = {1}
          /\ graph[i].op = "delay" => graph[i].at \in Nat \cup {-1}
      BY GraphShape
    <2> QED
      BY <1>1, <2>1, <2>2
  <1>3. Plan!Kid(i, 1) \in PlanNodes
    BY <1>2, GraphShape
  <1>4. Plan!LengthOf(i) \in Nat \ {0}
    BY <1>1, <1>2 DEF Plan!LengthOf
  <1> QED
    BY <1>2, <1>3, <1>4

LEMMA LinesOfVisit ==
  ASSUME PlanTypes, NEW i, NEW acc, NEW c, NEW rest, VisitOf(i, acc, c, rest)
  PROVE  /\ lines' = [k \in DOMAIN lines' |-> (lines')[k]]
         /\ DOMAIN lines' \subseteq PlanNodes \X Plan!Contexts
         /\ \A k \in DOMAIN lines' : (lines')[k] \in Nat \ {0}
         /\ \A k \in DOMAIN lines : k \in DOMAIN lines' /\ (lines')[k] >= lines[k]
         /\ \A k \in DOMAIN lines' :
               \/ k \in DOMAIN lines /\ (lines')[k] = lines[k]
               \/ /\ Plan!Owned(i) /\ k = <<Plan!Kid(i, 1), c>>
                  /\ (lines')[k] = Plan!LengthOf(i)
         /\ Plan!Owned(i) /\ <<i, c>> \notin DOMAIN best =>
               /\ <<Plan!Kid(i, 1), c>> \in DOMAIN lines'
               /\ (lines')[<<Plan!Kid(i, 1), c>>] >= Plan!LengthOf(i)
  <1>1. /\ lines' = Plan!Scanned(i, c) /\ i \in PlanNodes /\ c \in Plan!Contexts
        /\ graph \in SignalGraphs
        /\ lines = [k \in DOMAIN lines |-> lines[k]] /\ DOMAIN lines \subseteq PlanNodes \X Plan!Contexts
        /\ \A k \in DOMAIN lines : lines[k] \in Nat \ {0}
    BY DEF VisitOf, PlanTypes
  <1>2. CASE Plan!Owned(i) /\ <<i, c>> \notin DOMAIN best
    <2> DEFINE key == <<Plan!Kid(i, 1), c>>
               n == Plan!LengthOf(i)
    <2>1. PICK g : g = lines'
      OBVIOUS
    <2>2. g = Plan!AtLeast(lines, key, n)
      BY <1>1, <1>2, <2>1, Zenon DEF Plan!Scanned
    <2>3. n \in Nat \ {0} /\ Plan!Kid(i, 1) \in PlanNodes
      BY <1>1, <1>2, OwnedIs
    <2>4. key \in PlanNodes \X Plan!Contexts
      BY <1>1, <2>3
    <2> HIDE DEF key, n
    <2>5. /\ g = [k \in DOMAIN g |-> g[k]] /\ DOMAIN g = DOMAIN lines \cup {key}
          /\ g[key] >= n /\ g[key] \in Nat
          /\ \A k \in DOMAIN lines : g[k] >= lines[k] /\ g[k] \in Nat
          /\ \A k \in DOMAIN g : (k \in DOMAIN lines /\ g[k] = lines[k]) \/ (k = key /\ g[k] = n)
      <3>1. Table(lines)
        BY <1>1 DEF Table
      <3>2. Raised(g, lines, key, n)
        BY <2>2, <2>3, <3>1, AtLeastIs
      <3> QED
        BY <1>1, <3>2 DEF Raised, Table
    <2>6. /\ g = [k \in DOMAIN g |-> g[k]]
          /\ DOMAIN g \subseteq PlanNodes \X Plan!Contexts
          /\ \A k \in DOMAIN g : g[k] \in Nat \ {0}
          /\ \A k \in DOMAIN lines : k \in DOMAIN g /\ g[k] >= lines[k]
          /\ \A k \in DOMAIN g :
               \/ k \in DOMAIN lines /\ g[k] = lines[k]
               \/ Plan!Owned(i) /\ k = key /\ g[k] = n
          /\ key \in DOMAIN g /\ g[key] >= n
      BY <1>1, <1>2, <2>3, <2>4, <2>5
    <2> QED
      BY <2>1, <2>6 DEF key, n
  <1>3. CASE ~ (Plan!Owned(i) /\ <<i, c>> \notin DOMAIN best)
    <2>1. lines' = lines
      BY <1>1, <1>3 DEF Plan!Scanned
    <2> QED
      BY <1>1, <1>3, <2>1
  <1> QED
    BY <1>2, <1>3

LEMMA OutputsOfVisit ==
  ASSUME PlanTypes, NEW i, NEW acc, NEW c, NEW rest, VisitOf(i, acc, c, rest)
  PROVE  /\ outputs' = [k \in DOMAIN outputs' |-> (outputs')[k]]
         /\ \A k \in DOMAIN outputs' : (outputs')[k] \in Nat \ {0}
         /\ \A k \in DOMAIN outputs : k \in DOMAIN outputs' /\ (outputs')[k] >= outputs[k]
         /\ \A k \in DOMAIN outputs' :
               \/ k \in DOMAIN outputs /\ (outputs')[k] = outputs[k]
               \/ Plan!Projection(i) /\ k = <<graph[i].at, c>> /\ (outputs')[k] = acc
         /\ acc > 0 /\ Plan!Projection(i) =>
               /\ <<graph[i].at, c>> \in DOMAIN outputs'
               /\ (outputs')[<<graph[i].at, c>>] >= acc
  <1>1. /\ outputs' = IF acc > 0 /\ Plan!Projection(i)
                      THEN Plan!AtLeast(outputs, <<graph[i].at, c>>, acc) ELSE outputs
        /\ acc \in Nat
        /\ outputs = [k \in DOMAIN outputs |-> outputs[k]]
        /\ \A k \in DOMAIN outputs : outputs[k] \in Nat \ {0}
    BY DEF VisitOf, PlanTypes
  <1>2. CASE acc > 0 /\ Plan!Projection(i)
    <2> DEFINE key == <<graph[i].at, c>>
    <2>1. PICK g : g = outputs'
      OBVIOUS
    <2>2. g = Plan!AtLeast(outputs, key, acc)
      BY <1>1, <1>2, <2>1
    <2> HIDE DEF key
    <2>3. /\ g = [k \in DOMAIN g |-> g[k]] /\ DOMAIN g = DOMAIN outputs \cup {key}
          /\ g[key] >= acc /\ g[key] \in Nat
          /\ \A k \in DOMAIN outputs : g[k] >= outputs[k] /\ g[k] \in Nat
          /\ \A k \in DOMAIN g : (k \in DOMAIN outputs /\ g[k] = outputs[k]) \/ (k = key /\ g[k] = acc)
      <3>1. Table(outputs)
        BY <1>1 DEF Table
      <3>2. Raised(g, outputs, key, acc)
        BY <1>1, <2>2, <3>1, AtLeastIs
      <3> QED
        BY <1>1, <3>2 DEF Raised, Table
    <2>4. /\ g = [k \in DOMAIN g |-> g[k]]
          /\ \A k \in DOMAIN g : g[k] \in Nat \ {0}
          /\ \A k \in DOMAIN outputs : k \in DOMAIN g /\ g[k] >= outputs[k]
          /\ \A k \in DOMAIN g :
               \/ k \in DOMAIN outputs /\ g[k] = outputs[k]
               \/ Plan!Projection(i) /\ k = key /\ g[k] = acc
          /\ key \in DOMAIN g /\ g[key] >= acc
      BY <1>1, <1>2, <2>3
    <2> QED
      BY <2>1, <2>4 DEF key
  <1>3. CASE ~ (acc > 0 /\ Plan!Projection(i))
    <2>1. outputs' = outputs
      BY <1>1, <1>3
    <2> QED
      BY <1>1, <1>3, <2>1
  <1> QED
    BY <1>2, <1>3

(* The visits to come after a visit.                                          *)
CallsFor(i, u) == {CallFor(i, k, u) : k \in DOMAIN graph[i].kids}

AfterVisit(i, acc, c, rest) ==
    IF Plan!Fails(i) THEN rest ELSE Plan!Calls(i, acc, c) \o rest

LEMMA AfterVisitIs ==
  ASSUME PlanTypes, NEW i, NEW acc, NEW c, NEW rest, VisitOf(i, acc, c, rest)
  PROVE  /\ AfterVisit(i, acc, c, rest) \in Seq(CallsOfPlan)
         /\ OpenCalls(AfterVisit(i, acc, c, rest)) =
                OpenCalls(rest) \cup IF Plan!Fails(i) THEN {} ELSE CallsFor(i, <<c, acc>>)
  <1>1. /\ i \in PlanNodes /\ acc \in Nat /\ c \in Plan!Contexts /\ graph \in SignalGraphs
        /\ rest \in Seq(CallsOfPlan)
    BY DEF VisitOf, PlanTypes
  <1>2. CASE Plan!Fails(i)
    BY <1>1, <1>2 DEF AfterVisit
  <1>3. CASE ~ Plan!Fails(i)
    <2>1. /\ Plan!Calls(i, acc, c) \in Seq(CallsOfPlan)
          /\ OpenCalls(Plan!Calls(i, acc, c)) = CallsFor(i, <<c, acc>>)
      BY <1>1, <1>3, CallsAre DEF CallsFor
    <2>2. /\ Plan!Calls(i, acc, c) \o rest \in Seq(CallsOfPlan)
          /\ OpenCalls(Plan!Calls(i, acc, c) \o rest)
                 = OpenCalls(Plan!Calls(i, acc, c)) \cup OpenCalls(rest)
      BY <1>1, <2>1, CallsJoined
    <2> QED
      BY <1>3, <2>1, <2>2 DEF AfterVisit
  <1> QED
    BY <1>2, <1>3

LEMMA VisitKeepsTypes ==
  ASSUME PlanInv, NEW i, NEW acc, NEW c, NEW rest, VisitOf(i, acc, c, rest)
  PROVE  PlanTypes'
  <1>1. PlanTypes
    BY DEF PlanInv
  <1>2. /\ graph' \in SignalGraphs /\ outcome' \in {"planning", "planned", "refused"}
        /\ visits' = AfterVisit(i, acc, c, rest)
    BY <1>1 DEF PlanTypes, VisitOf, AfterVisit
  <1>3. visits' \in Seq(CallsOfPlan)
    BY <1>1, <1>2, AfterVisitIs
  <1>4. /\ DOMAIN best' \subseteq PlanNodes \X Plan!Contexts
        /\ \A k \in DOMAIN best' : (best')[k] \in Nat
    <2>1. DOMAIN best' = DOMAIN best \cup {<<i, c>>}
      BY <1>1, BestOfVisit
    <2>2. <<i, c>> \in PlanNodes \X Plan!Contexts /\ DOMAIN best \subseteq PlanNodes \X Plan!Contexts
      BY <1>1 DEF VisitOf, PlanTypes
    <2>3. \A k \in DOMAIN best' : (best')[k] \in Nat
      BY <1>1, BestOfVisit
    <2> QED
      BY <2>1, <2>2, <2>3
  <1>5. /\ lines' = [k \in DOMAIN lines' |-> (lines')[k]]
        /\ DOMAIN lines' \subseteq PlanNodes \X Plan!Contexts
        /\ \A k \in DOMAIN lines' : (lines')[k] \in Nat \ {0}
    BY <1>1, LinesOfVisit, Zenon
  <1>6. /\ outputs' = [k \in DOMAIN outputs' |-> (outputs')[k]]
        /\ \A k \in DOMAIN outputs' : (outputs')[k] \in Nat \ {0}
    BY <1>1, OutputsOfVisit, Zenon
  <1> QED
    BY <1>2, <1>3, <1>4, <1>5, <1>6, Zenon DEF PlanTypes, CallsOfPlan, Plan!Contexts

LEMMA VisitedIsOfPath ==
  ASSUME PlanInv, NEW i, NEW acc, NEW c, NEW rest, VisitOf(i, acc, c, rest)
  PROVE  /\ <<c, acc>> \in Plan!Occurrences[i] /\ c \in Plan!LoweredIn(i)
         /\ \A k \in DOMAIN graph[i].kids :
               /\ Plan!Kid(i, k) \in PlanNodes
               /\ Given(i, k, <<c, acc>>) \in Plan!Occurrences[Plan!Kid(i, k)]
  <1>1. PlanTypes /\ VisitsAreOfPaths
    BY DEF PlanInv
  <1>2. /\ <<i, acc, c>> \in OpenCalls(visits) /\ graph \in SignalGraphs /\ i \in PlanNodes
    BY <1>1 DEF VisitOf, PlanTypes
  <1>3. PICK v \in OpenCalls(visits) : v = <<i, acc, c>>
    BY <1>2
  <1>4. <<v[3], v[2]>> \in Plan!Occurrences[v[1]]
    BY <1>1 DEF VisitsAreOfPaths
  <1>5. <<c, acc>> \in Plan!Occurrences[i]
    BY <1>3, <1>4
  <1>6. c \in Plan!LoweredIn(i)
    <2>1. PICK u \in Plan!Occurrences[i] : u = <<c, acc>>
      BY <1>5
    <2>2. u[1] = c
      BY <2>1
    <2> QED
      BY <2>2, Zenon DEF Plan!LoweredIn
  <1>7. ASSUME NEW k \in DOMAIN graph[i].kids
        PROVE  /\ Plan!Kid(i, k) \in PlanNodes
               /\ Given(i, k, <<c, acc>>) \in Plan!Occurrences[Plan!Kid(i, k)]
    <2>1. Plan!Kid(i, k) \in PlanNodes /\ Plan!Kid(i, k) > i /\ i \in Nat /\ Plan!Kid(i, k) \in Nat
      BY <1>2, GraphShape
    <2>2. PICK j : j = Plan!Kid(i, k)
      OBVIOUS
    <2>3. PICK u \in Plan!Occurrences[i] : u = <<c, acc>>
      BY <1>5
    <2>4. i < j /\ j \in PlanNodes
      BY <2>1, <2>2
    <2>5. PICK x : x = Given(i, k, u)
      OBVIOUS
    <2>6. \E n \in PlanNodes : \E m \in DOMAIN graph[n].kids : \E w \in Plan!Occurrences[n] :
             n < j /\ Plan!Kid(n, m) = j /\ x = Given(n, m, w)
      BY <1>2, <2>2, <2>3, <2>4, <2>5, Zenon
    <2>7. x \in Plan!Occurrences[j]
      BY <1>2, <2>4, <2>6, OccurrenceRule
    <2> QED
      BY <2>1, <2>2, <2>3, <2>5, <2>7, Zenon
  <1> QED
    BY <1>5, <1>6, <1>7

LEMMA VisitKeepsPaths ==
  ASSUME PlanInv, NEW i, NEW acc, NEW c, NEW rest, VisitOf(i, acc, c, rest)
  PROVE  VisitsAreOfPaths'
  <1>1. PlanTypes /\ VisitsAreOfPaths
    BY DEF PlanInv
  <1>2. /\ graph \in SignalGraphs /\ graph' = graph /\ i \in PlanNodes
        /\ visits' = AfterVisit(i, acc, c, rest) /\ rest \in Seq(CallsOfPlan)
        /\ OpenCalls(visits) = {<<i, acc, c>>} \cup OpenCalls(rest)
    BY <1>1 DEF PlanTypes, VisitOf, AfterVisit
  <1>3. \A j \in PlanNodes : Plan!Occurrences[j]' = Plan!Occurrences[j]
    BY <1>2, PlanStays
  <1>4. \A v \in OpenCalls(visits)' :
            \/ v \in OpenCalls(rest)
            \/ \E k \in DOMAIN graph[i].kids : v = CallFor(i, k, <<c, acc>>)
    <2>1. OpenCalls(visits)' = OpenCalls(rest) \cup IF Plan!Fails(i) THEN {} ELSE CallsFor(i, <<c, acc>>)
      <3>1. OpenCalls(visits)' = OpenCalls(AfterVisit(i, acc, c, rest))
        BY <1>2 DEF OpenCalls
      <3> QED
        BY <1>1, <3>1, AfterVisitIs
    <2> QED
      BY <2>1 DEF CallsFor
  <1>5. \A v \in OpenCalls(visits)' : v[1] \in PlanNodes /\ <<v[3], v[2]>> \in Plan!Occurrences[v[1]]
    <2> SUFFICES ASSUME NEW v \in OpenCalls(visits)'
                 PROVE  v[1] \in PlanNodes /\ <<v[3], v[2]>> \in Plan!Occurrences[v[1]]
      OBVIOUS
    <2>1. CASE v \in OpenCalls(rest)
      <3>1. v \in CallsOfPlan
        BY <1>2, <2>1 DEF OpenCalls
      <3>2. v \in OpenCalls(visits)
        BY <1>2, <2>1
      <3> QED
        BY <1>1, <3>1, <3>2 DEF VisitsAreOfPaths, CallsOfPlan
    <2>2. CASE \E k \in DOMAIN graph[i].kids : v = CallFor(i, k, <<c, acc>>)
      <3>1. PICK k \in DOMAIN graph[i].kids : v = CallFor(i, k, <<c, acc>>)
        BY <2>2
      <3>2. PICK g : g = Given(i, k, <<c, acc>>)
        OBVIOUS
      <3>3. g = <<g[1], g[2]>>
        BY <3>2 DEF Given
      <3>4. v = <<Plan!Kid(i, k), g[2], g[1]>>
        BY <3>1, <3>2 DEF CallFor
      <3>5. Plan!Kid(i, k) \in PlanNodes /\ g \in Plan!Occurrences[Plan!Kid(i, k)]
        BY <3>2, VisitedIsOfPath
      <3>6. PICK j : j = Plan!Kid(i, k)
        OBVIOUS
      <3> QED
        BY <3>3, <3>4, <3>5, <3>6
    <2> QED
      BY <1>4, <2>1, <2>2
  <1>6. \A b \in DOMAIN best' : b[1] \in PlanNodes /\ <<b[2], (best')[b]>> \in Plan!Occurrences[b[1]]
    <2> SUFFICES ASSUME NEW b \in DOMAIN best'
                 PROVE  <<b[2], (best')[b]>> \in Plan!Occurrences[b[1]]
      BY <1>1, BestOfVisit
    <2>1. CASE b = <<i, c>>
      <3>1. (best')[b] = acc /\ b[1] = i /\ b[2] = c
        BY <1>1, <2>1, BestOfVisit
      <3> QED
        BY <3>1, VisitedIsOfPath
    <2>2. CASE b # <<i, c>>
      <3>1. b \in DOMAIN best /\ (best')[b] = best[b]
        BY <1>1, <2>2, BestElsewhere
      <3> QED
        BY <1>1, <3>1 DEF VisitsAreOfPaths
    <2> QED
      BY <2>1, <2>2
  <1>7. outcome' = "refused" => Plan!Unbounded'
    <2> SUFFICES ASSUME outcome' = "refused" PROVE Plan!Unbounded
      BY <1>2, PlanStays
    <2>1. Plan!Fails(i)
      BY DEF VisitOf
    <2>2. Plan!LoweredIn(i) # {}
      BY VisitedIsOfPath
    <2> QED
      BY <1>2, <2>1, <2>2, Zenon DEF Plan!Unbounded, Plan!Fails
  <1>8. /\ \A v \in OpenCalls(visits)' : <<v[3], v[2]>> \in Plan!Occurrences[v[1]]'
        /\ \A b \in DOMAIN best' : <<b[2], (best')[b]>> \in Plan!Occurrences[b[1]]'
    BY <1>3, <1>5, <1>6
  <1> QED
    BY <1>7, <1>8, Zenon DEF VisitsAreOfPaths

LEMMA VisitKeepsMet ==
  ASSUME PlanInv, NEW i, NEW acc, NEW c, NEW rest, VisitOf(i, acc, c, rest),
         NEW j, NEW d, NEW a \in Int, Met(j, d, a)
  PROVE  Met(j, d, a)'
  <1>1. PlanTypes
    BY DEF PlanInv
  <1>2. /\ visits' = AfterVisit(i, acc, c, rest) /\ acc \in Nat
        /\ OpenCalls(visits) = {<<i, acc, c>>} \cup OpenCalls(rest)
    BY DEF VisitOf, AfterVisit
  <1>3. /\ OpenCalls(visits) \subseteq {<<i, acc, c>>} \cup OpenCalls(rest)
        /\ OpenCalls(rest) \subseteq OpenCalls(visits')
    <2>1. OpenCalls(AfterVisit(i, acc, c, rest)) =
              OpenCalls(rest) \cup IF Plan!Fails(i) THEN {} ELSE CallsFor(i, <<c, acc>>)
      BY <1>1, AfterVisitIs
    <2>2. OpenCalls(rest) \subseteq OpenCalls(AfterVisit(i, acc, c, rest))
      BY <2>1
    <2> QED
      BY <1>2, <2>2
  <1>4. /\ DOMAIN best' = DOMAIN best \cup {<<i, c>>} /\ (best')[<<i, c>>] = acc
        /\ \A b \in DOMAIN best : (best')[b] >= best[b]
        /\ \A b \in DOMAIN best' : (best')[b] \in Nat
    BY <1>1, BestOfVisit
  <1>5. \A b \in DOMAIN best : best[b] \in Nat
    BY <1>1 DEF PlanTypes
  <1>6. <<i, c>> \in DOMAIN best' /\ (best')[<<i, c>>] >= acc
    BY <1>2, <1>4
  <1>7. \A b \in DOMAIN best : b \in DOMAIN best' /\ (best')[b] >= best[b] /\ best[b] \in Nat
    BY <1>4, <1>5
  <1> QED
    BY <1>2, <1>3, <1>4, <1>6, <1>7, MetStays

\* what the memo promises of one signal in one context
PromiseOf(n, d, a) ==
    /\ ~ Plan!Fails(n)
    /\ \A k \in DOMAIN graph[n].kids :
          Met(Plan!Kid(n, k), Given(n, k, <<d, a>>)[1], Given(n, k, <<d, a>>)[2])

LEMMA MemoOfPromises ==
  MemoIsClosed <=>
    /\ outcome # "refused" =>
          /\ Met(1, NoContext, 0)
          /\ \A b \in DOMAIN best : PromiseOf(b[1], b[2], best[b])
    /\ outcome = "planned" => visits = <<>>
  BY Zenon DEF MemoIsClosed, PromiseOf

LEMMA PromiseKept ==
  ASSUME PlanTypes, UNCHANGED graph,
         \A j, d : \A a \in Int : Met(j, d, a) => Met(j, d, a)',
         NEW n \in PlanNodes, NEW d \in Plan!Contexts, NEW a \in Nat, PromiseOf(n, d, a)
  PROVE  PromiseOf(n, d, a)'
  <1>1. graph \in SignalGraphs
    BY DEF PlanTypes
  <1>2. ~ Plan!Fails(n)'
    BY <1>1, PlanStays DEF PromiseOf
  <1>3. ASSUME NEW k \in DOMAIN graph[n].kids
        PROVE  Met(Plan!Kid(n, k), Given(n, k, <<d, a>>)[1], Given(n, k, <<d, a>>)[2])'
    <2>1. PICK m : m = Plan!Kid(n, k)
      OBVIOUS
    <2>2. PICK g : g = Given(n, k, <<d, a>>)
      OBVIOUS
    <2>3. g[2] \in Int
      <3>1. a \in Int
        OBVIOUS
      <3>2. g \in Plan!Contexts \X Int
        BY <1>1, <2>2, <3>1, GivenIs
      <3> QED
        BY <3>2
    <2>4. Met(m, g[1], g[2])
      BY <2>1, <2>2 DEF PromiseOf
    <2>5. Met(m, g[1], g[2])'
      BY <2>3, <2>4
    <2>6. m = Plan!Kid(n, k)' /\ g = Given(n, k, <<d, a>>)'
      BY <2>1, <2>2, GivenStays
    <2> QED
      BY <2>5, <2>6, Zenon DEF Met
  <1>4. \A k \in DOMAIN graph'[n].kids :
            Met(Plan!Kid(n, k), Given(n, k, <<d, a>>)[1], Given(n, k, <<d, a>>)[2])'
    BY <1>3, Zenon
  <1> QED
    BY <1>2, <1>4, Zenon DEF PromiseOf

LEMMA VisitKeepsMemo ==
  ASSUME PlanInv, NEW i, NEW acc, NEW c, NEW rest, VisitOf(i, acc, c, rest)
  PROVE  MemoIsClosed'
  <1>1. PlanTypes /\ MemoIsClosed
    BY DEF PlanInv
  <1>2. /\ graph \in SignalGraphs /\ graph' = graph /\ outcome = "planning"
        /\ i \in PlanNodes /\ acc \in Nat /\ c \in Plan!Contexts
        /\ visits' = AfterVisit(i, acc, c, rest) /\ outcome' # "planned"
        /\ outcome' # "refused" => ~ Plan!Fails(i)
    BY <1>1 DEF PlanTypes, VisitOf, AfterVisit
  <1>3. /\ Met(1, NoContext, 0)
        /\ \A b \in DOMAIN best : PromiseOf(b[1], b[2], best[b])
    BY <1>1, <1>2, MemoOfPromises
  <1>4. \A j, d : \A a \in Int : Met(j, d, a) => Met(j, d, a)'
    BY VisitKeepsMet
  <1>5. Met(1, NoContext, 0)'
    BY <1>3, <1>4
  <1>6. ASSUME ~ Plan!Fails(i)
        PROVE  PromiseOf(i, c, acc)'
    <2>1. ~ Plan!Fails(i)'
      BY <1>2, <1>6, PlanStays
    <2>2. ASSUME NEW k \in DOMAIN graph[i].kids
          PROVE  Met(Plan!Kid(i, k), Given(i, k, <<c, acc>>)[1], Given(i, k, <<c, acc>>)[2])'
      <3>1. PICK m : m = Plan!Kid(i, k)
        OBVIOUS
      <3>2. PICK g : g = Given(i, k, <<c, acc>>)
        OBVIOUS
      <3>3. <<m, g[2], g[1]>> \in OpenCalls(visits)'
        <4>1. OpenCalls(visits)' = OpenCalls(AfterVisit(i, acc, c, rest))
          BY <1>2 DEF OpenCalls
        <4>2. OpenCalls(AfterVisit(i, acc, c, rest)) = OpenCalls(rest) \cup CallsFor(i, <<c, acc>>)
          BY <1>1, <1>6, AfterVisitIs
        <4>3. <<m, g[2], g[1]>> \in CallsFor(i, <<c, acc>>)
          BY <3>1, <3>2 DEF CallsFor, CallFor
        <4> QED
          BY <4>1, <4>2, <4>3
      <3>4. g[2] \in Int
        <4>1. acc \in Int
          BY <1>2
        <4>2. g \in Plan!Contexts \X Int
          BY <1>2, <3>2, <4>1, GivenIs
        <4> QED
          BY <4>2
      <3>5. PICK v \in OpenCalls(visits)' : v = <<m, g[2], g[1]>>
        BY <3>3
      <3>6. v[1] = m /\ v[3] = g[1] /\ v[2] >= g[2]
        BY <3>4, <3>5
      <3>7. Met(m, g[1], g[2])'
        BY <3>6, Zenon DEF Met
      <3>8. m = Plan!Kid(i, k)' /\ g = Given(i, k, <<c, acc>>)'
        BY <1>2, <3>1, <3>2, GivenStays
      <3> QED
        BY <3>7, <3>8, Zenon DEF Met
    <2>3. \A k \in DOMAIN graph'[i].kids :
            Met(Plan!Kid(i, k), Given(i, k, <<c, acc>>)[1], Given(i, k, <<c, acc>>)[2])'
      BY <1>2, <2>2, Zenon
    <2> QED
      BY <2>1, <2>3, Zenon DEF PromiseOf
  <1>7. ASSUME NEW b \in DOMAIN best', ~ Plan!Fails(i)
        PROVE  PromiseOf(b[1], b[2], best[b])'
    <2>1. CASE b = <<i, c>>
      <3>1. b[1] = i /\ b[2] = c /\ (best')[b] = acc
        BY <1>1, <2>1, BestOfVisit
      <3> QED
        BY <1>6, <1>7, <3>1, Zenon
    <2>2. CASE b # <<i, c>>
      <3>1. b \in DOMAIN best /\ (best')[b] = best[b]
        BY <1>1, <2>2, BestElsewhere
      <3>2. PICK n \in PlanNodes, d \in Plan!Contexts, a \in Nat :
              n = b[1] /\ d = b[2] /\ a = best[b]
        BY <1>1, <3>1 DEF PlanTypes
      <3>3. PromiseOf(n, d, a)
        BY <1>3, <3>1, <3>2
      <3>4. PromiseOf(n, d, a)'
        BY <1>1, <1>2, <1>4, <3>3, PromiseKept
      <3> QED
        BY <3>1, <3>2, <3>4, Zenon
    <2> QED
      BY <2>1, <2>2
  <1>8. /\ outcome' # "refused" =>
              /\ Met(1, NoContext, 0)'
              /\ \A b \in DOMAIN best' : PromiseOf(b[1], b[2], best[b])'
        /\ outcome' = "planned" => visits' = <<>>
    BY <1>2, <1>5, <1>7
  <1> QED
    BY <1>8, Zenon DEF MemoIsClosed, PromiseOf

\* the carriers and the lines of a walk, and what is recorded in them
CarrierOfPath(k, n) ==
    \E i \in PlanNodes, c \in Plan!Contexts :
        Plan!Projection(i) /\ k = <<graph[i].at, c>> /\ <<c, n>> \in Plan!Occurrences[i]

LineOfPath(k, n) ==
    \E i \in PlanNodes :
        /\ Plan!Owned(i) /\ Plan!Kid(i, 1) = k[1] /\ n = Plan!LengthOf(i)
        /\ k[2] \in Plan!LoweredIn(i)

LEMMA PathsStay ==
  ASSUME graph \in SignalGraphs, UNCHANGED graph, NEW k, NEW n
  PROVE  /\ CarrierOfPath(k, n) => CarrierOfPath(k, n)'
         /\ LineOfPath(k, n) => LineOfPath(k, n)'
  <1>1. /\ \A i \in PlanNodes : /\ Plan!Occurrences[i]' = Plan!Occurrences[i]
                                /\ Plan!LoweredIn(i)' = Plan!LoweredIn(i)
        /\ \A i : /\ Plan!Projection(i)' = Plan!Projection(i)
                  /\ Plan!Owned(i)' = Plan!Owned(i)
                  /\ Plan!LengthOf(i)' = Plan!LengthOf(i)
        /\ \A i, m : Plan!Kid(i, m)' = Plan!Kid(i, m)
    BY PlanStays
  <1>2. ASSUME CarrierOfPath(k, n)
        PROVE  CarrierOfPath(k, n)'
    <2>1. PICK i \in PlanNodes, c \in Plan!Contexts :
            Plan!Projection(i) /\ k = <<graph[i].at, c>> /\ <<c, n>> \in Plan!Occurrences[i]
      BY <1>2 DEF CarrierOfPath
    <2>2. Plan!Projection(i)' /\ k = <<graph'[i].at, c>> /\ <<c, n>> \in Plan!Occurrences[i]'
      BY <1>1, <2>1
    <2>3. \E j \in PlanNodes, d \in Plan!Contexts :
            Plan!Projection(j)' /\ k = <<graph'[j].at, d>> /\ <<d, n>> \in Plan!Occurrences[j]'
      BY <2>2, Zenon
    <2> QED
      BY <2>3, Zenon DEF CarrierOfPath, Plan!Contexts
  <1>3. ASSUME LineOfPath(k, n)
        PROVE  LineOfPath(k, n)'
    <2>1. PICK i \in PlanNodes :
            /\ Plan!Owned(i) /\ Plan!Kid(i, 1) = k[1] /\ n = Plan!LengthOf(i)
            /\ k[2] \in Plan!LoweredIn(i)
      BY <1>3 DEF LineOfPath
    <2>2. /\ Plan!Owned(i)' /\ Plan!Kid(i, 1)' = k[1] /\ n = Plan!LengthOf(i)'
          /\ k[2] \in Plan!LoweredIn(i)'
      BY <1>1, <2>1
    <2> QED
      BY <2>2, Zenon DEF LineOfPath
  <1> QED
    BY <1>2, <1>3, Zenon

LEMMA CarriersAreOfPaths ==
  OutputsInv <=>
    /\ \A k \in DOMAIN outputs : CarrierOfPath(k, outputs[k])
    /\ \A b \in DOMAIN best :
          best[b] > 0 /\ Plan!Projection(b[1]) =>
              /\ <<graph[b[1]].at, b[2]>> \in DOMAIN outputs
              /\ outputs[<<graph[b[1]].at, b[2]>>] >= best[b]
  BY Zenon DEF OutputsInv, CarrierOfPath

LEMMA LinesAreOfPaths ==
  PlannedLines <=>
    /\ \A k \in DOMAIN lines : LineOfPath(k, lines[k])
    /\ \A b \in DOMAIN best :
          Plan!Owned(b[1]) =>
              /\ <<Plan!Kid(b[1], 1), b[2]>> \in DOMAIN lines
              /\ lines[<<Plan!Kid(b[1], 1), b[2]>>] >= Plan!LengthOf(b[1])
  <1> DEFINE L(k) == \E i \in PlanNodes :
                       /\ Plan!Owned(i) /\ Plan!Kid(i, 1) = k[1] /\ lines[k] = Plan!LengthOf(i)
                       /\ k[2] \in Plan!LoweredIn(i)
  <1>1. \A k : LineOfPath(k, lines[k]) <=> L(k)
    BY Zenon DEF LineOfPath
  <1> QED
    BY <1>1, Zenon DEF PlannedLines

LEMMA VisitKeepsOutputs ==
  ASSUME PlanInv, NEW i, NEW acc, NEW c, NEW rest, VisitOf(i, acc, c, rest)
  PROVE  OutputsInv'
  <1>1. PlanTypes /\ OutputsInv
    BY DEF PlanInv
  <1>2. /\ graph \in SignalGraphs /\ graph' = graph /\ i \in PlanNodes /\ acc \in Nat
        /\ c \in Plan!Contexts
    BY <1>1 DEF PlanTypes, VisitOf
  <1>3. /\ \A k \in DOMAIN outputs' : (outputs')[k] \in Nat \ {0}
        /\ \A k \in DOMAIN outputs : k \in DOMAIN outputs' /\ (outputs')[k] >= outputs[k]
        /\ \A k \in DOMAIN outputs' :
               \/ k \in DOMAIN outputs /\ (outputs')[k] = outputs[k]
               \/ Plan!Projection(i) /\ k = <<graph[i].at, c>> /\ (outputs')[k] = acc
        /\ acc > 0 /\ Plan!Projection(i) =>
               /\ <<graph[i].at, c>> \in DOMAIN outputs'
               /\ (outputs')[<<graph[i].at, c>>] >= acc
    BY <1>1, OutputsOfVisit
  <1>4. ASSUME NEW k \in DOMAIN outputs'
        PROVE  CarrierOfPath(k, outputs[k])'
    <2>1. PICK n : n = (outputs')[k]
      OBVIOUS
    <2>2. CarrierOfPath(k, n)
      <3>1. CASE k \in DOMAIN outputs /\ (outputs')[k] = outputs[k]
        BY <1>1, <2>1, <3>1, CarriersAreOfPaths
      <3>2. CASE Plan!Projection(i) /\ k = <<graph[i].at, c>> /\ (outputs')[k] = acc
        <4>1. <<c, acc>> \in Plan!Occurrences[i]
          BY VisitedIsOfPath
        <4> QED
          BY <1>2, <2>1, <3>2, <4>1, Zenon DEF CarrierOfPath
      <3> QED
        BY <1>3, <3>1, <3>2
    <2>3. CarrierOfPath(k, n)'
      BY <1>2, <2>2, PathsStay
    <2> QED
      BY <2>1, <2>3, Zenon DEF CarrierOfPath, Plan!Contexts
  <1>5. ASSUME NEW b \in DOMAIN best', (best')[b] > 0, Plan!Projection(b[1])
        PROVE  /\ <<graph[b[1]].at, b[2]>> \in DOMAIN outputs'
               /\ (outputs')[<<graph[b[1]].at, b[2]>>] >= (best')[b]
    <2>1. CASE b = <<i, c>>
      <3>1. (best')[b] = acc /\ b[1] = i /\ b[2] = c
        BY <1>1, <2>1, BestOfVisit
      <3> QED
        BY <1>3, <1>5, <3>1
    <2>2. CASE b # <<i, c>>
      <3>1. b \in DOMAIN best /\ (best')[b] = best[b]
        BY <1>1, <2>2, BestElsewhere
      <3>2. PICK key : key = <<graph[b[1]].at, b[2]>>
        OBVIOUS
      <3>3. key \in DOMAIN outputs /\ outputs[key] >= best[b]
        BY <1>1, <1>5, <3>1, <3>2 DEF OutputsInv
      <3>4. key \in DOMAIN outputs' /\ (outputs')[key] >= outputs[key] /\ (outputs')[key] \in Nat
        BY <1>3, <3>3
      <3>5. outputs[key] \in Nat /\ best[b] \in Nat
        BY <1>1, <3>1, <3>3 DEF PlanTypes
      <3>6. (outputs')[key] >= (best')[b]
        BY <3>1, <3>3, <3>4, <3>5
      <3> QED
        BY <3>2, <3>4, <3>6
    <2> QED
      BY <2>1, <2>2
  <1>6. \A j : Plan!Projection(j)' = Plan!Projection(j)
    BY <1>2, PlanStays
  <1>7. /\ \A k \in DOMAIN outputs' : CarrierOfPath(k, outputs[k])'
        /\ \A b \in DOMAIN best' :
              (best')[b] > 0 /\ Plan!Projection(b[1])' =>
                  /\ <<graph'[b[1]].at, b[2]>> \in DOMAIN outputs'
                  /\ (outputs')[<<graph'[b[1]].at, b[2]>>] >= (best')[b]
    BY <1>2, <1>4, <1>5, <1>6
  <1> QED
    BY <1>7, Zenon DEF OutputsInv, CarrierOfPath

LEMMA VisitKeepsLines ==
  ASSUME PlanInv, NEW i, NEW acc, NEW c, NEW rest, VisitOf(i, acc, c, rest)
  PROVE  PlannedLines'
  <1>1. PlanTypes /\ PlannedLines
    BY DEF PlanInv
  <1>2. /\ graph \in SignalGraphs /\ graph' = graph /\ i \in PlanNodes /\ acc \in Nat
        /\ c \in Plan!Contexts
    BY <1>1 DEF PlanTypes, VisitOf
  <1>3. /\ \A k \in DOMAIN lines' : (lines')[k] \in Nat \ {0}
        /\ \A k \in DOMAIN lines : k \in DOMAIN lines' /\ (lines')[k] >= lines[k]
        /\ \A k \in DOMAIN lines' :
               \/ k \in DOMAIN lines /\ (lines')[k] = lines[k]
               \/ /\ Plan!Owned(i) /\ k = <<Plan!Kid(i, 1), c>>
                  /\ (lines')[k] = Plan!LengthOf(i)
        /\ Plan!Owned(i) /\ <<i, c>> \notin DOMAIN best =>
               /\ <<Plan!Kid(i, 1), c>> \in DOMAIN lines'
               /\ (lines')[<<Plan!Kid(i, 1), c>>] >= Plan!LengthOf(i)
    BY <1>1, LinesOfVisit
  <1>4. ASSUME NEW k \in DOMAIN lines'
        PROVE  LineOfPath(k, lines[k])'
    <2>1. PICK n : n = (lines')[k]
      OBVIOUS
    <2>2. LineOfPath(k, n)
      <3>1. CASE k \in DOMAIN lines /\ (lines')[k] = lines[k]
        BY <1>1, <2>1, <3>1, LinesAreOfPaths
      <3>2. CASE Plan!Owned(i) /\ k = <<Plan!Kid(i, 1), c>> /\ (lines')[k] = Plan!LengthOf(i)
        <4>1. c \in Plan!LoweredIn(i)
          BY VisitedIsOfPath
        <4>2. k[1] = Plan!Kid(i, 1) /\ k[2] = c
          BY <3>2
        <4> QED
          BY <1>2, <2>1, <3>2, <4>1, <4>2 DEF LineOfPath
      <3> QED
        BY <1>3, <3>1, <3>2
    <2>3. LineOfPath(k, n)'
      BY <1>2, <2>2, PathsStay
    <2> QED
      BY <2>1, <2>3, Zenon DEF LineOfPath
  <1>5. ASSUME NEW b \in DOMAIN best', Plan!Owned(b[1])
        PROVE  /\ <<Plan!Kid(b[1], 1), b[2]>> \in DOMAIN lines'
               /\ (lines')[<<Plan!Kid(b[1], 1), b[2]>>] >= Plan!LengthOf(b[1])
    <2>1. CASE b = <<i, c>> /\ b \notin DOMAIN best
      <3>1. b[1] = i /\ b[2] = c
        BY <2>1
      <3> QED
        BY <1>3, <1>5, <2>1, <3>1
    <2>2. CASE b \in DOMAIN best
      <3>2. PICK key : key = <<Plan!Kid(b[1], 1), b[2]>>
        OBVIOUS
      <3>3. key \in DOMAIN lines /\ lines[key] >= Plan!LengthOf(b[1])
        BY <1>1, <1>5, <2>2, <3>2 DEF PlannedLines
      <3>4. key \in DOMAIN lines' /\ (lines')[key] >= lines[key] /\ (lines')[key] \in Nat
        BY <1>3, <3>3
      <3>5. lines[key] \in Nat /\ Plan!LengthOf(b[1]) \in Nat
        <4>1. b[1] \in PlanNodes
          BY <1>1, <2>2 DEF PlanTypes
        <4>2. PICK n \in PlanNodes : n = b[1]
          BY <4>1
        <4>3. Plan!LengthOf(n) \in Nat
          BY <1>2, <1>5, <4>2, OwnedIs
        <4> QED
          BY <1>1, <3>3, <4>2, <4>3 DEF PlanTypes
      <3>6. (lines')[key] >= Plan!LengthOf(b[1])
        BY <3>3, <3>4, <3>5
      <3> QED
        BY <3>2, <3>4, <3>6
    <2>3. b = <<i, c>> \/ b \in DOMAIN best
      BY <1>1, BestElsewhere
    <2> QED
      BY <2>1, <2>2, <2>3
  <1>6. /\ \A j : Plan!Owned(j)' = Plan!Owned(j) /\ Plan!LengthOf(j)' = Plan!LengthOf(j)
        /\ \A j, k : Plan!Kid(j, k)' = Plan!Kid(j, k)
    BY <1>2, PlanStays
  <1>7. /\ \A k \in DOMAIN lines' : LineOfPath(k, lines[k])'
        /\ \A b \in DOMAIN best' :
              Plan!Owned(b[1])' =>
                  /\ <<Plan!Kid(b[1], 1)', b[2]>> \in DOMAIN lines'
                  /\ (lines')[<<Plan!Kid(b[1], 1)', b[2]>>] >= Plan!LengthOf(b[1])'
    BY <1>4, <1>5, <1>6
  <1> QED
    <2>1. (/\ \A k \in DOMAIN lines : LineOfPath(k, lines[k])
           /\ \A b \in DOMAIN best :
                 Plan!Owned(b[1]) =>
                     /\ <<Plan!Kid(b[1], 1), b[2]>> \in DOMAIN lines
                     /\ lines[<<Plan!Kid(b[1], 1), b[2]>>] >= Plan!LengthOf(b[1]))'
      BY <1>7, Zenon
    <2>2. (PlannedLines <=>
             /\ \A k \in DOMAIN lines : LineOfPath(k, lines[k])
             /\ \A b \in DOMAIN best :
                   Plan!Owned(b[1]) =>
                       /\ <<Plan!Kid(b[1], 1), b[2]>> \in DOMAIN lines
                       /\ lines[<<Plan!Kid(b[1], 1), b[2]>>] >= Plan!LengthOf(b[1]))'
      BY LinesAreOfPaths, PTL
    <2> QED
      BY <2>1, <2>2, Zenon

LEMMA VisitStep ==
  ASSUME PlanInv, Plan!Visit
  PROVE  PlanInv'
  <1>1. PICK i, acc, c, rest : VisitOf(i, acc, c, rest)
    BY VisitIs DEF PlanInv
  <1>2. PlanTypes' /\ VisitsAreOfPaths' /\ MemoIsClosed' /\ OutputsInv' /\ PlannedLines'
    BY <1>1, VisitKeepsTypes, VisitKeepsPaths, VisitKeepsMemo, VisitKeepsOutputs, VisitKeepsLines
  <1> QED
    BY <1>2, Zenon DEF PlanInv

\* the walk says no more when it ends
LEMMA WalkStays ==
  ASSUME PlanInv, UNCHANGED <<graph, visits, best, lines, outputs>>,
         outcome' = outcome \/ (outcome = "planning" /\ outcome' = "planned" /\ visits = <<>>)
  PROVE  PlanInv'
  <1>1. PlanTypes /\ VisitsAreOfPaths /\ MemoIsClosed /\ OutputsInv /\ PlannedLines
    BY DEF PlanInv
  <1>2. /\ graph \in SignalGraphs /\ graph' = graph /\ best' = best /\ visits' = visits
        /\ lines' = lines /\ outputs' = outputs
    BY <1>1 DEF PlanTypes
  <1>3. PlanTypes'
    <2>1. outcome' \in {"planning", "planned", "refused"}
      BY <1>1 DEF PlanTypes
    <2> QED
      BY <1>1, <1>2, <2>1, Zenon DEF PlanTypes, CallsOfPlan, Plan!Contexts
  <1>4. OutputsInv' /\ PlannedLines'
    BY <1>1, <1>2, TablesStay DEF PlanTypes
  <1>5. OpenCalls(visits)' = OpenCalls(visits)
    BY <1>2 DEF OpenCalls
  <1>6. VisitsAreOfPaths'
    <2>1. /\ \A i \in PlanNodes : Plan!Occurrences[i]' = Plan!Occurrences[i]
          /\ Plan!Unbounded' = Plan!Unbounded
      BY <1>2, PlanStays
    <2>2. \A v \in OpenCalls(visits) : v[1] \in PlanNodes
      BY <1>1 DEF PlanTypes, OpenCalls, CallsOfPlan
    <2>3. \A b \in DOMAIN best : b[1] \in PlanNodes
      BY <1>1 DEF PlanTypes
    <2>4. /\ \A v \in OpenCalls(visits) : <<v[3], v[2]>> \in Plan!Occurrences[v[1]]'
          /\ \A b \in DOMAIN best : <<b[2], best[b]>> \in Plan!Occurrences[b[1]]'
      BY <1>1, <2>1, <2>2, <2>3 DEF VisitsAreOfPaths
    <2>5. outcome' = "refused" => Plan!Unbounded'
      BY <1>1, <2>1 DEF VisitsAreOfPaths
    <2>6. /\ \A v \in OpenCalls(visits)' : <<v[3], v[2]>> \in Plan!Occurrences[v[1]]'
          /\ \A b \in DOMAIN best' : <<b[2], (best')[b]>> \in Plan!Occurrences[b[1]]'
      BY <1>2, <1>5, <2>4
    <2> QED
      BY <2>5, <2>6, Zenon DEF VisitsAreOfPaths
  <1>7. MemoIsClosed'
    <2>1. \A j, d, a : Met(j, d, a)' <=> Met(j, d, a)
      BY <1>2, <1>5, Zenon DEF Met
    <2>2. ASSUME outcome' # "refused", NEW b \in DOMAIN best
          PROVE  PromiseOf(b[1], b[2], best[b])'
      <3>1. PromiseOf(b[1], b[2], best[b])
        BY <1>1, <2>2, MemoOfPromises
      <3>2. PICK n \in PlanNodes, d \in Plan!Contexts, a \in Nat :
              n = b[1] /\ d = b[2] /\ a = best[b]
        BY <1>1 DEF PlanTypes
      <3>3. PromiseOf(n, d, a)
        BY <3>1, <3>2
      <3>4. PromiseOf(n, d, a)'
        BY <1>1, <1>2, <2>1, <3>3, PromiseKept
      <3> QED
        BY <1>2, <3>2, <3>4, Zenon
    <2>3. outcome' # "refused" => Met(1, NoContext, 0)'
      BY <1>1, <2>1 DEF MemoIsClosed
    <2>4. outcome' = "planned" => visits' = <<>>
      BY <1>1, <1>2 DEF MemoIsClosed
    <2>5. outcome' # "refused" => \A b \in DOMAIN best' : PromiseOf(b[1], b[2], best[b])'
      BY <1>2, <2>2
    <2> QED
      BY <2>3, <2>4, <2>5, Zenon DEF MemoIsClosed, PromiseOf
  <1> QED
    BY <1>3, <1>4, <1>6, <1>7 DEF PlanInv

LEMMA PlanStep ==
  ASSUME PlanInv, Plan!Next
  PROVE  PlanInv'
  <1>1. CASE Plan!Skip
    BY <1>1, SkipStep
  <1>2. CASE Plan!Visit
    BY <1>2, VisitStep
  <1>3. CASE Plan!Finish
    <2>1. /\ UNCHANGED <<graph, visits, best, lines, outputs>>
          /\ outcome = "planning" /\ outcome' = "planned" /\ visits = <<>>
      BY <1>3 DEF Plan!Finish
    <2> QED
      BY <2>1, WalkStays
  <1> QED
    BY <1>1, <1>2, <1>3 DEF Plan!Next

\* a visit recorded, or a longer one
Recorded(i, x) ==
    /\ x \in Plan!Contexts \X Nat
    /\ <<i, x[1]>> \in DOMAIN best /\ best[<<i, x[1]>>] >= x[2]

LEMMA MetIsRecorded ==
  ASSUME PlanInv, outcome = "planned", NEW j, NEW d \in Plan!Contexts, NEW a \in Nat, Met(j, d, a)
  PROVE  Recorded(j, <<d, a>>)
  <1>1. visits = <<>>
    BY DEF PlanInv, MemoIsClosed
  <1>2. OpenCalls(visits) = {}
    BY <1>1, NoCalls
  <1>3. <<j, d>> \in DOMAIN best /\ best[<<j, d>>] >= a
    BY <1>2 DEF Met
  <1> QED
    BY <1>3 DEF Recorded

(* At the end of the walk the memo holds every path.                          *)
LEMMA PathsAreRecorded ==
  ASSUME PlanInv, outcome = "planned"
  PROVE  \A j \in PlanNodes : \A x \in Plan!Occurrences[j] : Recorded(j, x)
  <1> DEFINE B == {j \in PlanNodes : \E x \in Plan!Occurrences[j] : ~ Recorded(j, x)}
  <1>1. PlanTypes /\ MemoIsClosed /\ graph \in SignalGraphs /\ outcome # "refused"
    BY DEF PlanInv, PlanTypes
  <1>2. B = {}
    <2> SUFFICES ASSUME B # {} PROVE FALSE
      OBVIOUS
    <2>1. PICK m \in B : \A n \in B : m <= n
      <3>1. B \in SUBSET Nat
        BY <1>1, GraphShape
      <3> HIDE DEF B
      <3> QED
        BY <3>1, LeastNatural
    <2>2. m \in PlanNodes /\ m \in Nat
      BY <1>1, GraphShape
    <2>3. PICK x \in Plan!Occurrences[m] : ~ Recorded(m, x)
      OBVIOUS
    <2>4. \/ m = 1 /\ x = <<NoContext, 0>>
          \/ \E i \in PlanNodes : \E k \in DOMAIN graph[i].kids : \E u \in Plan!Occurrences[i] :
                i < m /\ Plan!Kid(i, k) = m /\ x = Given(i, k, u)
      BY <1>1, <2>2, OccurrenceRule
    <2>5. CASE m = 1 /\ x = <<NoContext, 0>>
      <3>1. Met(1, NoContext, 0)
        BY <1>1 DEF MemoIsClosed
      <3>2. NoContext \in Plan!Contexts
        BY <1>1, GraphShape
      <3> QED
        BY <2>3, <2>5, <3>1, <3>2, MetIsRecorded
    <2>6. CASE \E i \in PlanNodes : \E k \in DOMAIN graph[i].kids : \E u \in Plan!Occurrences[i] :
                  i < m /\ Plan!Kid(i, k) = m /\ x = Given(i, k, u)
      <3>1. PICK i \in PlanNodes : \E k \in DOMAIN graph[i].kids : \E u \in Plan!Occurrences[i] :
                  i < m /\ Plan!Kid(i, k) = m /\ x = Given(i, k, u)
        BY <2>6
      <3>2. PICK k \in DOMAIN graph[i].kids, u \in Plan!Occurrences[i] :
                  i < m /\ Plan!Kid(i, k) = m /\ x = Given(i, k, u)
        BY <3>1
      <3>3. Recorded(i, u)
        <4>1. i \notin B
          <5>1. i \in Nat /\ ~ (m <= i)
            BY <1>1, <2>2, <3>2, GraphShape
          <5> HIDE DEF B
          <5> QED
            BY <2>1, <5>1
        <4> QED
          BY <4>1
      <3>4. PICK d \in Plan!Contexts, a \in Nat : u = <<d, a>>
        BY <3>3 DEF Recorded
      <3>5. PICK b \in DOMAIN best : b = <<i, d>> /\ best[b] >= a
        BY <3>3, <3>4 DEF Recorded
      <3>6. PICK n \in Nat : n = best[b] /\ n >= a
        BY <1>1, <3>5 DEF PlanTypes
      <3>7. PromiseOf(i, d, n)
        <4>1. PromiseOf(b[1], b[2], best[b])
          BY <1>1, <3>5, MemoOfPromises
        <4> QED
          BY <3>5, <3>6, <4>1
      <3>8. ~ Plan!Fails(i) /\ Met(m, Given(i, k, <<d, n>>)[1], Given(i, k, <<d, n>>)[2])
        BY <3>2, <3>7 DEF PromiseOf
      <3>9. /\ Plan!RegionOf(i, d) \in Plan!Contexts /\ Plan!DelayOf(i, k) \in Nat
            /\ Given(i, k, <<d, a>>) = <<Plan!RegionOf(i, d), IF Plan!Carries(i, k) THEN a + Plan!DelayOf(i, k) ELSE 0>>
            /\ Given(i, k, <<d, n>>) = <<Plan!RegionOf(i, d), IF Plan!Carries(i, k) THEN n + Plan!DelayOf(i, k) ELSE 0>>
        BY <1>1, <3>8, GivenIs
      <3>10. PICK e \in Plan!Contexts, y \in Nat, z \in Nat :
               /\ Given(i, k, <<d, a>>) = <<e, y>> /\ Given(i, k, <<d, n>>) = <<e, z>> /\ z >= y
        BY <3>6, <3>9
      <3>11. Recorded(m, <<e, z>>)
        BY <3>8, <3>10, MetIsRecorded
      <3>12. best[<<m, e>>] \in Nat
        BY <1>1, <3>11 DEF Recorded, PlanTypes
      <3>13. Recorded(m, <<e, y>>)
        BY <3>10, <3>11, <3>12 DEF Recorded
      <3> QED
        BY <2>3, <3>2, <3>4, <3>10, <3>13
    <2> QED
      BY <2>4, <2>5, <2>6
  <1> QED
    BY <1>2

LEMMA PlannedIsBounded ==
  ASSUME PlanInv
  PROVE  Plan!RefusesUnbounded
  <1>1. outcome = "refused" => Plan!Unbounded
    BY DEF PlanInv, VisitsAreOfPaths
  <1>2. ASSUME outcome = "planned", Plan!Unbounded
        PROVE  FALSE
    <2>1. PICK i \in PlanNodes : Plan!Fails(i) /\ Plan!LoweredIn(i) # {}
      BY <1>2 DEF Plan!Unbounded, Plan!Fails
    <2>2. PICK u \in Plan!Occurrences[i] : TRUE
      BY <2>1 DEF Plan!LoweredIn
    <2>3. Recorded(i, u)
      BY <1>2, PathsAreRecorded
    <2>4. PICK b \in DOMAIN best : b = <<i, u[1]>>
      BY <2>3 DEF Recorded
    <2>5. PromiseOf(b[1], b[2], best[b])
      BY <1>2, MemoOfPromises DEF PlanInv
    <2> QED
      BY <2>1, <2>4, <2>5 DEF PromiseOf
  <1> QED
    BY <1>1, <1>2 DEF Plan!RefusesUnbounded

LEMMA PlanTyped ==
  ASSUME PlanInv
  PROVE  Plan!TypeOK
  <1>1. PlanTypes /\ OutputsInv
    BY DEF PlanInv
  <1>2. \A n \in DOMAIN visits : visits[n] \in PlanNodes \X Nat \X Plan!Contexts
    <2>1. visits \in Seq(CallsOfPlan)
      BY <1>1 DEF PlanTypes
    <2>2. DOMAIN visits = 1 .. Len(visits) /\ \A n \in 1 .. Len(visits) : visits[n] \in CallsOfPlan
      BY <2>1
    <2> QED
      BY <2>2 DEF CallsOfPlan
  <1>3. \A k \in DOMAIN outputs : outputs[k] \in Nat \ {0} /\ k[2] \in Plan!Contexts
    <2> SUFFICES ASSUME NEW k \in DOMAIN outputs
                 PROVE  outputs[k] \in Nat \ {0} /\ k[2] \in Plan!Contexts
      OBVIOUS
    <2>1. PICK i \in PlanNodes, c \in Plan!Contexts : k = <<graph[i].at, c>>
      BY <1>1, Zenon DEF OutputsInv
    <2>2. k[2] = c
      BY <2>1
    <2> QED
      BY <1>1, <2>2 DEF PlanTypes
  <1> QED
    BY <1>1, <1>2, <1>3 DEF Plan!TypeOK, PlanTypes

(* What reaches the head of a chain reaches its end, later by what the chain  *)
(* delays and in the context the chain leaves it in.                          *)
ReachesEnd(v, c, a) ==
    <<Plan!EndContext(v, c), a + Plan!Chain[v].implicit>> \in Plan!Occurrences[Plan!Chain[v].end]

LEMMA EndIsReached ==
  ASSUME graph \in SignalGraphs
  PROVE  \A v \in PlanNodes : \A c \in Plan!Contexts : \A a \in Int :
            <<c, a>> \in Plan!Occurrences[v] => ReachesEnd(v, c, a)
  <1> DEFINE B == {v \in PlanNodes : \E c \in Plan!Contexts : \E a \in Int :
                      <<c, a>> \in Plan!Occurrences[v] /\ ~ ReachesEnd(v, c, a)}
  <1>1. B = {}
    <2> SUFFICES ASSUME B # {} PROVE FALSE
      OBVIOUS
    <2>1. PICK m \in B : \A n \in B : m >= n
      <3>1. B \in SUBSET Nat /\ B # {} /\ IsFiniteSet(B)
        BY GraphShape, FS_Subset
      <3> HIDE DEF B
      <3> QED
        BY <3>1, Maximum
    <2>2. m \in PlanNodes /\ m \in Nat
      BY GraphShape
    <2>3. PICK c \in Plan!Contexts, a \in Int :
            <<c, a>> \in Plan!Occurrences[m] /\ ~ ReachesEnd(m, c, a)
      BY <2>1
    <2>4. CASE ~ InChain(m)
      <3>1. Plan!Chain[m] = [end |-> m, implicit |-> 0, domain |-> NoContext]
        BY <2>2, <2>4, ChainRule, ChainEnds
      <3>2. Plan!EndContext(m, c) = c /\ a + Plan!Chain[m].implicit = a /\ Plan!Chain[m].end = m
        BY <3>1 DEF Plan!EndContext
      <3> QED
        BY <2>3, <3>2 DEF ReachesEnd
    <2>5. CASE InChain(m)
      <3>1. PICK w \in PlanNodes : w = Plan!Kid(m, 1) /\ w > m
        BY <2>2, <2>5, KidOfChain
      <3>2. 1 \in DOMAIN graph[m].kids
        BY <2>2, <2>5, KidOfChain
      <3>3. PICK r \in Chains : r = Plan!Chain[w]
        BY ChainRule
      <3>4. Plan!Chain[m] =
              [end |-> r.end,
               implicit |-> r.implicit + IF graph[m].op = "delay1" THEN 1 ELSE 0,
               domain |-> IF graph[m].op = "clocked" /\ r.domain = NoContext
                          THEN graph[m].at ELSE r.domain]
        BY <2>2, <2>5, <3>1, <3>3, ChainRule, ChainGoesOn
      <3>5. w \notin B
        <4>1. w \in Nat /\ ~ (m >= w)
          BY <2>2, <3>1, GraphShape
        <4> HIDE DEF B
        <4> QED
          BY <2>1, <4>1
      <3>6. \A d \in Plan!Contexts : \A b \in Int :
               <<d, b>> \in Plan!Occurrences[w] => ReachesEnd(w, d, b)
        BY <3>5
      <3>7. Given(m, 1, <<c, a>>) \in Plan!Occurrences[w]
        <4>1. PICK u \in Plan!Occurrences[m] : u = <<c, a>>
          BY <2>3
        <4>2. PICK x : x = Given(m, 1, u)
          OBVIOUS
        <4>3. \E i \in PlanNodes : \E k \in DOMAIN graph[i].kids : \E v \in Plan!Occurrences[i] :
                 i < w /\ Plan!Kid(i, k) = w /\ x = Given(i, k, v)
          <5>1. m < w
            BY <2>2, <3>1, GraphShape
          <5> QED
            BY <2>2, <3>1, <3>2, <4>1, <4>2, <5>1, Zenon
        <4>4. x \in Plan!Occurrences[w]
          BY <4>3, OccurrenceRule
        <4> QED
          BY <4>1, <4>2, <4>4
      <3>8. r.implicit \in Nat
        BY <3>3 DEF Chains
      <3>9. CASE graph[m].op = "delay1"
        <4>1. Given(m, 1, <<c, a>>) = <<c, a + 1>>
          BY <3>9 DEF Given, Plan!RegionOf, Plan!Carries, Plan!DelayOf
        <4>2. a + 1 \in Int
          OBVIOUS
        <4>3. ReachesEnd(w, c, a + 1)
          BY <3>6, <3>7, <4>1, <4>2
        <4>4. Plan!EndContext(m, c) = Plan!EndContext(w, c)
          BY <3>3, <3>4, <3>9 DEF Plan!EndContext
        <4>5. (a + 1) + Plan!Chain[w].implicit = a + Plan!Chain[m].implicit
          BY <3>3, <3>4, <3>8, <3>9
        <4>6. Plan!Chain[w].end = Plan!Chain[m].end
          BY <3>3, <3>4
        <4>7. ReachesEnd(m, c, a)
          BY <4>3, <4>4, <4>5, <4>6 DEF ReachesEnd
        <4> QED
          BY <2>3, <4>7
      <3>10. CASE graph[m].op = "clocked"
        <4>0. PICK d \in Plan!Contexts : d = graph[m].at /\ d # NoContext
          BY <2>2, <3>10, GraphShape
        <4>1. Given(m, 1, <<c, a>>) = <<d, a>>
          BY <3>10, <4>0 DEF Given, Plan!RegionOf, Plan!Carries, Plan!DelayOf
        <4>3. ReachesEnd(w, d, a)
          BY <3>6, <3>7, <4>1
        <4>4. Plan!EndContext(m, c) = Plan!EndContext(w, d)
          BY <3>3, <3>4, <3>10, <4>0 DEF Plan!EndContext
        <4>5. a + Plan!Chain[w].implicit = a + Plan!Chain[m].implicit
          BY <3>3, <3>4, <3>8, <3>10
        <4>6. Plan!Chain[w].end = Plan!Chain[m].end
          BY <3>3, <3>4
        <4>7. ReachesEnd(m, c, a)
          BY <4>3, <4>4, <4>5, <4>6 DEF ReachesEnd
        <4> QED
          BY <2>3, <4>7
      <3> QED
        BY <2>5, <3>9, <3>10 DEF InChain
    <2> QED
      BY <2>4, <2>5
  <1> QED
    BY <1>1

\* what asks for a line, and how long
LEMMA RequestIs ==
  ASSUME graph \in SignalGraphs, NEW i \in PlanNodes
  PROVE  /\ \A n : n \in Plan!Requests(i) =>
               /\ n = Plan!LengthOf(i) /\ n \in Nat \ {0} /\ n = Plan!DelayOf(i, 1)
               /\ graph[i].op \in {"delay", "delay1"}
               /\ 1 \in DOMAIN graph[i].kids /\ Plan!Kid(i, 1) \in PlanNodes
               /\ Plan!Owned(i) <=> ~ Plan!OnRecursion(Plan!Kid(i, 1))
         /\ Plan!Owned(i) => Plan!LengthOf(i) \in Plan!Requests(i)
  <1>1. /\ graph[i].op \in {"delay", "prefix"} => DOMAIN graph[i].kids = {1, 2}
        /\ graph[i].op \in {"delay1", "clocked", "tempvar"} => DOMAIN graph[i].kids = {1}
        /\ graph[i].op = "delay" => graph[i].at \in Nat \cup {-1}
        /\ \A k \in DOMAIN graph[i].kids : Plan!Kid(i, k) \in PlanNodes
    BY GraphShape
  <1>2. Plan!Owned(i) => Plan!LengthOf(i) \in Plan!Requests(i)
    BY DEF Plan!Owned, Plan!Requests
  <1>3. ASSUME NEW n \in Plan!Requests(i)
        PROVE  /\ n = Plan!LengthOf(i) /\ n \in Nat \ {0} /\ n = Plan!DelayOf(i, 1)
               /\ graph[i].op \in {"delay", "delay1"}
               /\ 1 \in DOMAIN graph[i].kids /\ Plan!Kid(i, 1) \in PlanNodes
               /\ Plan!Owned(i) <=> ~ Plan!OnRecursion(Plan!Kid(i, 1))
    <2>1. n = Plan!LengthOf(i) /\ ((graph[i].op = "delay" /\ graph[i].at > 0)
                                     \/ (graph[i].op = "delay1" /\ PlanCopyDelay >= 1))
      BY DEF Plan!Requests
    <2>2. CASE graph[i].op = "delay" /\ graph[i].at > 0
      <3>1. 1 \in DOMAIN graph[i].kids /\ graph[i].at \in Nat \ {0}
        BY <1>1, <2>2
      <3>2. n = graph[i].at /\ n = Plan!DelayOf(i, 1)
        BY <2>1, <2>2 DEF Plan!LengthOf, Plan!DelayOf
      <3> QED
        BY <1>1, <2>1, <2>2, <3>1, <3>2 DEF Plan!Owned
    <2>3. CASE graph[i].op = "delay1" /\ PlanCopyDelay >= 1
      <3>1. 1 \in DOMAIN graph[i].kids
        BY <1>1, <2>3
      <3>2. n = 1 /\ n = Plan!DelayOf(i, 1)
        BY <2>1, <2>3 DEF Plan!LengthOf, Plan!DelayOf
      <3> QED
        BY <1>1, <2>1, <2>3, <3>1, <3>2 DEF Plan!Owned
    <2> QED
      BY <2>1, <2>2, <2>3
  <1> QED
    BY <1>2, <1>3

LEMMA ReadsAreServed ==
  ASSUME PlanInv
  PROVE  Plan!EveryReadIsServed
  <1> SUFFICES ASSUME outcome = "planned", NEW i \in PlanNodes, NEW c \in Plan!LoweredIn(i),
                      NEW n \in Plan!Requests(i)
               PROVE  LET value == Plan!Kid(i, 1)
                          carried == <<graph[Plan!Chain[value].end].at, Plan!EndContext(value, c)>>
                      IN IF Plan!OnRecursion(value)
                         THEN carried \in DOMAIN outputs
                              /\ outputs[carried] >= n + Plan!Chain[value].implicit
                         ELSE <<value, c>> \in DOMAIN lines /\ lines[<<value, c>>] >= n
    BY Zenon DEF Plan!EveryReadIsServed
  <1>1. PlanTypes /\ OutputsInv /\ PlannedLines /\ graph \in SignalGraphs
    BY DEF PlanInv, PlanTypes
  <1>2. PICK value \in PlanNodes : value = Plan!Kid(i, 1)
    BY <1>1, RequestIs
  <1>3. /\ n = Plan!LengthOf(i) /\ n \in Nat \ {0} /\ n = Plan!DelayOf(i, 1)
        /\ graph[i].op \in {"delay", "delay1"} /\ 1 \in DOMAIN graph[i].kids
        /\ Plan!Owned(i) <=> ~ Plan!OnRecursion(value)
    BY <1>1, <1>2, RequestIs
  <1>4. PICK u \in Plan!Occurrences[i] : u[1] = c
    BY Zenon DEF Plan!LoweredIn
  <1>5. Recorded(i, u)
    BY PathsAreRecorded
  <1>6. PICK a \in Nat : u = <<c, a>> /\ c \in Plan!Contexts
    BY <1>4, <1>5 DEF Recorded
  <1>7. CASE ~ Plan!OnRecursion(value)
    <2>1. PICK b \in DOMAIN best : b = <<i, c>>
      BY <1>4, <1>5 DEF Recorded
    <2>2. b[1] = i /\ b[2] = c
      BY <2>1
    <2>3. <<value, c>> \in DOMAIN lines /\ lines[<<value, c>>] >= n
      BY <1>1, <1>2, <1>3, <1>7, <2>2 DEF PlannedLines
    <2> QED
      BY <1>2, <1>7, <2>3
  <1>8. CASE Plan!OnRecursion(value)
    <2>1. PICK r \in Chains : r = Plan!Chain[value]
      BY <1>1, ChainRule
    <2>2. r.implicit \in Nat /\ r.end \in PlanNodes /\ Plan!Projection(r.end)
      BY <1>8, <2>1 DEF Chains, Plan!OnRecursion
    <2>3. <<c, a + n>> \in Plan!Occurrences[value]
      <3>1. PICK x : x = Given(i, 1, u)
        OBVIOUS
      <3>2. x = <<c, a + n>>
        BY <1>3, <1>6, <3>1 DEF Given, Plan!RegionOf, Plan!Carries
      <3>3. i < value
        BY <1>1, <1>2, <1>3, GraphShape
      <3>4. \E j \in PlanNodes : \E k \in DOMAIN graph[j].kids : \E v \in Plan!Occurrences[j] :
               j < value /\ Plan!Kid(j, k) = value /\ x = Given(j, k, v)
        BY <1>2, <1>3, <3>1, <3>3, Zenon
      <3>5. x \in Plan!Occurrences[value]
        BY <1>1, <3>4, OccurrenceRule
      <3> QED
        BY <3>2, <3>5
    <2>4. PICK y \in Int : y = (a + n) + r.implicit
      BY <1>3, <2>2
    <2>5. <<Plan!EndContext(value, c), y>> \in Plan!Occurrences[r.end]
      <3>1. a + n \in Int
        BY <1>3
      <3>2. ReachesEnd(value, c, a + n)
        BY <1>1, <1>6, <2>3, <3>1, EndIsReached
      <3> QED
        BY <2>1, <2>4, <3>2 DEF ReachesEnd
    <2>6. PICK e : e = Plan!EndContext(value, c)
      OBVIOUS
    <2>7. Recorded(r.end, <<e, y>>)
      BY <2>2, <2>5, <2>6, PathsAreRecorded
    <2>8. PICK b \in DOMAIN best : b = <<r.end, e>> /\ best[b] >= y
      BY <2>7 DEF Recorded
    <2>9. b[1] = r.end /\ b[2] = e /\ best[b] \in Nat
      BY <1>1, <2>8 DEF PlanTypes
    <2>10. best[b] > 0 /\ best[b] >= n + r.implicit
      BY <1>3, <2>2, <2>4, <2>8, <2>9
    <2>11. PICK key : key = <<graph[r.end].at, e>>
      OBVIOUS
    <2>12. key \in DOMAIN outputs /\ outputs[key] >= best[b]
      BY <1>1, <2>2, <2>9, <2>10, <2>11 DEF OutputsInv
    <2>13. outputs[key] \in Nat
      BY <1>1, <2>12 DEF PlanTypes
    <2>14. outputs[key] >= n + r.implicit
      BY <1>3, <2>2, <2>9, <2>10, <2>12, <2>13
    <2> QED
      BY <1>2, <1>8, <2>1, <2>6, <2>11, <2>12, <2>14
  <1> QED
    BY <1>7, <1>8

(* A table whose entries are the largest members of their sets.               *)
LEMMA LargestIs ==
  ASSUME NEW S \in SUBSET Nat, NEW n \in S, \A x \in S : n >= x
  PROVE  Plan!Max(S) = n
  <1>1. \A m \in S : (\A x \in S : m >= x) => m = n
    <2> SUFFICES ASSUME NEW m \in S, \A x \in S : m >= x
                 PROVE  m = n
      OBVIOUS
    <2>1. m >= n /\ n >= m /\ m \in Nat /\ n \in Nat
      OBVIOUS
    <2> QED
      BY <2>1
  <1> QED
    BY <1>1 DEF Plan!Max

LEMMA DelayToIs ==
  ASSUME NEW o, NEW c, NEW x
  PROVE  x \in Plan!DelaysTo(o, c) <=>
            \E i \in PlanNodes : \E u \in Plan!Occurrences[i] :
                Plan!Projection(i) /\ graph[i].at = o /\ u[1] = c /\ u[2] > 0 /\ x = u[2]
  BY Zenon DEF Plan!DelaysTo

LEMMA RequestOfIs ==
  ASSUME graph \in SignalGraphs, NEW v, NEW c, NEW x
  PROVE  x \in Plan!RequestsOf(v, c) <=>
            \E i \in PlanNodes :
                /\ Plan!Owned(i) /\ c \in Plan!LoweredIn(i) /\ Plan!Kid(i, 1) = v
                /\ x = Plan!LengthOf(i)
  <1>1. x \in Plan!RequestsOf(v, c) <=>
            \E i \in PlanNodes :
                /\ c \in Plan!LoweredIn(i) /\ Plan!Requests(i) # {} /\ Plan!Kid(i, 1) = v
                /\ ~ Plan!OnRecursion(v) /\ x \in Plan!Requests(i)
    BY Zenon DEF Plan!RequestsOf
  <1>2. ASSUME NEW i \in PlanNodes, Plan!Kid(i, 1) = v
        PROVE  /\ Plan!Requests(i) # {} /\ ~ Plan!OnRecursion(v) /\ x \in Plan!Requests(i)
                     => Plan!Owned(i) /\ x = Plan!LengthOf(i)
               /\ Plan!Owned(i) /\ x = Plan!LengthOf(i)
                     => Plan!Requests(i) # {} /\ ~ Plan!OnRecursion(v) /\ x \in Plan!Requests(i)
    BY <1>2, RequestIs
  <1> QED
    BY <1>1, <1>2

LEMMA OutputsAreMaxima ==
  ASSUME PlanInv, outcome = "planned"
  PROVE  outputs = Plan!Maxima({graph[i].at : i \in {n \in PlanNodes : Plan!Projection(n)}}
                                   \X Plan!Contexts, Plan!DelaysTo)
  <1> DEFINE keys == {graph[i].at : i \in {n \in PlanNodes : Plan!Projection(n)}} \X Plan!Contexts
             D == {k \in keys : Plan!DelaysTo(k[1], k[2]) # {}}
  <1>1. PlanTypes /\ OutputsInv
    BY DEF PlanInv
  <1>2. Plan!Maxima(keys, Plan!DelaysTo) = [k \in D |-> Plan!Max(Plan!DelaysTo(k[1], k[2]))]
    BY Zenon DEF Plan!Maxima
  <1>3. ASSUME NEW k \in DOMAIN outputs
        PROVE  k \in keys /\ outputs[k] \in Plan!DelaysTo(k[1], k[2])
    <2>1. CarrierOfPath(k, outputs[k])
      BY <1>1, CarriersAreOfPaths
    <2>2. PICK n \in Nat \ {0} : n = outputs[k]
      BY <1>1 DEF PlanTypes
    <2>3. PICK i \in PlanNodes, c \in Plan!Contexts :
            Plan!Projection(i) /\ k = <<graph[i].at, c>> /\ <<c, n>> \in Plan!Occurrences[i]
      BY <2>1, <2>2 DEF CarrierOfPath
    <2>4. k[1] = graph[i].at /\ k[2] = c /\ k \in keys
      BY <2>3
    <2>5. PICK u \in Plan!Occurrences[i] : u = <<c, n>>
      BY <2>3
    <2>6. u[1] = c /\ u[2] = n /\ n > 0
      BY <2>2, <2>5
    <2> QED
      BY <2>2, <2>3, <2>4, <2>6, DelayToIs
  <1>4. ASSUME NEW k \in keys, NEW x \in Plan!DelaysTo(k[1], k[2])
        PROVE  k \in DOMAIN outputs /\ outputs[k] >= x /\ x \in Nat
    <2>1. PICK i \in PlanNodes : \E u \in Plan!Occurrences[i] :
            Plan!Projection(i) /\ graph[i].at = k[1] /\ u[1] = k[2] /\ u[2] > 0 /\ x = u[2]
      BY DelayToIs
    <2>2. PICK u \in Plan!Occurrences[i] :
            Plan!Projection(i) /\ graph[i].at = k[1] /\ u[1] = k[2] /\ u[2] > 0 /\ x = u[2]
      BY <2>1
    <2>3. Recorded(i, u)
      BY PathsAreRecorded
    <2>4. PICK b \in DOMAIN best : b = <<i, k[2]>> /\ best[b] >= x /\ x \in Nat
      BY <2>2, <2>3 DEF Recorded
    <2>5. b[1] = i /\ b[2] = k[2] /\ best[b] \in Nat
      BY <1>1, <2>4 DEF PlanTypes
    <2>6. best[b] > 0
      BY <2>2, <2>4, <2>5
    <2>7. k = <<graph[b[1]].at, b[2]>>
      BY <2>2, <2>5
    <2>8. k \in DOMAIN outputs /\ outputs[k] >= best[b]
      BY <1>1, <2>2, <2>5, <2>6, <2>7 DEF OutputsInv
    <2>9. outputs[k] \in Nat
      BY <1>1, <2>8 DEF PlanTypes
    <2> QED
      BY <2>4, <2>5, <2>8, <2>9
  <1>5. DOMAIN outputs = D
    <2>1. \A k \in DOMAIN outputs : k \in D
      BY <1>3
    <2>2. \A k \in D : k \in DOMAIN outputs
      BY <1>4
    <2> QED
      BY <2>1, <2>2
  <1>6. \A k \in D : outputs[k] = Plan!Max(Plan!DelaysTo(k[1], k[2]))
    <2> SUFFICES ASSUME NEW k \in D
                 PROVE  outputs[k] = Plan!Max(Plan!DelaysTo(k[1], k[2]))
      OBVIOUS
    <2>1. PICK S : S = Plan!DelaysTo(k[1], k[2])
      OBVIOUS
    <2>2. S \in SUBSET Nat /\ outputs[k] \in S /\ \A x \in S : outputs[k] >= x
      BY <1>3, <1>4, <1>5, <2>1
    <2>3. Plan!Max(S) = outputs[k]
      BY <2>2, LargestIs
    <2> QED
      BY <2>1, <2>3
  <1>7. outputs = [k \in DOMAIN outputs |-> outputs[k]]
    BY <1>1 DEF PlanTypes
  <1> HIDE DEF D
  <1>8. outputs = [k \in D |-> Plan!Max(Plan!DelaysTo(k[1], k[2]))]
    BY <1>5, <1>6, <1>7
  <1> QED
    BY <1>2, <1>8

LEMMA LinesAreMaxima ==
  ASSUME PlanInv, outcome = "planned"
  PROVE  lines = Plan!Maxima(PlanNodes \X Plan!Contexts, Plan!RequestsOf)
  <1> DEFINE keys == PlanNodes \X Plan!Contexts
             D == {k \in keys : Plan!RequestsOf(k[1], k[2]) # {}}
  <1>1. PlanTypes /\ PlannedLines /\ graph \in SignalGraphs
    BY DEF PlanInv, PlanTypes
  <1>2. Plan!Maxima(keys, Plan!RequestsOf) = [k \in D |-> Plan!Max(Plan!RequestsOf(k[1], k[2]))]
    BY Zenon DEF Plan!Maxima
  <1>3. ASSUME NEW k \in DOMAIN lines
        PROVE  k \in keys /\ lines[k] \in Plan!RequestsOf(k[1], k[2])
    <2>1. LineOfPath(k, lines[k])
      BY <1>1, LinesAreOfPaths
    <2>2. k \in keys
      BY <1>1 DEF PlanTypes
    <2>3. PICK n : n = lines[k]
      OBVIOUS
    <2>4. n \in Plan!RequestsOf(k[1], k[2])
      <3>1. \E i \in PlanNodes :
              /\ Plan!Owned(i) /\ k[2] \in Plan!LoweredIn(i) /\ Plan!Kid(i, 1) = k[1]
              /\ n = Plan!LengthOf(i)
        BY <2>1, <2>3 DEF LineOfPath
      <3> QED
        BY <1>1, <3>1, RequestOfIs
    <2> QED
      BY <2>2, <2>3, <2>4
  <1>4. ASSUME NEW k \in keys, NEW x \in Plan!RequestsOf(k[1], k[2])
        PROVE  k \in DOMAIN lines /\ lines[k] >= x /\ x \in Nat
    <2>1. PICK i \in PlanNodes :
            /\ Plan!Owned(i) /\ k[2] \in Plan!LoweredIn(i) /\ Plan!Kid(i, 1) = k[1]
            /\ x = Plan!LengthOf(i)
      BY <1>1, RequestOfIs
    <2>2. PICK u \in Plan!Occurrences[i] : u[1] = k[2]
      BY <2>1, Zenon DEF Plan!LoweredIn
    <2>3. Recorded(i, u)
      BY PathsAreRecorded
    <2>4. PICK b \in DOMAIN best : b = <<i, k[2]>>
      BY <2>2, <2>3 DEF Recorded
    <2>5. b[1] = i /\ b[2] = k[2]
      BY <2>4
    <2>6. k = <<Plan!Kid(b[1], 1), b[2]>>
      BY <2>1, <2>5
    <2>7. k \in DOMAIN lines /\ lines[k] >= x
      BY <1>1, <2>1, <2>5, <2>6 DEF PlannedLines
    <2>8. x \in Nat
      BY <1>1, <2>1, OwnedIs
    <2> QED
      BY <2>7, <2>8
  <1>5. DOMAIN lines = D
    <2>1. \A k \in DOMAIN lines : k \in D
      BY <1>3
    <2>2. \A k \in D : k \in DOMAIN lines
      BY <1>4
    <2> QED
      BY <2>1, <2>2
  <1>6. \A k \in D : lines[k] = Plan!Max(Plan!RequestsOf(k[1], k[2]))
    <2> SUFFICES ASSUME NEW k \in D
                 PROVE  lines[k] = Plan!Max(Plan!RequestsOf(k[1], k[2]))
      OBVIOUS
    <2>1. PICK S : S = Plan!RequestsOf(k[1], k[2])
      OBVIOUS
    <2>2. S \in SUBSET Nat /\ lines[k] \in S /\ \A x \in S : lines[k] >= x
      BY <1>3, <1>4, <1>5, <2>1
    <2>3. Plan!Max(S) = lines[k]
      BY <2>2, LargestIs
    <2> QED
      BY <2>1, <2>3
  <1>7. lines = [k \in DOMAIN lines |-> lines[k]]
    BY <1>1 DEF PlanTypes
  <1> HIDE DEF D
  <1>8. lines = [k \in D |-> Plan!Max(Plan!RequestsOf(k[1], k[2]))]
    BY <1>5, <1>6, <1>7
  <1> QED
    BY <1>2, <1>8

LEMMA PlanProperties ==
  ASSUME PlanInv
  PROVE  /\ Plan!TypeOK
         /\ Plan!EveryReadIsServed
         /\ Plan!PlanIsThePathMaxima
         /\ Plan!RefusesUnbounded
  <1>1. Plan!PlanIsThePathMaxima
    BY OutputsAreMaxima, LinesAreMaxima, Zenon DEF Plan!PlanIsThePathMaxima
  <1> QED
    BY <1>1, PlanTyped, ReadsAreServed, PlannedIsBounded

-----------------------------------------------------------------------------
(* The passes side by side.                                                  *)

LoweringInv ==
    /\ part = "effects" => EffectsInv
    /\ part # "effects" => EffectsRest
    /\ part = "hgraph" => HierarchyInv
    /\ part = "plan" => PlanInv
    /\ part = "carriers" => CarriersInv
    /\ part = "clocked" => ClockedInv

LEMMA EffectsStay ==
  ASSUME UNCHANGED <<prog, position, deps, todo, group, pending, last, since, phase>>, EffectsRest
  PROVE  EffectsRest'
  BY DEF EffectsRest

LEMMA HierarchyStays ==
  ASSUME UNCHANGED <<hprog, keyOf, owned, edges, hstack, outputsLeft>>, HierarchyInv
  PROVE  HierarchyInv'
  <1>1. HierarchyTypes' /\ KeysInv' /\ PlacesInv'
    BY ForestStays DEF HierarchyInv, HierarchyTypes, KeysInv, PlacesInv, PlaceOf
  <1>2. OpenCalls(hstack)' = OpenCalls(hstack)
    BY DEF OpenCalls
  <1>3. \A f \in OpenCalls(hstack) : CallInv(f)'
    BY ForestStays DEF HierarchyInv, CallInv
  <1>4. \A e \in edges : EdgeInv(e)'
    BY ForestStays DEF HierarchyInv, EdgeInv
  <1>5. ReadyInv'
    <2> SUFFICES ASSUME NEW s \in Sigs, NEW d \in hprog.now[s], owned[s] # Nothing,
                        ~ Hierarchy!IsWrapper(s)
                 PROVE  ReadyFor(s, d)' \/ Waiting(s, d)'
      BY ForestStays DEF ReadyInv
    <2>1. Hierarchy!Hosts(s, owned[d])' = Hierarchy!Hosts(s, owned[d])
      BY ForestStays DEF Hierarchy!Hosts
    <2>2. ReadyFor(s, d) \/ Waiting(s, d)
      BY DEF HierarchyInv, ReadyInv
    <2>3. NotedFarOut(s, d) => NotedFarOut(s, d)'
      BY ForestStays DEF NotedFarOut
    <2>4. ReadyFor(s, d) => ReadyFor(s, d)'
      BY <2>1, <2>3 DEF ReadyFor
    <2>5. Waiting(s, d) => Waiting(s, d)'
      BY <1>2 DEF Waiting
    <2> QED
      BY <2>2, <2>4, <2>5
  <1> QED
    BY <1>1, <1>2, <1>3, <1>4, <1>5 DEF HierarchyInv

LEMMA CarriersStay ==
  ASSUME UNCHANGED <<arity, reads, iota, region, carrier, current>>, CarriersInv
  PROVE  CarriersInv'
  <1>1. \A o : /\ Carriers!Strategy(o)' = Carriers!Strategy(o)
               /\ Carriers!Size(o)' = Carriers!Size(o)
               /\ Carriers!Outputs' = Carriers!Outputs
    BY SameCarriers
  <1>2. \A n : Carriers!Past(n)' = Carriers!Past(n)
    BY DEF Carriers!Past
  <1>3. Carriers!TypeOK'
    BY <1>1 DEF CarriersInv, Carriers!TypeOK
  <1>4. \A o : SlotsOfCarrier(o)' <=> SlotsOfCarrier(o)
    BY <1>1, <1>2 DEF SlotsOfCarrier
  <1> QED
    BY <1>1, <1>3, <1>4 DEF CarriersInv

LEMMA ClockedStays ==
  ASSUME UNCHANGED <<cprog, stack, buf, cursor, counter, dsCounter, perm, slowVar, slowDone,
                     inCall, calls, samples, fired, held, computed>>,
         ClockedInv
  PROVE  ClockedInv'
  <1>1. ClockedTypes'
    BY SameProgram DEF ClockedInv, ClockedTypes
  <1>2. RegionsInv'
    BY SameRegions DEF ClockedInv
  <1>3. LinesInv'
    BY SameRegions, SameLines DEF ClockedInv
  <1>4. PhaseInv'
    BY SameRegions DEF ClockedInv, PhaseInv, Ticks, Starts
  <1>5. SlowInv'
    BY SameRegions, SameProgram DEF ClockedInv, SlowInv
  <1> QED
    BY <1>1, <1>2, <1>3, <1>4, <1>5 DEF ClockedInv

LEMMA LoweringInitInv == LoweringInit => LoweringInv
  BY EffectsInit, HierarchyInit, PlanInit, CarriersInit, ClockedInit DEF LoweringInit, LoweringInv

LEMMA CarriersStep ==
  ASSUME CarriersInv, Carriers!Next
  PROVE  CarriersInv'
  BY CarriersBody, CarriersEnd DEF Carriers!Next

LEMMA ClockedStep ==
  ASSUME ClockedInv, Clocked!Next
  PROVE  ClockedInv'
  BY ClearStep, StartCallStep, EndCallStep, StartSampleStep, BodyStep, EndBodyStep, GuardStep
     DEF Clocked!Next

LEMMA LoweringNextInv == LoweringInv /\ [LoweringNext]_loweringVars => LoweringInv'
  <1> SUFFICES ASSUME LoweringInv, [LoweringNext]_loweringVars
               PROVE  LoweringInv'
    OBVIOUS
  <1>1. CASE part = "effects" /\ Next /\ part' = part
    BY <1>1, EffectsNext DEF LoweringInv
  <1>2. CASE part = "hgraph" /\ Hierarchy!Next /\ UNCHANGED <<part, effectVars>>
    <2>1. HierarchyInv' /\ EffectsRest'
      BY <1>2, HierarchyStep, EffectsStay DEF LoweringInv, effectVars
    <2> QED
      BY <1>2, <2>1 DEF LoweringInv
  <1>3. CASE part = "plan" /\ Plan!Next /\ UNCHANGED <<part, effectVars>>
    <2>1. PlanInv' /\ EffectsRest'
      BY <1>3, PlanStep, EffectsStay DEF LoweringInv, effectVars
    <2> QED
      BY <1>3, <2>1 DEF LoweringInv
  <1>4. CASE part = "carriers" /\ Carriers!Next /\ UNCHANGED <<part, effectVars>>
    <2>1. CarriersInv' /\ EffectsRest'
      BY <1>4, CarriersStep, EffectsStay DEF LoweringInv, effectVars
    <2> QED
      BY <1>4, <2>1 DEF LoweringInv
  <1>5. CASE part = "clocked" /\ Clocked!Next /\ UNCHANGED <<part, effectVars>>
    <2>1. ClockedInv' /\ EffectsRest'
      BY <1>5, ClockedStep, EffectsStay DEF LoweringInv, effectVars
    <2> QED
      BY <1>5, <2>1 DEF LoweringInv
  <1>6. CASE UNCHANGED loweringVars
    <2>1. /\ UNCHANGED <<part, effectVars, hgraphVars, planVars, carrierVars, clockedVars>>
      BY <1>6 DEF loweringVars
    <2>2. part = "effects" => EffectsInv'
      BY <2>1, EffectsNext DEF LoweringInv, effectVars, vars
    <2>3. part # "effects" => EffectsRest'
      BY <2>1, EffectsStay DEF LoweringInv, effectVars
    <2>4. part = "hgraph" => HierarchyInv'
      BY <2>1, HierarchyStays DEF LoweringInv, hgraphVars
    <2>5. part = "plan" => PlanInv'
      BY <2>1, WalkStays DEF LoweringInv, planVars
    <2>6. part = "carriers" => CarriersInv'
      BY <2>1, CarriersStay DEF LoweringInv, carrierVars
    <2>7. part = "clocked" => ClockedInv'
      BY <2>1, ClockedStays DEF LoweringInv, clockedVars
    <2> QED
      BY <2>1, <2>2, <2>3, <2>4, <2>5, <2>6, <2>7 DEF LoweringInv
  <1> QED
    BY <1>1, <1>2, <1>3, <1>4, <1>5, <1>6 DEF LoweringNext

\* The invariants of the passes hold in every state they reach side by side.
THEOREM LoweringInvariance == LoweringSpec => []LoweringInv
  BY LoweringInitInv, LoweringNextInv, PTL DEF LoweringSpec

\* Beside the other passes too, conflicting effects keep the baseline's order.
THEOREM LoweringEffectsOrdered == LoweringSpec => []EffectsAreOrdered
  <1>1. EffectsInv => EffectsAreOrdered
    BY EffectsInvOrders DEF EffectsAreOrdered
  <1>2. EffectsRest => EffectsAreOrdered
    <2> SUFFICES ASSUME EffectsRest PROVE EffectsAreOrdered
      OBVIOUS
    <2>1. TypeOK
      BY DEF EffectsRest, TypeOK, Program
    <2>2. ConflictsKeepBaseline
      BY DEF EffectsRest, ConflictsKeepBaseline, Conflict, Touches
    <2>3. BaselineStaysASchedule /\ OnlyConflictsAreOrdered
      BY DEF EffectsRest, BaselineStaysASchedule, Respects, OnlyConflictsAreOrdered
    <2> QED
      BY <2>1, <2>2, <2>3 DEF EffectsAreOrdered
  <1>3. LoweringInv => EffectsAreOrdered
    BY <1>1, <1>2 DEF LoweringInv
  <1> QED
    BY <1>3, LoweringInvariance, PTL

\* Whatever the forest, its domains and the order of the visit, every signal is
\* owned by the graph of its domain and what it needs is ordered before it.
THEOREM GraphsAreOrdered == LoweringSpec => []GraphsOrderWhatIsNeeded
  <1>1. LoweringInv => GraphsOrderWhatIsNeeded
    BY HierarchyExact DEF LoweringInv, GraphsOrderWhatIsNeeded
  <1> QED
    BY <1>1, LoweringInvariance, PTL

\* Whatever the signals and the contexts they are lowered in, the plan of the
\* memoised walk holds the maxima over all paths, and serves every read.
THEOREM PlanIsServed == LoweringSpec => []PlanServesEveryRead
  <1>1. LoweringInv => PlanServesEveryRead
    BY PlanProperties DEF LoweringInv, PlanServesEveryRead
  <1> QED
    BY <1>1, LoweringInvariance, PTL

\* Whatever the outputs of a recursion and the reads of them, each delayed read
\* returns the sample it asks for from the carrier chosen for all of them.
THEOREM CarriersAreExact == LoweringSpec => []CarriersReadThePast
  <1>1. LoweringInv => CarriersReadThePast
    BY CarriersExact DEF LoweringInv, CarriersReadThePast, CarriersInv
  <1> QED
    BY <1>1, LoweringInvariance, PTL

\* However blocks nest and fire, their lines, phases and block-rate values are
\* those of the program as written.
THEOREM BlocksAreExact == LoweringSpec => []BlocksFireAsWritten
  <1>1. LoweringInv => BlocksFireAsWritten
    BY ClockedProperties DEF LoweringInv, BlocksFireAsWritten
  <1> QED
    BY <1>1, LoweringInvariance, PTL
================================================================================
