----------------------------- MODULE ScheduleDfs -----------------------------
(* `schedule(DepthFirst, dag)` of the transform crate, step by step: the      *)
(* self-edge test, the Kahn peeling that rejects a cycle, and the postorder   *)
(* walk with an explicit stack that -ss 0 serializes a graph with.            *)
(*                                                                            *)
(* The order in which an adapter lists the dependencies of a node is its own  *)
(* affair, so the walk takes any dependency it has not yet looked at; for the *)
(* same reason the ready queue of the peeling is a set. What holds of this    *)
(* module holds of every such order.                                          *)
EXTENDS Integers, Sequences, FiniteSets

CONSTANTS
    Nodes,          \* `dag.nodes()`: ascending, each key once
    Graphs          \* the dependency relations an adapter may present

ASSUME GraphsAssumption ==
    /\ Nodes \subseteq Int
    /\ IsFiniteSet(Nodes)
    /\ Graphs \subseteq [Nodes -> SUBSET Nodes]

VARIABLES
    deps,           \* the graph: deps[n] is the set of `dag.dependencies(n)`
    phase,          \* where the call is: "validate", "peel", "walk" or "done"
    pending,        \* peeling: the dependencies of a node not yet peeled
    ready,          \* peeling: the nodes queued with no pending dependency
    removed,        \* peeling: the nodes peeled
    roots,          \* walk: the roots not yet taken
    visited,        \* walk: the nodes that have been on the stack
    stack,          \* walk: frames [node, rest], the top last
    order,          \* walk: the schedule, growing
    error           \* the error returned, or NoError

peelVars == <<pending, ready, removed>>
walkVars == <<roots, visited, stack, order>>
vars == <<deps, phase, peelVars, walkVars, error>>

NoError == [tag |-> "none"]
SelfEdge(n) == [tag |-> "selfEdge", node |-> n]
Cycle(remaining) == [tag |-> "cycle", remaining |-> remaining]

(* Mutant of RootsOf: the nodes that depend on nobody.                        *)
SourcesOf == {n \in Nodes : deps[n] = {}}

(* The nodes nobody depends on.                                               *)
RootsOf == {n \in Nodes : \A m \in Nodes : n \notin deps[m]}

Frame == [node : Nodes, rest : SUBSET Nodes]

(* A frame for a node none of whose dependencies has been looked at.          *)
Opened(n) == [node |-> n, rest |-> deps[n]]

Top == stack[Len(stack)]

OnStack == {stack[i].node : i \in 1 .. Len(stack)}

Init ==
    /\ deps \in Graphs
    /\ phase = "validate"
    /\ pending = deps
    /\ ready = {}
    /\ removed = {}
    /\ roots = {}
    /\ visited = {}
    /\ stack = << >>
    /\ order = << >>
    /\ error = NoError

(* A node that depends on itself: the first one in ascending order is         *)
(* reported.                                                                  *)
RejectSelfEdge ==
    /\ phase = "validate"
    /\ \E n \in Nodes :
          /\ n \in deps[n]
          /\ \A m \in Nodes : m \in deps[m] => n <= m
          /\ error' = SelfEdge(n)
    /\ phase' = "done"
    /\ UNCHANGED <<deps, peelVars, walkVars>>

(* The dependencies are collected into `pending` and the nodes without any    *)
(* are queued.                                                                *)
StartPeeling ==
    /\ phase = "validate"
    /\ \A n \in Nodes : n \notin deps[n]
    /\ phase' = "peel"
    /\ ready' = {n \in Nodes : pending[n] = {}}
    /\ UNCHANGED <<deps, pending, removed, walkVars, error>>

(* Mutant of Peel: a consumer is queued with its first dependency.            *)
PeelEagerly(n) ==
    /\ phase = "peel"
    /\ n \in ready
    /\ LET freed == {s \in Nodes : n \in deps[s] /\ s \notin removed \cup {n}} IN
       /\ pending' = [s \in Nodes |-> IF s \in freed THEN pending[s] \ {n} ELSE pending[s]]
       /\ ready' = (ready \ {n}) \cup freed
    /\ removed' = removed \cup {n}
    /\ UNCHANGED <<deps, phase, walkVars, error>>

(* A queued node is peeled: every consumer that waits for it waits for one    *)
(* node less, and is queued when it waits for none.                           *)
Peel(n) ==
    /\ phase = "peel"
    /\ n \in ready
    /\ LET freed == {s \in Nodes : n \in deps[s] /\ s \notin removed \cup {n}} IN
       /\ pending' = [s \in Nodes |-> IF s \in freed THEN pending[s] \ {n} ELSE pending[s]]
       /\ ready' = (ready \ {n}) \cup {s \in freed : pending[s] \subseteq {n}}
    /\ removed' = removed \cup {n}
    /\ UNCHANGED <<deps, phase, walkVars, error>>

(* Nothing is queued and nodes remain: they are reported.                     *)
RejectCycle ==
    /\ phase = "peel"
    /\ ready = {}
    /\ removed # Nodes
    /\ error' = Cycle(Nodes \ removed)
    /\ phase' = "done"
    /\ UNCHANGED <<deps, peelVars, walkVars>>

(* Every node was peeled: the walk starts, from the nodes nobody depends on.  *)
StartWalk ==
    /\ phase = "peel"
    /\ ready = {}
    /\ removed = Nodes
    /\ phase' = "walk"
    /\ roots' = RootsOf
    /\ UNCHANGED <<deps, peelVars, visited, stack, order, error>>

(* The stack is empty and the least root left is taken; one that was visited  *)
(* is passed over.                                                            *)
TakeRoot(r) ==
    /\ phase = "walk"
    /\ stack = << >>
    /\ r \in roots /\ \A q \in roots : r <= q
    /\ roots' = roots \ {r}
    /\ IF r \in visited
       THEN UNCHANGED <<visited, stack>>
       ELSE visited' = visited \cup {r} /\ stack' = <<Opened(r)>>
    /\ UNCHANGED <<deps, phase, peelVars, order, error>>

(* Mutant of Descend: the frame forgets what it looked at.                    *)
DescendAgain(d) ==
    /\ phase = "walk"
    /\ stack # << >>
    /\ d \in Top.rest \ visited
    /\ stack' = Append(stack, Opened(d))
    /\ visited' = visited \cup {d}
    /\ UNCHANGED <<deps, phase, peelVars, roots, order, error>>

(* The top frame looks at its next dependency, and pushes a frame for it if   *)
(* it was never visited.                                                      *)
Descend(d) ==
    /\ phase = "walk"
    /\ stack # << >>
    /\ d \in Top.rest
    /\ LET frame == [node |-> Top.node, rest |-> Top.rest \ {d}]
           looked == [stack EXCEPT ![Len(stack)] = frame] IN
       IF d \in visited
       THEN stack' = looked /\ UNCHANGED visited
       ELSE stack' = Append(looked, Opened(d)) /\ visited' = visited \cup {d}
    /\ UNCHANGED <<deps, phase, peelVars, roots, order, error>>

(* The top frame has looked at every dependency: its node is scheduled.       *)
Emit ==
    /\ phase = "walk"
    /\ stack # << >>
    /\ Top.rest = {}
    /\ order' = Append(order, Top.node)
    /\ stack' = SubSeq(stack, 1, Len(stack) - 1)
    /\ UNCHANGED <<deps, phase, peelVars, roots, visited, error>>

(* No root is left: the order is returned.                                    *)
Return ==
    /\ phase = "walk"
    /\ stack = << >>
    /\ roots = {}
    /\ phase' = "done"
    /\ UNCHANGED <<deps, peelVars, walkVars, error>>

Next ==
    \/ RejectSelfEdge
    \/ StartPeeling
    \/ \E n \in Nodes : Peel(n)
    \/ RejectCycle
    \/ StartWalk
    \/ \E r \in Nodes : TakeRoot(r)
    \/ \E d \in Nodes : Descend(d)
    \/ Emit
    \/ Return

Spec == Init /\ [][Next]_vars

(* The call runs on one thread: it goes on as long as it has a step.          *)
FairSpec == Spec /\ WF_vars(Next)

-----------------------------------------------------------------------------

TypeOK ==
    /\ deps \in [Nodes -> SUBSET Nodes]
    /\ phase \in {"validate", "peel", "walk", "done"}
    /\ pending \in [Nodes -> SUBSET Nodes]
    /\ ready \subseteq Nodes
    /\ removed \subseteq Nodes
    /\ roots \subseteq Nodes
    /\ visited \subseteq Nodes
    /\ stack \in Seq(Frame)
    /\ order \in Seq(Nodes)
    /\ error \in {NoError} \cup {SelfEdge(n) : n \in Nodes} \cup {Cycle(S) : S \in (SUBSET Nodes) \ {{}}}

(* The comment of the depth-first walk: a dependency that was already visited *)
(* "only ever means already fully scheduled", so skipping it can never put a  *)
(* consumer before it. What makes it true is the peeling, two phases earlier. *)
VisitedIsScheduled ==
    stack # << >> => \A d \in Top.rest \cap visited :
        \E j \in 1 .. Len(order) : order[j] = d

(* Every node of the set waits for another one of it.                         *)
Stuck(S) == \A n \in S : deps[n] \cap S # {}

(* The peeling never removes a node that cannot be scheduled, and what it     *)
(* reports is exactly the members of cycles and their consumers (the doc of   *)
(* ScheduleError::Cycle), whatever the order the queue served.                *)
PeelingIsExact ==
    /\ \A S \in SUBSET Nodes : Stuck(S) => S \cap removed = {}
    /\ error.tag = "cycle" => Stuck(error.remaining)

(* What skipping visited dependencies rests on, through both phases: peeling  *)
(* is exact, so on what it leaves a visited dependency is a scheduled one.    *)
WalkIsSound == TypeOK /\ VisitedIsScheduled /\ PeelingIsExact

(* What the call has returned.                                                *)
outcome ==
    IF phase # "done" THEN [tag |-> "pending"]
    ELSE IF error # NoError THEN error
    ELSE [tag |-> "ordered", order |-> order]

(* The call keeps the promise of the scheduler: S-Sound and S-Complete, or    *)
(* the right error.                                                           *)
Contract == INSTANCE SchedulerContract

KeepsContract == Contract!Spec

(* S-Terminating: the call answers on every graph, cyclic ones included.      *)
Terminates == <>(phase = "done")

=============================================================================
