-------------------------- MODULE SchedulerContract --------------------------
(* What `schedule(strategy, dag)` promises its callers (the scalar serializer *)
(* of hgraph and the vector planner), whatever the strategy: one answer, that *)
(* is either an order the graph allows and that holds every node, or the      *)
(* error that names what makes the graph unschedulable.                       *)
(*                                                                            *)
(* `deps[n]` is the set of the dependencies of n: n is a consumer of them,    *)
(* and each must be scheduled before it.                                      *)
EXTENDS Integers, Sequences

CONSTANTS
    Nodes,          \* the node keys: integers, compared as `Ord` compares them
    Graphs          \* the dependency relations an adapter may present

VARIABLES
    deps,           \* the graph of this call
    outcome         \* what the call returned, or Pending

Pending == [tag |-> "pending"]

Ordered(order) == [tag |-> "ordered", order |-> order]

SelfEdge(n) == [tag |-> "selfEdge", node |-> n]

Cycle(remaining) == [tag |-> "cycle", remaining |-> remaining]

(* S-Complete: the order lists every node of the graph once.                  *)
Complete(order) ==
    /\ order \in Seq(Nodes)
    /\ \A n \in Nodes : \E i \in 1 .. Len(order) : order[i] = n
    /\ \A i, j \in 1 .. Len(order) : order[i] = order[j] => i = j

(* S-Sound: every dependency of a node comes before it.                       *)
Sound(g, order) ==
    \A i \in 1 .. Len(order) : \A d \in g[order[i]] :
        \E j \in 1 .. i - 1 : order[j] = d

(* A set in which every node waits for another one of the set.                *)
Stuck(g, S) == S \subseteq Nodes /\ \A n \in S : g[n] \cap S # {}

(* The nodes no order can hold: those on a cycle and those that depend, even  *)
(* through others, on one. It is the largest stuck set.                       *)
Unschedulable(g) == {n \in Nodes : \E S \in SUBSET Nodes : Stuck(g, S) /\ n \in S}

Init ==
    /\ deps \in Graphs
    /\ outcome = Pending

(* Any order that is complete and sound.                                      *)
ReturnOrder ==
    /\ outcome = Pending
    /\ Unschedulable(deps) = {}
    /\ outcome'.tag = "ordered" /\ outcome' = Ordered(outcome'.order)
    /\ Complete(outcome'.order)
    /\ Sound(deps, outcome'.order)
    /\ UNCHANGED deps

(* The first node, in ascending order, that depends on itself.                *)
ReturnSelfEdge ==
    /\ outcome = Pending
    /\ \E n \in Nodes :
          /\ n \in deps[n]
          /\ \A m \in Nodes : m \in deps[m] => n <= m
          /\ outcome' = SelfEdge(n)
    /\ UNCHANGED deps

(* Every node that cannot be scheduled.                                       *)
ReturnCycle ==
    /\ outcome = Pending
    /\ \A n \in Nodes : n \notin deps[n]
    /\ Unschedulable(deps) # {}
    /\ outcome' = Cycle(Unschedulable(deps))
    /\ UNCHANGED deps

Next == ReturnOrder \/ ReturnSelfEdge \/ ReturnCycle

Spec == Init /\ [][Next]_<<deps, outcome>>

=============================================================================
