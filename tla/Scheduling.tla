------------------------------ MODULE Scheduling ------------------------------
(* `schedule(strategy, dag)` of the transform crate for the four strategies   *)
(* of -ss, over the graph an hgraph `Digraph` presents through its adapter.   *)
(* Each call validates the graph and answers in one step; what is at stake    *)
(* here is what each algorithm computes, the order of every dependency list   *)
(* and duplicates in it included. ScheduleDfs takes -ss 0 apart into steps.   *)
EXTENDS Integers, Sequences, FiniteSets, SequencesExt, FiniteSetsExt

CONSTANTS
    Nodes,          \* the nodes the Digraph owns
    Digraphs,       \* the graphs of the calls: per node, a list of [to, delayed] records
    StrategyNumbers,\* the integers -ss is called with
    MaxLength,      \* the greatest length of a logical sequence (2^128 - 1)
    Candidates      \* the orders verify_schedule is asked about

ASSUME SchedulingAssumption ==
    /\ Nodes \subseteq Int /\ IsFiniteSet(Nodes)
    /\ \A g \in Digraphs : DOMAIN g = Nodes
    /\ StrategyNumbers \subseteq Nat
    /\ MaxLength \in Nat

VARIABLES
    edges,          \* the Digraph: the edges of each node, in child order
    ss,             \* the -ss number of the call
    answer          \* what the call returned

vars == <<edges, ss, answer>>

Pending == [tag |-> "pending"]

-----------------------------------------------------------------------------
(* The graph.                                                                 *)

Before(m, n) == m < n

(* `dag.nodes()`: ascending.                                                  *)
Ascending == SetToSortSeq(Nodes, Before)

(* Mutant of Dependencies: delayed edges order the schedule too.              *)
AllDependencies(g, n) ==
    LET ordering(e) == e.to \in Nodes
        kept == SelectSeq(g[n], ordering)
    IN  [i \in 1 .. Len(kept) |-> kept[i].to]

(* The adapter of Digraph: delayed edges and edges to nodes of other graphs   *)
(* do not order the schedule.                                                 *)
Dependencies(g, n) ==
    LET ordering(e) == ~ e.delayed /\ e.to \in Nodes
        kept == SelectSeq(g[n], ordering)
    IN  [i \in 1 .. Len(kept) |-> kept[i].to]

Dag(g) == [n \in Nodes |-> Dependencies(g, n)]

RootsOf(dag) ==
    LET unused(n) == \A m \in Nodes : ~ Contains(dag[m], n)
    IN  SelectSeq(Ascending, unused)

(* The consumers of each node.                                                *)
Successors(dag) ==
    [n \in Nodes |-> LET uses(m) == Contains(dag[m], n) IN SelectSeq(Ascending, uses)]

-----------------------------------------------------------------------------
(* Validation.                                                                *)

(* Peeling until no node is left whose dependencies were all peeled.          *)
RECURSIVE Peeled(_, _)
Peeled(dag, removed) ==
    LET free == {n \in Nodes \ removed : ToSet(dag[n]) \subseteq removed}
    IN  IF free = {} THEN removed ELSE Peeled(dag, removed \cup free)

-----------------------------------------------------------------------------
(* DepthFirst.                                                                *)

(* The postorder of what node n reaches, appended to the order so far.        *)
RECURSIVE Visit(_, _, _)
Visit(dag, order, n) ==
    IF Contains(order, n) THEN order
    ELSE LET visit(o, d) == Visit(dag, o, d)
         IN  Append(FoldLeft(visit, order, dag[n]), n)

DepthFirst(dag) ==
    LET visit(o, r) == Visit(dag, o, r) IN FoldLeft(visit, << >>, RootsOf(dag))

-----------------------------------------------------------------------------
(* BreadthFirst and ReverseBreadthFirst.                                      *)

(* Mutant of Heights: the shortest path.                                      *)
ShortHeights(children) ==
    LET h[n \in Nodes] ==
          IF children[n] = << >> THEN 0
          ELSE 1 + Min({h[children[n][i]] : i \in 1 .. Len(children[n])})
    IN  h

(* `compute_heights` over a child relation.                                   *)
Heights(children) ==
    LET h[n \in Nodes] ==
          IF children[n] = << >> THEN 0
          ELSE 1 + Max({h[children[n][i]] : i \in 1 .. Len(children[n])})
    IN  h

ByHeight(h) ==
    LET lower(m, n) == h[m] < h[n] \/ (h[m] = h[n] /\ m < n)
    IN  SetToSortSeq(Nodes, lower)

BreadthFirst(dag) == ByHeight(Heights(dag))

ReverseBreadthFirst(dag) == Reverse(ByHeight(Heights(Successors(dag))))

-----------------------------------------------------------------------------
(* Special: positions in a sequence that is never built.                      *)

Shorter(m, n) == IF m < n THEN m ELSE n

(* Mutant of InterleavedPosition: both sides count as the left one.           *)
LeftPosition(index, own, other, right) ==
    LET shared == Shorter(own, other) IN
    IF index < shared THEN 2 * index ELSE index + shared

(* Where an element of one sequence lands when it is interleaved with another.*)
InterleavedPosition(index, own, other, right) ==
    LET shared == Shorter(own, other) IN
    IF index < shared THEN 2 * index + (IF right THEN 1 ELSE 0) ELSE index + shared

EmptySummary == [len |-> 0, last |-> << >>, fits |-> TRUE]

(* A summary is lost as soon as a length or a position leaves the range.      *)
Checked(s) ==
    [s EXCEPT !.fits = @ /\ s.len <= MaxLength /\ \A n \in DOMAIN s.last : s.last[n] <= MaxLength]

InterleaveSummaries(a, b) ==
    LET fromLeft(n) == InterleavedPosition(a.last[n], a.len, b.len, FALSE)
        fromRight(n) == InterleavedPosition(b.last[n], b.len, a.len, TRUE)
        position(n) == CASE n \notin DOMAIN b.last -> fromLeft(n)
                         [] n \notin DOMAIN a.last -> fromRight(n)
                         [] OTHER -> Max({fromLeft(n), fromRight(n)})
    IN  Checked([len |-> a.len + b.len,
                 last |-> [n \in DOMAIN a.last \cup DOMAIN b.last |-> position(n)],
                 fits |-> a.fits /\ b.fits])

(* The summary of a node: itself, then its dependencies interleaved.          *)
Summaries(dag) ==
    LET rec[n \in Nodes] ==
          LET below == FoldLeft(InterleaveSummaries, EmptySummary,
                                [i \in 1 .. Len(dag[n]) |-> rec[dag[n][i]]])
              last == [m \in DOMAIN below.last \cup {n} |->
                          IF m = n THEN 0 ELSE below.last[m] + 1]
          IN  Checked([len |-> below.len + 1, last |-> last, fits |-> below.fits])
    IN  rec

Compact(dag) ==
    LET rec == Summaries(dag)
        roots == RootsOf(dag)
    IN  FoldLeft(InterleaveSummaries, EmptySummary, [i \in 1 .. Len(roots) |-> rec[roots[i]]])

(* Latest last position first; past the range, depth first.                   *)
Special(dag) ==
    LET all == Compact(dag)
        later(m, n) == all.last[m] > all.last[n] \/ (all.last[m] = all.last[n] /\ m < n)
    IN  IF all.fits THEN SetToSortSeq(DOMAIN all.last, later) ELSE DepthFirst(dag)

-----------------------------------------------------------------------------
(* The call.                                                                  *)

(* `SchedulingStrategy::decode` and the dispatch of `schedule`.               *)
OrderOf(n, dag) ==
    CASE n = 0 -> DepthFirst(dag)
      [] n = 1 -> BreadthFirst(dag)
      [] n = 2 -> Special(dag)
      [] n >= 3 -> ReverseBreadthFirst(dag)

Init ==
    /\ edges \in Digraphs
    /\ ss \in StrategyNumbers
    /\ answer = Pending

ReportSelfEdge ==
    /\ answer = Pending
    /\ \E n \in Nodes :
          /\ Contains(Dag(edges)[n], n)
          /\ \A m \in Nodes : Contains(Dag(edges)[m], m) => n <= m
          /\ answer' = [tag |-> "selfEdge", node |-> n]
    /\ UNCHANGED <<edges, ss>>

NoSelfEdge == \A n \in Nodes : ~ Contains(Dag(edges)[n], n)

ReportCycle ==
    /\ answer = Pending
    /\ NoSelfEdge
    /\ Peeled(Dag(edges), {}) # Nodes
    /\ answer' = [tag |-> "cycle", remaining |-> Nodes \ Peeled(Dag(edges), {})]
    /\ UNCHANGED <<edges, ss>>

Serialize ==
    /\ answer = Pending
    /\ NoSelfEdge
    /\ Peeled(Dag(edges), {}) = Nodes
    /\ answer' = [tag |-> "ordered", order |-> OrderOf(ss, Dag(edges))]
    /\ UNCHANGED <<edges, ss>>

Next == ReportSelfEdge \/ ReportCycle \/ Serialize

Spec == Init /\ [][Next]_vars

-----------------------------------------------------------------------------
(* The independent checker.                                                   *)

(* Mutant of Accepts: a node may be scheduled twice.                          *)
AcceptsRepeats(nodes, dag, order) ==
    LET position(n) == CHOOSE i \in 1 .. Len(order) : order[i] = n IN
    /\ IsInjective(nodes)
    /\ ToSet(order) = ToSet(nodes)
    /\ \A n \in ToSet(nodes) : \A d \in ToSet(dag[n]) :
          d \in ToSet(order) /\ position(d) < position(n)

(* `verify_schedule`: whether it accepts an order for a node list.            *)
Accepts(nodes, dag, order) ==
    LET position(n) == CHOOSE i \in 1 .. Len(order) : order[i] = n IN
    /\ IsInjective(nodes)
    /\ IsInjective(order)
    /\ ToSet(order) \subseteq ToSet(nodes)
    /\ ToSet(nodes) \subseteq ToSet(order)
    /\ \A n \in ToSet(nodes) : \A d \in ToSet(dag[n]) :
          d \in ToSet(order) /\ position(d) < position(n)

-----------------------------------------------------------------------------

TypeOK ==
    /\ edges \in Digraphs
    /\ ss \in StrategyNumbers
    /\ \/ answer = Pending
       \/ answer.tag = "ordered" /\ answer.order \in Seq(Nodes)
       \/ answer.tag = "selfEdge" /\ answer.node \in Nodes
       \/ answer.tag = "cycle" /\ answer.remaining \in (SUBSET Nodes) \ {{}}

(* The immediate edges to nodes of this graph.                                *)
DependencySets ==
    [n \in Nodes |-> {d \in Nodes : Contains(edges[n], [to |-> d, delayed |-> FALSE])}]

Contract == INSTANCE SchedulerContract WITH
    Graphs <- [Nodes -> SUBSET Nodes], deps <- DependencySets, outcome <- answer

(* S-Sound and S-Complete for every strategy, the fallback of Special past    *)
(* its range included, and the same errors whatever the strategy. Delayed and *)
(* foreign edges never make a graph unschedulable.                            *)
KeepsContract == Contract!Spec

(* The literal algorithm of C++ that Special stands for: the sequence with    *)
(* every duplicate, each node kept at its last occurrence, reversed.          *)
Alternate(a, b) ==
    LET n == Shorter(Len(a), Len(b))
    IN  FlattenSeq(Zip(a, b)) \o SubSeq(a, n + 1, Len(a)) \o SubSeq(b, n + 1, Len(b))

Raw(dag) ==
    LET rec[n \in Nodes] ==
          <<n>> \o FoldLeft(Alternate, << >>, [i \in 1 .. Len(dag[n]) |-> rec[dag[n][i]]])
        roots == RootsOf(dag)
    IN  FoldLeft(Alternate, << >>, [i \in 1 .. Len(roots) |-> rec[roots[i]]])

LastOccurrencesReversed(raw) ==
    LET last(n) == CHOOSE i \in 1 .. Len(raw) : raw[i] = n /\ \A j \in i + 1 .. Len(raw) : raw[j] # n
        later(m, n) == last(m) > last(n)
    IN  SetToSortSeq(ToSet(raw), later)

(* The doc of special.rs: the compact computation gives the very schedule of  *)
(* the literal one as long as the literal sequence fits the range, and the    *)
(* depth-first schedule past it.                                              *)
SpecialIsLiteral ==
    ss = 2 /\ answer.tag = "ordered" =>
        LET dag == Dag(edges) IN
        answer.order = IF Len(Raw(dag)) <= MaxLength
                       THEN LastOccurrencesReversed(Raw(dag))
                       ELSE DepthFirst(dag)

(* The number of edges of the longest path that starts at n.                  *)
LongestPath(children, n) ==
    Max({k \in 0 .. Cardinality(Nodes) - 1 :
            \E p \in [1 .. k + 1 -> Nodes] :
                /\ p[1] = n
                /\ \A i \in 1 .. k : Contains(children[p[i]], p[i + 1])})

(* Level membership, the parity target of the two breadth-first strategies: a *)
(* node comes before another when its longest path to a source is shorter     *)
(* (-ss 1), or when its longest path to a root is longer (-ss 3 and above).   *)
LevelsAreLongestPaths ==
    answer.tag = "ordered" /\ ss \notin {0, 2} =>
        LET dag == Dag(edges)
            level(n) == IF ss = 1 THEN LongestPath(dag, n) ELSE - LongestPath(Successors(dag), n)
        IN  \A i, j \in 1 .. Len(answer.order) :
                level(answer.order[i]) < level(answer.order[j]) => i < j

(* Each compact strategy gives the order its definition asks for, at the      *)
(* edges of its numbers: ranges that overflow, remainders, doubled edges.     *)
StrategiesAreTheirDefinitions == TypeOK /\ SpecialIsLiteral /\ LevelsAreLongestPaths

(* verify_schedule accepts exactly the orders that cover a duplicate-free     *)
(* node list once, dependencies first: an order that drops, repeats or        *)
(* invents a node is never certified.  The checker does not see the strategy: *)
(* one question a graph is enough.                                            *)
VerifierIsExact ==
    answer = Pending /\ ss = 0 =>
        \A order \in Candidates :
            /\ Accepts(Ascending, Dag(edges), order)
                  <=> Contract!Complete(order) /\ Contract!Sound(DependencySets, order)
            /\ \A n \in Nodes : ~ Accepts(Append(Ascending, n), Dag(edges), order)

=============================================================================
