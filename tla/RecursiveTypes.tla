--------------------------- MODULE RecursiveTypes ---------------------------
(***************************************************************************)
(* The incremental solver of recursive types                               *)
(* (crates/sigtype/src/rules.rs, solve_recursive_groups and SeedWalk).     *)
(* A pass recomputes only the groups whose bodies read an approximation    *)
(* that the pass before changed.  Types of nodes are memoised from pass to *)
(* pass: climbing from the seeds of the groups that changed, through the   *)
(* parents of each node, finds those that are out of date.                 *)
(***************************************************************************)
EXTENDS Integers, FiniteSets

CONSTANTS
    Groups, Nodes, MaxBound, Zero,        \* as in TypeIteration
    Bounds(_, _), Qualifies(_, _),        \* as in TypeIteration
    Programs,                             \* the programs to type
    Precisions                            \* precisions of intervals

ASSUME BoundsAssumption ==
    /\ MaxBound \in Nat /\ Zero \in 2..(MaxBound - 2)
    /\ Precisions \subseteq Int /\ 0 \in Precisions

\* Inference stops at the nodes of groups and at the references to them.
Approximated == {"group", "reference"}

\* Nodes are numbered as the arena interned them, children first; the body of
\* a group is the list of its signals, so it is neither a group nor a reference.
ASSUME ProgramsAssumption ==
    /\ Nodes \subseteq Nat /\ IsFiniteSet(Nodes)
    /\ \A p \in Programs :
         /\ \A g \in Groups :
               p.body[g] \in Nodes /\ p.node[p.body[g]].op \notin Approximated
         /\ \A n \in Nodes :
               /\ p.node[n].op \in Approximated => p.node[n].of \in Groups
               /\ \A k \in DOMAIN p.node[n].args :
                     p.node[n].args[k] \in Nodes /\ p.node[n].args[k] < n

Intervals == [lo : 0..MaxBound, hi : 0..MaxBound, lsb : Precisions]
Qualifiers == {"real", "exec", "bool", "vect"}
Types == [lo : 0..MaxBound, hi : 0..MaxBound, lsb : Precisions, quals : SUBSET Qualifiers]

\* The operations of the programs, each with the places of its operands.
Operations ==
    UNION {{<<p.node[n].op, DOMAIN p.node[n].args>> :
              n \in {m \in Nodes : p.node[m].op \notin Approximated}} : p \in Programs}

ASSUME ApplyAssumption ==
    \A o \in Operations :
        /\ \A args \in [o[2] -> Intervals] : Bounds(o[1], args) \in Intervals
        /\ \A args \in [o[2] -> SUBSET Qualifiers] : Qualifies(o[1], args) \subseteq Qualifiers

\* Every rule joins a qualifier over the operands, or some of them, or sets it:
\* what is real, executed or boolean makes no result less so, and what is
\* vectorable makes none less vectorable.
ASSUME QualifiersAssumption ==
    \A o \in Operations :
        \A s, t \in [o[2] -> SUBSET Qualifiers] :
            (\A k \in o[2] : s[k] \subseteq t[k]) =>
                Qualifies(o[1], s) \subseteq Qualifies(o[1], t)

VARIABLES
    program, current, ageMin, ageMax,   \* as in TypeIteration
    progress,      \* the last pass changed a type by ==
    env,           \* memoised types of nodes, those of the seeds apart
    stale          \* groups to recompute in the next pass

vars == <<program, current, ageMin, ageMax, progress, env, stale>>

Jacobi == INSTANCE TypeIteration WITH going <- progress

Init ==
    /\ program \in Programs
    /\ Jacobi!Init
    /\ env = <<>>
    /\ stale = Groups

IsSeed(n) == program.node[n].op = "group"
Children(n) == {program.node[n].args[k] : k \in DOMAIN program.node[n].args}

\* The nodes that a body's inference visits and memoises: the walk stops at
\* what is memoised, at groups' nodes and at references.
Visited(g) ==
    LET further(S) == S \cup UNION {Children(n) : n \in S \ DOMAIN env}
        below[k \in 0..Cardinality(Nodes)] ==
            IF k = 0 THEN {program.body[g]} ELSE further(below[k - 1])
    IN  {n \in below[Cardinality(Nodes)] : ~IsSeed(n)}

Parents(S) == {n \in Nodes : Children(n) \cap S # {}}

\* Mutant of ReferencesTo: only the groups' own nodes are climbed from.
ReferencesToNone(changed) == {}

ReferencesTo(changed) ==
    {n \in Nodes : program.node[n].op = "reference" /\ program.node[n].of \in changed}

\* Mutant of StaleNodes: one level is climbed.
StaleNodesOneLevel(changed) ==
    LET seeds == {n \in Nodes : IsSeed(n) /\ program.node[n].of \in changed}
    IN  ReferencesTo(changed) \cup Parents(seeds \cup ReferencesTo(changed))

\* The nodes whose type reads the approximation of a group of changed.
StaleNodes(changed) ==
    LET seeds == {n \in Nodes : IsSeed(n) /\ program.node[n].of \in changed}
        climb(S) == S \cup Parents(seeds \cup S)
        climbed[k \in 0..Cardinality(Nodes)] ==
            IF k = 0 THEN ReferencesTo(changed) ELSE climb(climbed[k - 1])
    IN  climbed[Cardinality(Nodes)]

\* Mutant of Changed: a change of precision alone is not seen.
ChangedByType(next) == {g \in stale : ~Jacobi!SameType(next[g], current[g])}

Changed(next) == {g \in stale : next[g] # current[g]}

\* What an iteration infers: the types of the nodes, and each recomputed
\* group's approximation before and after widening.  Every group reads the
\* approximations of the iteration before.
Outcome ==
    LET types == Jacobi!TypesFrom(env) IN
    [types |-> types,
     merged |-> [g \in stale |-> Jacobi!Merge(current[g], types[program.body[g]])],
     next |-> [g \in stale |-> Jacobi!Approximation(g, types[program.body[g]])],
     memoised |-> DOMAIN env \cup UNION {Visited(g) : g \in stale}]

\* One iteration of the loop.
Pass ==
    /\ stale # {}
    /\ \E o \in {Outcome} :
         /\ current' = [g \in Groups |->
                          IF g \in Changed(o.next) THEN o.next[g] ELSE current[g]]
         /\ ageMin' = [g \in Groups |->
                         IF g \in stale
                         THEN Jacobi!AgedMin(ageMin[g], current[g], o.merged[g])
                         ELSE ageMin[g]]
         /\ ageMax' = [g \in Groups |->
                         IF g \in stale
                         THEN Jacobi!AgedMax(ageMax[g], current[g], o.merged[g])
                         ELSE ageMax[g]]
         /\ progress' = \E g \in stale : ~Jacobi!SameType(o.next[g], current[g])
         /\ IF progress'
            THEN LET outdated == StaleNodes(Changed(o.next)) IN
                 /\ env' = [n \in o.memoised \ outdated |-> o.types[n]]
                 /\ stale' = {g \in Groups : program.body[g] \in outdated}
            ELSE env' = <<>> /\ stale' = {}
    /\ UNCHANGED program

Spec == Init /\ [][Pass]_vars

-----------------------------------------------------------------------------
TypeOK ==
    /\ stale \subseteq Groups
    /\ DOMAIN env \subseteq {n \in Nodes : ~IsSeed(n)}
    /\ current \in [Groups -> Types]

\* A memoised type is what inference from the current approximations gives:
\* climbing from the changed groups leaves no type that read one of them.
MemoIsFresh == \A n \in DOMAIN env : env[n] = Jacobi!TypesFrom(<<>>)[n]

\* A group that is not recomputed would be given its own approximation.
SkippedGroupsAreStable ==
    progress => \A g \in Groups \ stale :
                    Jacobi!Approximation(g, Jacobi!Inferred(g)) = current[g]

\* A bound of an approximation is zero's or, once it has moved, that of the
\* greatest numbers, whatever infinity a body reaches.
BoundsMoveOnce ==
    \A g \in Groups :
        /\ current[g].lo \in {Zero, Jacobi!Upper.lo}
        /\ current[g].hi \in {Zero, Jacobi!Upper.hi}

\* What the passes leave behind is consistent with what they skipped.
TypesAreSolved == TypeOK /\ MemoIsFresh /\ SkippedGroupsAreStable /\ BoundsMoveOnce

\* From c to d no bound comes back and no qualifier is lost.
Rises(c, d) == d.lo <= c.lo /\ c.hi <= d.hi /\ c.quals \subseteq d.quals

\* The greatest numbers stand for what is beyond them.
Within(t, c) ==
    /\ Jacobi!Empty(t) \/ /\ c.lo <= Jacobi!Greater(t.lo, Jacobi!Upper.lo)
                          /\ Jacobi!Smaller(t.hi, Jacobi!Upper.hi) <= c.hi
    /\ t.quals = c.quals

\* The solver stops, on a bound of the types.  No pass takes back a bound or a
\* qualifier, and one that is followed by another moves a bound or adds a
\* qualifier, of which each group has two and four: a precision that falls at
\* every pass does not keep it going.  The last pass changes no bound and no
\* qualifier of any group, and each approximation holds what its body computes,
\* up to the greatest numbers, from the approximations that the pass read.
PassesWiden ==
    [][/\ \A g \in Groups : Rises(current[g], current'[g])
       /\ progress' => \E g \in Groups : ~Rises(current'[g], current[g])
       /\ ~progress' =>
             \A g \in Groups : /\ Jacobi!SameType(current[g], current'[g])
                               /\ Within(Jacobi!Inferred(g), current'[g])]_vars

\* The passes are those of the full iteration, in every field of every
\* approximation and in the ages.
IsTheFullIteration == Jacobi!Spec
=============================================================================
