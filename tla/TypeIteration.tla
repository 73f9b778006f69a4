---------------------------- MODULE TypeIteration ----------------------------
(***************************************************************************)
(* The full iteration that gives recursive groups their types              *)
(* (crates/sigtype/src/rules.rs, solve_recursive_groups_jacobi): every     *)
(* pass infers every group's body from the approximations of the pass      *)
(* before, joins it with the group's own, and widens each bound that       *)
(* moved.  It is what the incremental solver of RecursiveTypes promises.   *)
(*                                                                         *)
(* A type is its interval, the precision of the interval, and which of     *)
(* four qualifiers it has: a real nature ("real"), computed at execution   *)
(* ("exec"), boolean ("bool"), vectorable ("vect").  The start has none of *)
(* them: an integer, of initialisation, a number, a scalar.  The           *)
(* variability of an approximation is that of a sample from the start, and *)
(* is left out; a constant of compilation is taken for one of              *)
(* initialisation, which the start makes of it.  A group has one component *)
(* and its body no signal that typing refuses.                             *)
(*                                                                         *)
(* Bounds are 0..MaxBound.  The ends are the infinities, and the bounds    *)
(* next to them, 1 and MaxBound - 1, the greatest numbers: the operations  *)
(* reach the ends, widening does not.                                      *)
(***************************************************************************)
EXTENDS Integers, FiniteSets

CONSTANTS
    Groups,        \* recursive groups
    Nodes,         \* nodes of the signal graph
    MaxBound,      \* the greatest bound of an interval
    Zero,          \* the bound that stands for 0.0
    Bounds(_, _),  \* the interval of an operation, from those of its operands
    Qualifies(_, _)   \* its qualifiers, from those of its operands

VARIABLES
    program,       \* [node, body]: the graph of nodes, and each group's body
    current,       \* current approximation of each group
    ageMin,        \* passes that moved the lower bound of a group
    ageMax,        \* passes that moved its upper bound
    going          \* the last pass changed a type by ==

WIDENING_LIMIT == 0
MAX_AGE == WIDENING_LIMIT + 1

Interval(lo, hi, lsb) ==
    [lo |-> lo, hi |-> hi, lsb |-> IF lo = Zero /\ hi = Zero THEN 0 ELSE lsb]

\* Bounds that are no numbers are given as a lower one above the upper one.
Empty(i) == i.hi < i.lo

Type(i, quals) == [lo |-> i.lo, hi |-> i.hi, lsb |-> i.lsb, quals |-> quals]
IntervalOf(t) == [lo |-> t.lo, hi |-> t.hi, lsb |-> t.lsb]

\* The first approximation of a group, and the bounds it is widened to.
Initial == Type(Interval(Zero, Zero, 0), {})
Upper == [lo |-> 1, hi |-> MaxBound - 1]

\* Mutant of SameType: the precision counts.
SameTypeExact(s, t) == s = t

\* Equality of types ignores the precision.
SameType(s, t) == s.lo = t.lo /\ s.hi = t.hi /\ s.quals = t.quals

Smaller(m, n) == IF m < n THEN m ELSE n
Greater(m, n) == IF m < n THEN n ELSE m

\* The union of two intervals, the first of which has bounds.
Reunion(i, j) ==
    IF Empty(j) THEN i
    ELSE Interval(Smaller(i.lo, j.lo), Greater(i.hi, j.hi), Smaller(i.lsb, j.lsb))

\* Mutant of Merge: the intervals are intersected.
MergeMeet(old, inferred) ==
    Type(Interval(Greater(old.lo, inferred.lo), Smaller(old.hi, inferred.hi),
                  Smaller(old.lsb, inferred.lsb)), inferred.quals)

\* The next approximation: the inferred type with its interval and its
\* computability joined with the old ones.
Merge(old, inferred) ==
    Type(Reunion(IntervalOf(old), IntervalOf(inferred)),
         inferred.quals \cup (old.quals \cap {"exec"}))

\* Ages are counted up to MAX_AGE, above the limit: the full iteration ages a
\* group whose body is infinite at every pass, the incremental one only when it
\* recomputes the group, and widening tells no such ages apart.
AgedMin(age, old, next) == IF next.lo # old.lo THEN Smaller(age + 1, MAX_AGE) ELSE age
AgedMax(age, old, next) == IF next.hi # old.hi THEN Smaller(age + 1, MAX_AGE) ELSE age

\* Mutant of Widened: only the upper bound is widened.
WidenedAbove(old, next, aMin, aMax) ==
    Type(Interval(next.lo,
                  IF next.hi # old.hi /\ aMax > WIDENING_LIMIT THEN Upper.hi
                  ELSE next.hi, next.lsb), next.quals)

\* A bound that moved more often than the limit goes to the greatest number.
Widened(old, next, aMin, aMax) ==
    LET lo == IF next.lo # old.lo /\ aMin > WIDENING_LIMIT THEN Upper.lo
              ELSE next.lo
        hi == IF next.hi # old.hi /\ aMax > WIDENING_LIMIT THEN Upper.hi
              ELSE next.hi
    IN  Type(Interval(lo, hi, next.lsb), next.quals)

\* The nodes read the approximation of a group at the group's own node and
\* at the references to its variable.
Reads(n) == program.node[n].op \in {"group", "reference"}

\* The type of an operation: its interval comes from the intervals of its
\* operands, each of its qualifiers from their qualifiers.
Apply(op, args) ==
    Type(Bounds(op, [k \in DOMAIN args |-> IntervalOf(args[k])]),
         Qualifies(op, [k \in DOMAIN args |-> args[k].quals]))

\* Types of all nodes, given what is memoised.
TypesFrom(memo) ==
    LET type[n \in Nodes] ==
            LET node == program.node[n] IN
            IF n \in DOMAIN memo THEN memo[n]
            ELSE IF Reads(n) THEN current[node.of]
            ELSE Apply(node.op, [k \in DOMAIN node.args |-> type[node.args[k]]])
    IN  type

Inferred(g) == TypesFrom(<<>>)[program.body[g]]

Approximation(g, inferred) ==
    LET next == Merge(current[g], inferred) IN
    Widened(current[g], next, AgedMin(ageMin[g], current[g], next),
            AgedMax(ageMax[g], current[g], next))

\* The iteration starts so on every program.
Init ==
    /\ current = [g \in Groups |-> Initial]
    /\ ageMin = [g \in Groups |-> 0]
    /\ ageMax = [g \in Groups |-> 0]
    /\ going = TRUE

Pass ==
    /\ going
    /\ current' = [g \in Groups |-> Approximation(g, Inferred(g))]
    /\ ageMin' = [g \in Groups |->
                    AgedMin(ageMin[g], current[g], Merge(current[g], Inferred(g)))]
    /\ ageMax' = [g \in Groups |->
                    AgedMax(ageMax[g], current[g], Merge(current[g], Inferred(g)))]
    /\ going' = \E g \in Groups : ~SameType(current'[g], current[g])
    /\ UNCHANGED program

vars == <<program, current, ageMin, ageMax, going>>

Spec == Init /\ [][Pass]_vars
=============================================================================
