------------------------------ MODULE DelayPlan ------------------------------
(***************************************************************************)
(* The delay planner of the signal-to-FIR lowering (delay/plan.rs): one    *)
(* memoised depth-first walk of the prepared signals decides the length of *)
(* every delay line, per carried signal and clock context, and the longest *)
(* delayed read of every recursion output.  The lowering then looks lines  *)
(* and carriers up and checks no length again.                             *)
(*                                                                         *)
(* Visit is one call of DelayPlanner::node; todo is its call stack         *)
(* flattened: the children still to be visited, in the order of the code.  *)
(***************************************************************************)
EXTENDS Integers, Sequences, FiniteSetsExt

CONSTANTS
    Nodes,       \* the signals, 1 the root; a child has a greater number
    Programs,    \* the signal graphs to plan, see ProgramsAssumption
    Top,         \* no clock domain: the rate of compute
    Parent,      \* parent clock context of every domain
    MaxCopyDelay \* -mcd

Contexts == {Top} \cup DOMAIN Parent

(***************************************************************************)
(* A node has an operation and its operands.  at is the bound of a delay   *)
(* (-1 when the types give none), the domain a clocked annotation names,   *)
(* and the output a projection reads.                                      *)
(***************************************************************************)
Operations == {"leaf", "op", "delay", "delay1", "prefix", "rec", "ref",
               "clocked", "tempvar", "wrapper"}

ProgramsAssumption ==
    /\ MaxCopyDelay \in Nat /\ 1 \in Nodes /\ Nodes \subseteq Nat /\ IsFiniteSet(Nodes)
    /\ Top \notin DOMAIN Parent /\ \A d \in DOMAIN Parent : Parent[d] \in Contexts
    /\ \A p \in Programs, i \in Nodes :
           /\ p[i].op \in Operations
           /\ p[i].kids \in Seq({j \in Nodes : j > i})
           /\ p[i].op \in {"delay", "prefix"} => Len(p[i].kids) = 2
           /\ p[i].op \in {"delay1", "clocked", "tempvar"} => Len(p[i].kids) = 1
           /\ p[i].op = "delay" => p[i].at \in Nat \cup {-1}
           /\ p[i].op = "clocked" => p[i].at \in DOMAIN Parent

VARIABLES
    prog,     \* the signals
    todo,     \* visits to come: <<signal, accumulated delay, clock context>>
    best,     \* best_seen_delay: (signal, context) -> delay
    lines,    \* plan.lines: (signal, context) -> length
    outputs,  \* plan.rec_outputs: (output, context) -> longest delay
    outcome   \* "planning", "planned" or "refused"

vars == <<prog, todo, best, lines, outputs, outcome>>

OuterOf(c) == IF c = Top THEN Top ELSE Parent[c]
Kid(i, k) == prog[i].kids[k]
Projection(i) == prog[i].op \in {"rec", "ref"}

\* is_recursion_delay_chain_static and match_recursion_delay_key: the end of the
\* chain of Delay1 and Clocked below a node, the samples its Delay1 stand for, and
\* the domain its innermost Clocked names, Top if there is none
Chain[i \in Nodes] ==
    IF prog[i].op \notin {"delay1", "clocked"} THEN [end |-> i, implicit |-> 0, domain |-> Top]
    ELSE LET rest == Chain[Kid(i, 1)] IN
         [end |-> rest.end,
          implicit |-> rest.implicit + IF prog[i].op = "delay1" THEN 1 ELSE 0,
          domain |-> IF prog[i].op = "clocked" /\ rest.domain = Top THEN prog[i].at ELSE rest.domain]

OnRecursion(i) == Projection(Chain[i].end)

Set(f, key, n) == [k \in DOMAIN f \cup {key} |-> IF k = key THEN n ELSE f[k]]
AtLeast(f, key, n) == IF key \in DOMAIN f /\ f[key] >= n THEN f ELSE Set(f, key, n)

(* The visits a node asks for, in order.                                   *)

\* Mutant of Calls: a delay hands its own length down, not the accumulated one.
CallsAfresh(i, acc, c) ==
    CASE prog[i].op = "delay"   -> <<<<Kid(i, 1), prog[i].at, c>>, <<Kid(i, 2), 0, c>>>>
      [] prog[i].op = "delay1"  -> <<<<Kid(i, 1), 1, c>>>>
      [] prog[i].op = "prefix"  -> <<<<Kid(i, 2), 1, c>>, <<Kid(i, 1), 0, c>>>>
      [] prog[i].op = "clocked" -> <<<<Kid(i, 1), acc, prog[i].at>>>>
      [] prog[i].op = "tempvar" -> <<<<Kid(i, 1), acc, OuterOf(c)>>>>
      [] OTHER -> [k \in DOMAIN prog[i].kids |-> <<Kid(i, k), 0, c>>]

Calls(i, acc, c) ==
    CASE prog[i].op = "delay"   -> <<<<Kid(i, 1), acc + prog[i].at, c>>, <<Kid(i, 2), 0, c>>>>
      [] prog[i].op = "delay1"  -> <<<<Kid(i, 1), acc + 1, c>>>>
      [] prog[i].op = "prefix"  -> <<<<Kid(i, 2), acc + 1, c>>, <<Kid(i, 1), 0, c>>>>
      [] prog[i].op = "clocked" -> <<<<Kid(i, 1), acc, prog[i].at>>>>
      [] prog[i].op = "tempvar" -> <<<<Kid(i, 1), acc, OuterOf(c)>>>>
      [] OTHER -> [k \in DOMAIN prog[i].kids |-> <<Kid(i, k), 0, c>>]

\* Mutant of Seen: the walk enters a signal once in a context.
SeenOnce(i, acc, c) == <<i, c>> \in DOMAIN best

Seen(i, acc, c) == <<i, c>> \in DOMAIN best /\ best[<<i, c>>] >= acc

\* Mutant of Owned: no copy for Delay1, whatever -mcd.
OwnedByDelay(i) == prog[i].op = "delay" /\ prog[i].at > 0 /\ ~OnRecursion(Kid(i, 1))

\* the delay nodes that own a line over their operand
Owned(i) ==
    /\ \/ prog[i].op = "delay" /\ prog[i].at > 0
       \/ prog[i].op = "delay1" /\ MaxCopyDelay >= 1
    /\ ~OnRecursion(Kid(i, 1))

LengthOf(i) == IF prog[i].op = "delay" THEN prog[i].at ELSE 1

Scanned(i, c) ==
    IF <<i, c>> \notin DOMAIN best /\ Owned(i)
    THEN AtLeast(lines, <<Kid(i, 1), c>>, LengthOf(i)) ELSE lines

Init ==
    /\ prog \in Programs
    /\ todo = <<<<1, 0, Top>>>>
    /\ best = <<>> /\ lines = <<>> /\ outputs = <<>>
    /\ outcome = "planning"

\* a call of node that the memo cuts
Skip ==
    /\ outcome = "planning" /\ todo # <<>>
    /\ Seen(todo[1][1], todo[1][2], todo[1][3])
    /\ todo' = Tail(todo)
    /\ UNCHANGED <<prog, best, lines, outputs, outcome>>

\* Mutant of Fails: a missing bound is a bound of zero.
FailsNever(i) == FALSE

Fails(i) == prog[i].op = "delay" /\ prog[i].at < 0

\* a call of node that records, scans and descends; it fails on a delay whose
\* amount has no bound
Visit ==
    /\ outcome = "planning" /\ todo # <<>>
    /\ LET i == todo[1][1]
           acc == todo[1][2]
           c == todo[1][3]
       IN /\ ~Seen(i, acc, c)
          /\ best' = Set(best, <<i, c>>, acc)
          /\ outputs' = IF acc > 0 /\ Projection(i)
                        THEN AtLeast(outputs, <<prog[i].at, c>>, acc) ELSE outputs
          /\ lines' = Scanned(i, c)
          /\ IF Fails(i)
             THEN outcome' = "refused" /\ todo' = Tail(todo)
             ELSE outcome' = outcome /\ todo' = Calls(i, acc, c) \o Tail(todo)
    /\ UNCHANGED prog

Finish ==
    /\ outcome = "planning" /\ todo = <<>>
    /\ outcome' = "planned"
    /\ UNCHANGED <<prog, todo, best, lines, outputs>>

Next == Skip \/ Visit \/ Finish

Spec == Init /\ [][Next]_vars 

-----------------------------------------------------------------------------
(* What the lowering asks for, along every path from the root and without a *)
(* memo: the contexts a node is lowered in, with the delay that separates   *)
(* it, through delays and annotations only, from a read above it.           *)

DelayOf(i, k) ==
    CASE prog[i].op = "delay" /\ k = 1 -> prog[i].at
      [] prog[i].op = "delay1" \/ (prog[i].op = "prefix" /\ k = 2) -> 1
      [] OTHER -> 0
Carries(i, k) == DelayOf(i, k) > 0 \/ prog[i].op \in {"clocked", "tempvar"}
                 \/ (prog[i].op = "delay" /\ k = 1)

\* the context of the k-th operand when the node is lowered in c
RegionOf(i, c) == CASE prog[i].op = "clocked" -> prog[i].at
                    [] prog[i].op = "tempvar" -> OuterOf(c)
                    [] OTHER -> c

Occurrences[j \in Nodes] ==
    (IF j = 1 THEN {<<Top, 0>>} ELSE {}) \cup
    UNION {UNION {{<<RegionOf(i, u[1]), IF Carries(i, k) THEN u[2] + DelayOf(i, k) ELSE 0>> :
                      u \in Occurrences[i]} :
                  k \in {n \in DOMAIN prog[i].kids : Kid(i, n) = j}} :
           i \in {n \in Nodes : n < j}}

LoweredIn(j) == {u[1] : u \in Occurrences[j]}
Unbounded == \E i \in Nodes : prog[i].op = "delay" /\ prog[i].at < 0 /\ LoweredIn(i) # {}

\* the context of the end of a chain that starts in c
EndContext(i, c) == IF Chain[i].domain = Top THEN c ELSE Chain[i].domain

\* the length of the line or of the copy a delay node is lowered with, if any
Requests(i) == IF (prog[i].op = "delay" /\ prog[i].at > 0)
                  \/ (prog[i].op = "delay1" /\ MaxCopyDelay >= 1)
               THEN {LengthOf(i)} ELSE {}

\* The state is well formed; the memo, the lines and the carriers are keyed by
\* signals, outputs and contexts of the program.
TypeOK ==
    /\ outcome \in {"planning", "planned", "refused"}
    /\ \A n \in DOMAIN todo : todo[n] \in Nodes \X Nat \X Contexts
    /\ DOMAIN best \cup DOMAIN lines \subseteq Nodes \X Contexts
    /\ \A key \in DOMAIN lines : lines[key] \in Nat \ {0}
    /\ \A key \in DOMAIN outputs : outputs[key] \in Nat \ {0} /\ key[2] \in Contexts

\* The lowering checks no length again, so every delay it lowers, in every context
\* it lowers it in, must find a line as long as its bound, or, over a recursion, a
\* carrier planned for the bound and the whole chain under it.
EveryReadIsServed ==
    outcome = "planned" =>
        \A i \in Nodes : \A c \in LoweredIn(i), n \in Requests(i) :
            LET value == Kid(i, 1)
                carried == <<prog[Chain[value].end].at, EndContext(value, c)>>
            IN IF OnRecursion(value)
               THEN carried \in DOMAIN outputs /\ outputs[carried] >= n + Chain[value].implicit
               ELSE <<value, c>> \in DOMAIN lines /\ lines[<<value, c>>] >= n

\* The memo loses nothing and the plan invents nothing: every recursion output has
\* the longest delay of all the paths to it in its context, and every line the
\* longest request made of it.
DelaysTo(output, c) ==
    {u[2] : u \in {w \in UNION {Occurrences[i] : i \in {n \in Nodes :
                                 Projection(n) /\ prog[n].at = output}} :
                      w[1] = c /\ w[2] > 0}}
RequestsOf(v, c) ==
    UNION {Requests(i) : i \in {n \in Nodes : /\ c \in LoweredIn(n)
                                              /\ Requests(n) # {} /\ Kid(n, 1) = v
                                              /\ ~OnRecursion(v)}}
Maxima(keys, Of(_, _)) ==
    [key \in {k \in keys : Of(k[1], k[2]) # {}} |-> Max(Of(key[1], key[2]))]

PlanIsThePathMaxima ==
    outcome = "planned" =>
        /\ outputs = Maxima({prog[i].at : i \in {n \in Nodes : Projection(n)}} \X Contexts, DelaysTo)
        /\ lines = Maxima(Nodes \X Contexts, RequestsOf)

\* The planner refuses exactly the programs with a delay it cannot bound.
RefusesUnbounded ==
    /\ outcome = "refused" => Unbounded
    /\ outcome = "planned" => ~Unbounded
=============================================================================
