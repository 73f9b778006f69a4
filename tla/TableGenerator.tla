----------------------------- MODULE TableGenerator -----------------------------
(* The content of a generated table under --table-init const: an interpreter  *)
(* evaluates the generator once per cell, at compile time, with its own       *)
(* memory for recursions and delays. Under --table-init runtime the generator *)
(* is compiled and run sample by sample like any other signal.                *)
(* A generator is a graph of numbered nodes, the operands of a node coming    *)
(* after it: the arena shares equal signals.                                  *)
EXTENDS Integers, Sequences, FiniteSets, FiniteSetsExt, Functions

CONSTANTS
    Nodes,      \* 1 .. N; 1 is the generator
    Generators, \* [Nodes -> [op, kids, n]]: n is an amount or an initial value
    TableSize   \* cells of the table

Ops == {"count", "odd", "add", "select", "delay1", "delay", "prefix"}

GeneratorAssumption ==
    /\ Nodes = 1 .. Cardinality(Nodes)
    /\ TableSize \in Nat \ {0}
    /\ \A g \in Generators : \A k \in Nodes :
          g[k].op \in Ops /\ g[k].n \in Nat /\ \A i \in DOMAIN g[k].kids : g[k].kids[i] \in Nodes /\ g[k].kids[i] > k

VARIABLES
    generator,  \* the generator of this table
    rec,        \* rec_state: [cur, prev] of the recursion of every "count"
    done,       \* evaluating: the recursions evaluated at this step
    delay1,     \* [prev, cur]: delay1_prev and delay1_current, by carried node
    history,    \* delay_history, by delay node
    table       \* the cells folded so far

vars == <<generator, rec, done, delay1, history, table>>

-------------------------------------------------------------------------------
(* One evaluation: a value, and the memory it leaves.                         *)

Memory == [rec |-> rec, done |-> done, prev |-> delay1.prev, cur |-> delay1.cur, hist |-> history]

Result(v, m) == [v |-> v, m |-> m]

(* `eval_rec_and_project` of a counter, y = 1 + y': once a step.              *)
Counted(k, m) ==
    LET next == IF k \in m.done THEN m
                ELSE [m EXCEPT !.rec[k].cur = m.rec[k].prev + 1, !.done = @ \cup {k}]
    IN  Result(next.rec[k].cur, next)

(* Mutant of Delayed: one cell too far back.                                  *)
DelayedTooFar(k, n, x) ==
    LET h == Append(x.m.hist[k], x.v)
    IN  Result(IF Len(h) > n + 1 THEN h[Len(h) - n - 1] ELSE 0, [x.m EXCEPT !.hist[k] = h])

(* `eval_delay`, given the operand: every evaluation pushes its value.        *)
Delayed(k, n, x) ==
    LET h == Append(x.m.hist[k], x.v)
    IN  Result(IF Len(h) > n THEN h[Len(h) - n] ELSE 0, [x.m EXCEPT !.hist[k] = h])

RECURSIVE Eval(_, _)

(* `eval_delay1`: the previous value is read first, and the operand is        *)
(* evaluated once a step whatever the number of readers.                      *)
EvalDelay1(x, m) ==
    IF generator[x].op = "count" THEN Result(m.rec[x].prev, Counted(x, m).m)
    ELSE Result(IF x \in DOMAIN m.prev THEN m.prev[x] ELSE 0,
                IF x \in DOMAIN m.cur THEN m
                ELSE LET e == Eval(x, m)
                     IN  [e.m EXCEPT !.cur = [y \in DOMAIN @ \cup {x} |-> IF y = x THEN e.v ELSE @[y]]])

(* `eval`, operands from left to right; a select2 evaluates the branch it     *)
(* takes.                                                                     *)
Eval(k, m) ==
    LET node == generator[k]
        a == Eval(node.kids[1], m)
    IN  CASE node.op = "count"  -> Counted(k, m)
          [] node.op = "odd"    -> Result(a.v % 2, a.m)
          [] node.op = "add"    -> LET b == Eval(node.kids[2], a.m) IN Result(a.v + b.v, b.m)
          [] node.op = "select" -> Eval(node.kids[IF a.v = 0 THEN 2 ELSE 3], a.m)
          [] node.op = "delay1" -> EvalDelay1(node.kids[1], m)
          [] node.op = "delay"  -> Delayed(k, node.n, a)
          [] node.op = "prefix" -> IF table = <<>> THEN Result(node.n, m) ELSE a

-------------------------------------------------------------------------------

Init ==
    /\ generator \in Generators
    /\ rec = [k \in Nodes |-> [cur |-> 0, prev |-> 0]]
    /\ done = {}
    /\ delay1 = [prev |-> <<>>, cur |-> <<>>]
    /\ history = [k \in Nodes |-> <<>>]
    /\ table = <<>>

(* Mutant of Staged: what was staged stays for ever.                          *)
StagedForEver(m) == [prev |-> m.cur, cur |-> m.cur]

(* delay1 after `advance`.                                                    *)
Staged(m) == [prev |-> m.cur, cur |-> <<>>]

(* One cell of `interpret_generator`: an evaluation and `advance`.            *)
Cell ==
    /\ Len(table) < TableSize
    /\ LET e == Eval(1, Memory)
       IN  /\ table' = Append(table, e.v)
           /\ rec' = [k \in Nodes |-> [cur |-> e.m.rec[k].cur, prev |-> e.m.rec[k].cur]]
           /\ delay1' = Staged(e.m)
           /\ history' = e.m.hist
    /\ done' = {}
    /\ UNCHANGED generator

Next == Cell

Spec == Init /\ [][Next]_vars

-------------------------------------------------------------------------------

(* Sample t of every node when the generator runs: every node once a sample.  *)
Run[k \in Nodes, t \in 0 .. TableSize] ==
    LET kid(i) == Run[generator[k].kids[i], t]
        ago(n) == IF t < n THEN 0 ELSE Run[generator[k].kids[1], t - n]
    IN  CASE generator[k].op = "count"  -> t + 1
          [] generator[k].op = "odd"    -> kid(1) % 2
          [] generator[k].op = "add"    -> kid(1) + kid(2)
          [] generator[k].op = "select" -> IF kid(1) = 0 THEN kid(2) ELSE kid(3)
          [] generator[k].op = "delay1" -> ago(1)
          [] generator[k].op = "delay"  -> ago(generator[k].n)
          [] generator[k].op = "prefix" -> IF t = 0 THEN generator[k].n ELSE ago(1)

(* How often one step evaluates a node.                                       *)
Evaluations[k \in Nodes] ==
    IF k = 1 THEN 1
    ELSE LET uses == {u \in (1 .. k - 1) \X (1 .. 3) :
                        u[2] \in DOMAIN generator[u[1]].kids /\ generator[u[1]].kids[u[2]] = k}
         IN  FoldFunction(+, 0, [u \in uses |->
                IF generator[u[1]].op = "delay1" THEN (IF Evaluations[u[1]] > 0 THEN 1 ELSE 0)
                ELSE Evaluations[u[1]]])

(* The nodes a step may or may not evaluate: those under a select2 branch.    *)
Below[k \in Nodes] == {k} \cup UNION {Below[generator[k].kids[i]] : i \in DOMAIN generator[k].kids}

Branches == UNION {Below[generator[k].kids[2]] \cup Below[generator[k].kids[3]] :
                     k \in {j \in Nodes : generator[j].op = "select"}}

(* Every reachable delay is evaluated exactly once at every step.             *)
Regular ==
    /\ \A k \in Below[1] : generator[k].op # "prefix"
    /\ \A k \in Below[1] : generator[k].op = "delay" => Evaluations[k] = 1
    /\ \A k \in Branches : generator[k].op \notin {"count", "delay1", "delay"}

TypeOK ==
    /\ generator \in Generators /\ done = {}
    /\ table \in Seq(Nat) /\ Len(table) <= TableSize
    /\ \A k \in Nodes : rec[k].cur = rec[k].prev /\ rec[k].cur <= Len(table)
    /\ \A k \in Nodes : Len(history[k]) <= TableSize * Evaluations[k]
    /\ DOMAIN delay1.prev \subseteq Nodes /\ delay1.cur = <<>>

(* The two modes fill the table with the same cells, for the generators whose *)
(* delays and recursions are evaluated once at every step.                    *)
FoldedIsFilled ==
    Regular => \A i \in 1 .. Len(table) : table[i] = Run[1, i - 1]

===============================================================================
