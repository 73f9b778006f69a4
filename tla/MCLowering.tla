------------------------------ MODULE MCLowering ------------------------------
(* Small instances of the passes of Lowering, and beside them two parts that  *)
(* rest on recursive operators: the tables folded at compile time and the     *)
(* bytecode optimiser of the interpreter.                                     *)
EXTENDS Lowering, Sequences, FiniteSets, TLC

CONSTANTS
    Store, Ui,                                \* resources of effects
    w1, w2, c1, c2, y1, y2, xa, xb, d1, d2    \* signals and domains of the graph

VARIABLES
    generator, rec, done, delay1, history, table,   \* tables
    program, arena, level, blocks                   \* bytecode

tableVars == <<generator, rec, done, delay1, history, table>>
bytecodeVars == <<program, arena, level, blocks>>
allVars == <<loweringVars, tableVars, bytecodeVars>>

-----------------------------------------------------------------------------
(* Effects: every graph of four nodes numbered in baseline order, and every   *)
(* choice of their effects on two resources.                                  *)
EffectNodes == 1 .. 4
EffectResources == {Store, Ui}
EffectBaselines == {[n \in EffectNodes |-> n]}
EffectRanks == [EffectNodes -> 1 .. 4]

\* effects of one node: what it reads, what it writes, whether it is a barrier
Kinds == {<<{}, {}, FALSE>>, <<{Store}, {}, FALSE>>, <<{}, {Store}, FALSE>>,
          <<{Store}, {Ui}, FALSE>>, <<{}, {}, TRUE>>}

EffectPrograms ==
    {[data |-> [n \in EffectNodes |-> {d \in EffectNodes : <<n, d>> \in pairs}],
      reads |-> [n \in EffectNodes |-> kinds[n][1]],
      writes |-> [n \in EffectNodes |-> kinds[n][2]],
      barriers |-> {n \in EffectNodes : kinds[n][3]}] :
        pairs \in SUBSET {<<n, d>> \in EffectNodes \X EffectNodes : d < n},
        kinds \in [EffectNodes -> Kinds]}

-----------------------------------------------------------------------------
(* Hierarchical graph: two blocks, one inside the other or beside it, and the *)
(* signals that reach them: w1 and w2 are the blocks, c their clocks, y their *)
(* results, xa and xb signals of the top level that one or both may use, from *)
(* two levels in as well; y1 or xa may read itself back out of state, and y2  *)
(* xb.                                                                        *)
GraphSignals == {w1, w2, c1, c2, y1, y2, xa, xb}

BlockEnv(nested) ==
    (w1 :> Nil) @@ (w2 :> IF nested THEN d1 ELSE Nil) @@ (c1 :> d1)
        @@ (c2 :> d2) @@ (y1 :> d1) @@ (y2 :> d2) @@ (xa :> Nil) @@ (xb :> Nil)

\* the shapes of forests, before there are any to walk
Shapes == INSTANCE HierarchicalGraph WITH
    Sigs <- GraphSignals, Domains <- GraphDomains, Programs <- {},
    prog <- hprog, stack <- hstack, todo <- outputsLeft

Small(S) == {T \in SUBSET S : Cardinality(T) <= 2}

GraphForests ==
    {p \in
        {[env |-> BlockEnv(nested),
          clock |-> [s \in GraphSignals |-> IF s = w1 THEN c1 ELSE IF s = w2 THEN c2 ELSE Nothing],
          inner |-> [s \in GraphSignals |-> IF s = w1 THEN d1 ELSE IF s = w2 THEN d2 ELSE Nil],
          above |-> (Nil :> {}) @@ (d1 :> {Nil}) @@ (d2 :> IF nested THEN {Nil, d1} ELSE {Nil}),
          slow |-> slow,
          now |-> (w1 :> {c1, y1}) @@ (w2 :> {c2, y2}) @@ (c1 :> {h1}) @@ (c2 :> {h2})
                  @@ (y1 :> n1) @@ (y2 :> n2) @@ (xa :> na) @@ (xb :> nb),
          held |-> [s \in GraphSignals |-> IF s = reader[1] THEN {reader[2]} ELSE {}],
          outputs |-> outs] :
            nested \in BOOLEAN, slow \in SUBSET {y1, xb},
            h1 \in {xa, xb}, h2 \in {xb, y1}, n1 \in Small({w2, xa, xb}),
            n2 \in {{}, {y1}, {xb}, {xa, c2}}, na \in {{}, {w1, xb}, {w1, w2}},
            nb \in {{}, {w2}},
            reader \in {<<Nothing, Nothing>>, <<y1, y1>>, <<xa, xa>>, <<y2, xb>>},
            outs \in {{xa}, {xb, xa}}} :
        Shapes!WellClocked(p)}

-----------------------------------------------------------------------------
(* Delay plan: every graph of four signals built from the operations below,   *)
(* where a signal may be shared and reached at several accumulated delays and *)
(* clock contexts; two domains, one inside the other.                         *)
PlannedNodes == 1 .. 4
Parents == 1 :> Off @@ 2 :> 1

Operation(op, kids, n) == [op |-> op, kids |-> kids, n |-> n]
Signal(op, kids, at) == [op |-> op, kids |-> kids, at |-> at]

AtOf(op) == CASE op = "delay" -> {-1, 0, 2, 3}
              [] op = "clocked" -> {1, 2}
              [] OTHER -> {0}

Inner(i) ==
    LET below == {j \in PlannedNodes : j > i} IN
    UNION {{Signal(op, <<k>>, at) : k \in below, at \in AtOf(op)} :
              op \in {"delay1", "rec", "clocked", "tempvar"}}
    \cup UNION {{Signal(op, <<k, l>>, at) : k \in below, l \in below, at \in AtOf(op)} :
                   op \in {"op", "delay", "prefix", "wrapper"}}

PlannedGraphs ==
    {<<i, j, k, leaf>> : i \in Inner(1), j \in Inner(2), k \in Inner(3),
                         leaf \in {Signal("leaf", <<>>, 0), Signal("ref", <<>>, 0)}}

-----------------------------------------------------------------------------
(* Carriers: groups of one and two outputs, read through up to two implicit   *)
(* delays and literal or runtime amounts of up to three samples.              *)
ProgramReads ==
    {r \in [output : 0 .. 1, implicit : 0 .. 2, least : 0 .. 3, most : 1 .. 3,
            prefix : BOOLEAN] :
        r.least <= r.most /\ (r.prefix => r.least = 1 /\ r.most = 1)}

-----------------------------------------------------------------------------
(* Clocked blocks: two domains, nested or side by side, of every pair of      *)
(* shapes; a circular line at the top, and a line of each strategy in the     *)
(* domains.                                                                   *)
BlockPrograms ==
    {[parent |-> [d1 |-> "loop", d2 |-> parent],
      shape |-> [d1 |-> s1, d2 |-> s2],
      factor |-> [d1 |-> 2, d2 |-> 3],
      hold |-> [d1 |-> IF s1 = "if" THEN hold ELSE "slow", d2 |-> IF s2 = "if" THEN hold ELSE "fresh"],
      home |-> [top |-> "loop", a |-> "d1", b |-> "d1", c |-> "d2"],
      kind |-> [top |-> IF parent = "d1" THEN "circular" ELSE "ifWrapping", a |-> "circular", b |-> "ifWrapping",
                c |-> IF s1 = s2 THEN "shift" ELSE "circular"]] :
        parent \in {"loop", "d1"},
        s1 \in {"if", "loop", "modulo"}, s2 \in {"if", "loop", "modulo"},
        hold \in {"slow", "slowRead"}}

-----------------------------------------------------------------------------
(* Tables: every generator of five nodes in layers over one counter.          *)
Unary(from) ==
    {Operation("delay1", <<x>>, 0) : x \in from} \cup {Operation("prefix", <<x>>, 2) : x \in from}
    \cup {Operation("delay", <<x>>, n) : x \in from, n \in {2, 3}}

Selects(triples) == {Operation("select", t, 0) : t \in triples}

Generators ==
    {<<n1, n2, n3, n4, Operation("count", <<>>, 0)>> :
        n4 \in {Operation("odd", <<5>>, 0), Operation("count", <<>>, 0)},
        n3 \in Unary({4, 5}) \cup {Operation("add", <<4, 5>>, 0)},
        n2 \in Unary({3, 4, 5}) \cup {Operation("add", <<3, x>>, 0) : x \in {3, 4, 5}}
               \cup Selects({<<4, 3, 5>>, <<4, 5, 3>>, <<3, 4, 5>>}),
        n1 \in Unary({2}) \cup {Operation("add", <<2, x>>, 0) : x \in {2, 3, 4}}
               \cup Selects({<<4, 2, 3>>, <<4, 3, 2>>, <<2, 3, 5>>})}

Folding == INSTANCE TableGenerator WITH
    Nodes <- 1 .. 5, TableSize <- 5

-----------------------------------------------------------------------------
(* Bytecode: FIR programs over a heap of seven slots of each type.  Slot 2    *)
(* receives results, int slots 4..6 and real slots 4..6 are tables, int slot  *)
(* 3 is an index in range, and slots 0 and 1 are the variables of             *)
(* expressions.                                                               *)
Executor == INSTANCE FbcExecutor WITH Width <- 4

Lit(t, n) == <<"lit", t, IF t = "int" THEN n ELSE Executor!Real(n)>>
Var(t, a) == <<"var", t, a>>
Bin(op, x, y) == <<"bin", op, x, y>>
Set2(t, e) == <<"store", t, 2, e>>
Types == {"int", "real"}

Atoms(t) == {Lit(t, 0), Lit(t, 1), Lit(t, 3), Lit(t, -8), Var(t, 0), Var(t, 1)}
FewAtoms(t) == {Lit(t, 0), Lit(t, 3), Var(t, 0)}
Ops(t) == IF t = "int"
          THEN {"Add", "Sub", "Mult", "Div", "Rem", "Lsh", "ARsh", "LRsh", "GT", "EQ"}
          ELSE {"Add", "Sub", "Mult", "Div", "LT", "GE"}

\* One operation on two atoms, and the functions.
Single ==
    UNION {{Set2(Executor!ResultType(t, op), Bin(op, x, y)) : op \in Ops(t), x \in Atoms(t), y \in Atoms(t)}
              \cup {Set2(t, <<"max", t, x, y>>) : x \in Atoms(t), y \in Atoms(t)}
              \cup {Set2(t, <<"abs", t, x>>) : x \in Atoms(t)}
              \cup {Set2(t, <<"neg", t, x>>) : x \in Atoms(t)}
              \cup {Set2(t, x) : x \in Atoms(t)}
              \cup {Set2(Executor!OtherType(t), <<"cast", Executor!OtherType(t), x>>) : x \in Atoms(t)}
           : t \in Types}

\* Two operations, associated either way.
Nested ==
    UNION {{Set2(t, Bin(op, Bin(oq, x, y), z)) :
                op \in {"Sub", "Div"}, oq \in {"Sub", "Div"},
                x \in FewAtoms(t), y \in FewAtoms(t), z \in FewAtoms(t)}
              \cup {Set2(t, Bin(op, z, Bin(oq, x, y))) :
                op \in {"Sub", "Div"}, oq \in {"Sub", "Div"},
                x \in FewAtoms(t), y \in FewAtoms(t), z \in FewAtoms(t)}
           : t \in Types}

\* Shifts written as moves: up to five slots, each from the one below it.
Step(a) == <<"store", "real", a, Var("real", a - 1)>>
Orders == [1..3 -> 1..5]
              \cup {<<1, 2, 3, 4, 5>>, <<5, 4, 3, 2, 1>>, <<1, 3, 5, 2, 4>>, <<2, 1, 2, 4, 6>>}
Moves ==
    {<<"block", [k \in DOMAIN o |-> Step(o[k])]>> : o \in Orders}
        \cup {<<"shift", t, 3, n>> : t \in Types, n \in 0..3}
        \cup {<<"block", <<<<"store", "int", 2, Var("int", 1)>>,
                           <<"store", "int", 1, Var("int", 0)>>>>>>}

\* Indices and values of tables.
Indices == {Lit("int", 1), Var("int", 3), Bin("Sub", Var("int", 3), Lit("int", 1)),
            Bin("Sub", Lit("int", 1), Var("int", 3))}
Tables ==
    {Set2(t, <<"table", t, 5, i>>) : t \in Types, i \in Indices}
        \cup UNION {{<<"storetable", t, 5, i, Bin("Sub", x, y)>> :
                         i \in Indices, x \in FewAtoms(t), y \in FewAtoms(t)} : t \in Types}

\* Choices, loops and a choice inside a loop.
Conditions == {Var("int", 0), Bin("GT", Var("int", 0), Lit("int", 1)), Lit("int", 0)}
Bodies ==
    {<<"storetable", "int", 4, Var("int", 6), Var("int", 6)>>,
     <<"store", "int", 2, Bin("Sub", Var("int", 2), Var("int", 6))>>,
     <<"if", Var("int", 6), Step(2), <<"store", "real", 2, Lit("real", 3)>>>>}
Control ==
    UNION {{Set2(t, <<"select", c, x, y>>) :
                c \in Conditions, x \in FewAtoms(t), y \in FewAtoms(t)} : t \in Types}
        \cup {<<"if", c, Step(2), <<"block", <<Step(5), Step(1)>>>>>> : c \in Conditions}
        \cup {<<"loop", 6, n, s, r>> :
                n \in {Lit("int", 0), Lit("int", 2), Var("int", 3)}, s \in Bodies,
                r \in BOOLEAN}

BytecodePrograms == Single \cup Nested \cup Moves \cup Tables \cup Control

Heap(i, r) == [int |-> [a \in 0..6 |-> IF a \in DOMAIN i THEN i[a] ELSE a],
               real |-> [a \in 0..6 |-> IF a \in DOMAIN r THEN Executor!Real(r[a]) ELSE Executor!Real(a + 2)]]

\* The int slots 0, 1 and 3, and the real slots 0 and 1.
BytecodeHeaps ==
    {Heap(0 :> -8 @@ 1 :> -1 @@ 3 :> 0, 0 :> 0 @@ 1 :> 5),
     Heap(0 :> 2 @@ 1 :> 0 @@ 3 :> 1, 0 :> -3 @@ 1 :> 1)}

Optimizer == INSTANCE BytecodeOptimizer WITH
    Width <- 4, Programs <- BytecodePrograms, Heaps <- BytecodeHeaps, MaxLevel <- 6, Fuel <- 80,
    todo <- blocks

ASSUME TablesAndBytecodeAssumption ==
    /\ Folding!GeneratorAssumption
    /\ Optimizer!WidthAssumption /\ Optimizer!LevelAssumption

-----------------------------------------------------------------------------
LoweringOff ==
    EffectsRest /\ HierarchyOff /\ PlanOff /\ CarriersOff /\ ClockedOff

TablesOff ==
    /\ generator = Off /\ rec = Off /\ done = Off /\ delay1 = Off /\ history = Off
    /\ table = Off

BytecodeOff == program = Off /\ arena = Off /\ level = Off /\ blocks = Off

BackEndInit ==
    \/ LoweringInit /\ TablesOff /\ BytecodeOff
    \/ part = "tables" /\ Folding!Init /\ LoweringOff /\ BytecodeOff
    \/ part = "bytecode" /\ Optimizer!Init /\ LoweringOff /\ TablesOff

BackEndNext ==
    \/ LoweringNext /\ UNCHANGED <<tableVars, bytecodeVars>>
    \/ part = "tables" /\ Folding!Next /\ UNCHANGED <<loweringVars, bytecodeVars>>
    \/ part = "bytecode" /\ Optimizer!Next /\ UNCHANGED <<loweringVars, tableVars>>

BackEndSpec == BackEndInit /\ [][BackEndNext]_allVars

-----------------------------------------------------------------------------
(* The cells folded at compile time are those the generator would write if it *)
(* ran, for the generators whose delays are evaluated once at every step.     *)
(* Operands may be shared and chosen by a select2, but generators with a      *)
(* prefix, with a delay that several nodes use, or with a delay or recursion  *)
(* under a select2 branch are apart: the two modes differ on some of them.    *)
FoldedTablesAreTheGenerators ==
    part = "tables" => Folding!TypeOK /\ Folding!FoldedIsFilled

(* After every sweep of every level, and before the first, running the        *)
(* bytecode has the effect the FIR program asks for; and a level stops only   *)
(* when none of its rewrites applies any more.                                *)
OptimizedCodeKeepsItsMeaning ==
    part = "bytecode" =>
        /\ Optimizer!TypeOK
        /\ Optimizer!EveryLevelKeepsTheMeaning
        /\ Optimizer!LevelsAreExhausted

=============================================================================
