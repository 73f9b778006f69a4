---------------------------- MODULE FbcCompiler ----------------------------
(***************************************************************************)
(* The FIR to bytecode compiler of the interpreter backend                 *)
(* (crates/codegen/src/backends/interp/compiler/), for the expressions and *)
(* statements that decide an order: operands, arguments, tables, selects,  *)
(* conditionals and counting loops.  A FIR node is a tuple whose first     *)
(* component names it; variables and tables are already heap addresses.    *)
(*                                                                         *)
(* The compiler holds the block it is filling and the arena of the blocks  *)
(* it has sealed; a block's number is its place in the arena.              *)
(***************************************************************************)
EXTENDS FbcExecutor

Emit(c, instrs) == [c EXCEPT !.cur = @ \o instrs]

\* begin_sub_block; and end_sub_block: the sealed block goes to the arena and
\* the block that was being filled comes back.
Open(c) == [cur |-> <<>>, arena |-> c.arena]

Close(outer, inner) ==
    [cur |-> outer.cur, arena |-> Append(inner.arena, Append(inner.cur, Plain("Return")))]

\* current_block_top_is_real: what the last emitted instruction leaves.
TopIsReal(c) ==
    /\ c.cur # <<>>
    /\ LET i == Last(c.cur) IN
       /\ i.code \in {"Value", "Load", "LoadIndexed", "Cast", "Select", "Math", "Unary"}
       /\ i.t = "real"
       /\ i.code = "Math" => i.op \notin Comparisons

Const(v) == ValueOf("int", v)

\* The end of a do-while whose body and step are in the open block `body`,
\* opened after the block `init` was sealed over c: test v against the bound,
\* branch back to the block about to be sealed, and the Loop of both.
CompileFor(c, init, v, body, bound, back) ==
    LET opened == Close(c, init)
        filled == Emit(body, bound \o <<At("Load", "int", v), Base("int", back)>>)
        looped == Emit(filled, <<Branching("CondBranch", "int", Len(body.arena) + 1, 0)>>)
        closed == Close(opened, looped) IN
    Emit(closed, <<Branching("Loop", "int", Len(opened.arena), Len(closed.arena))>>)

RECURSIVE Compile(_, _), CompileAll(_, _)

\* Mutant of CompileBinop: the left operand is compiled first.
MutantCompileBinopLeftFirst(c, n) ==
    LET left == Compile(n[3], c)
        right == Compile(n[4], left)
        t == IF TopIsReal(left) \/ TopIsReal(right) THEN "real" ELSE "int" IN
    Emit(right, <<Base(t, n[2])>>)

\* The right operand first, so that the left one is on top of the stack.
CompileBinop(c, n) ==
    LET right == Compile(n[4], c)
        left == Compile(n[3], right)
        t == IF TopIsReal(left) \/ TopIsReal(right) THEN "real" ELSE "int" IN
    Emit(left, <<Base(t, n[2])>>)

\* A cast is emitted only when the operand has the other type.
CompileCast(c, n) ==
    LET operand == Compile(n[3], c) IN
    IF TopIsReal(operand) = (n[2] = "real") THEN operand
    ELSE Emit(operand, <<[code |-> "Cast", t |-> n[2]]>>)

\* If and Select2: the condition, then a sealed block for each side.
CompileChoice(c, n) ==
    LET cond == Compile(n[2], c)
        thenSide == Compile(n[3], Open(cond))
        afterThen == Close(cond, thenSide)
        afterElse == Close(afterThen, Compile(n[4], Open(afterThen))) IN
    Emit(afterElse,
         <<Branching(IF n[1] = "if" THEN "If" ELSE "Select",
                     IF TopIsReal(thenSide) THEN "real" ELSE "int",
                     Len(afterThen.arena), Len(afterElse.arena))>>)

\* The do-while of a counting loop over v below n[3], or down to 0.
CompileCounting(c, n) ==
    LET v == n[2]
        reverse == n[5]
        init == IF reverse
                THEN Emit(Compile(n[3], Emit(Open(c), <<Const(1)>>)),
                          <<Base("int", "Sub"), At("Store", "int", v)>>)
                ELSE Emit(Open(c), <<[code |-> "StoreValue", t |-> "int", v |-> 0, o1 |-> v]>>)
        body == Compile(n[4], Open(Close(c, init)))
        step == IF reverse
                THEN <<Const(1), At("Load", "int", v), Base("int", "Sub")>>
                ELSE <<At("Load", "int", v), Const(1), Base("int", "Add")>>
        stepped == Emit(body, step \o <<At("Store", "int", v)>>) IN
    IF reverse THEN CompileFor(c, init, v, stepped, <<Const(0)>>, "GE")
    ELSE CompileFor(c, init, v, Compile(n[3], stepped), <<>>, "LT")

\* Mutant of CompileLoop: the do-while is not guarded.
MutantCompileLoopUnguarded(c, n) == CompileCounting(c, n)

\* SimpleForLoop: the do-while under `if (upper > 0)`, so that a bound that
\* admits no iteration runs the body zero times.
CompileLoop(c, n) ==
    LET guard == Emit(Compile(n[3], Emit(c, <<Const(0)>>)), <<Base("int", "GT")>>)
        afterThen == Close(guard, CompileCounting(Open(guard), n))
        afterElse == Close(afterThen, Open(afterThen)) IN
    Emit(afterElse, <<Branching("If", "int", Len(afterThen.arena), Len(afterElse.arena))>>)

\* compile_node.
Compile(n, c) ==
    CASE n[1] = "lit" -> Emit(c, <<ValueOf(n[2], n[3])>>)
      [] n[1] = "var" -> Emit(c, <<At("Load", n[2], n[3])>>)
      [] n[1] = "table" -> Emit(Compile(n[4], c), <<At("LoadIndexed", n[2], n[3])>>)
      [] n[1] = "bin" -> CompileBinop(c, n)
      [] n[1] = "neg" ->
             Emit(Compile(n[3], c),
                  <<ValueOf(n[2], IF n[2] = "int" THEN -1 ELSE Real(-1)), Base(n[2], "Mult")>>)
      [] n[1] = "max" -> Emit(CompileAll(<<n[4], n[3]>>, c), <<Base(n[2], "Max")>>)
      [] n[1] = "abs" ->
             Emit(Compile(n[3], c), <<[code |-> "Unary", t |-> n[2], form |-> "Base"]>>)
      [] n[1] = "cast" -> CompileCast(c, n)
      [] n[1] \in {"select", "if"} -> CompileChoice(c, n)
      [] n[1] = "store" -> Emit(Compile(n[4], c), <<At("Store", n[2], n[3])>>)
      [] n[1] = "storetable" ->
             Emit(CompileAll(<<n[5], n[4]>>, c), <<At("StoreIndexed", n[2], n[3])>>)
      [] n[1] = "shift" -> Emit(c, <<Between("BlockShift", n[2], n[3] + n[4], n[3])>>)
      [] n[1] = "loop" -> CompileLoop(c, n)
      [] n[1] = "block" -> CompileAll(n[2], c)

CompileAll(nodes, c) == FoldLeft(LAMBDA acc, n : Compile(n, acc), c, nodes)

\* The arena of a program: its entry block is the last one sealed.
Compiled(program) ==
    LET empty == [cur |-> <<>>, arena |-> <<>>] IN
    Close(empty, Compile(program, Open(empty))).arena

=============================================================================
