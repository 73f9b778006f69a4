------------------------- MODULE BytecodeOptimizer -------------------------
(***************************************************************************)
(* The peephole optimiser of the interpreter's bytecode                    *)
(* (crates/codegen/src/backends/interp/optimizer.rs): six families of      *)
(* rewrites applied one level after the other, each level block by block,  *)
(* sub-blocks first, and on a block until a pass no longer shrinks it.     *)
(* A state lies between two passes.  What the code must mean is the value  *)
(* of the FIR program it was compiled from, computed here directly.        *)
(***************************************************************************)
EXTENDS FbcCompiler

CONSTANTS
    Programs,    \* FIR statements, as FbcCompiler reads them
    Heaps,       \* heaps the code is run on: [int |-> ..., real |-> ...]
    MaxLevel,    \* opt_level of the factory, 1..6
    Fuel         \* instructions a run of the machine may take

LevelAssumption == MaxLevel \in 1..6

VARIABLES
    program,     \* the FIR program
    arena,       \* the blocks of its code; the entry is the last
    level,       \* the level being applied
    todo         \* the blocks this level has not finished, in order

vars == <<program, arena, level, todo>>

---------------------------------------------------------------------------
(* Rewrites: the replacement of the instructions at k, or Copy.            *)

Copy == <<>>
Fuse(i, n) == <<i, n>>

IsValue(i, t) == i.code = "Value" /\ i.t = t
IsLoad(i, t) == i.code = "Load" /\ i.t = t
IsBinary(i) == i.code = "Math" /\ i.form = "Base"
IsUnary(i, t) == i.code = "Unary" /\ i.form = "Base" /\ i.t = t

\* Level 1: a constant index into a table is an address.
LoadStore(b, k) ==
    IF /\ k < Len(b)
       /\ IsValue(b[k], "int")
       /\ b[k + 1].code \in {"LoadIndexed", "StoreIndexed"}
    THEN Fuse(At(IF b[k + 1].code = "LoadIndexed" THEN "Load" ELSE "Store",
                 b[k + 1].t, b[k].v + b[k + 1].o1), 2)
    ELSE Copy

\* Level 2: a load or a constant that is stored at once.
Move(b, k) ==
    IF k < Len(b) /\ b[k + 1].code = "Store"
    THEN LET t == b[k + 1].t IN
         IF IsLoad(b[k], t) THEN Fuse(Between("Move", t, b[k + 1].o1, b[k].o1), 2)
         ELSE IF IsValue(b[k], t)
         THEN Fuse([code |-> "StoreValue", t |-> t, v |-> b[k].v, o1 |-> b[k + 1].o1], 2)
         ELSE Copy
    ELSE Copy

\* A move to the next slot.
IsStep(i, t) == i.code = "Move" /\ i.t = t /\ i.o1 = i.o2 + 1

\* Mutant of BlockMove: the run may also step by one slot.
MutantBlockMoveAnyStep(b, k) ==
    LET Run(n) == /\ k + n - 1 <= Len(b)
                  /\ \A j \in 0..(n - 1) : IsStep(b[k + j], "real")
                  /\ \A j \in 1..(n - 1) : b[k + j].o1 > b[k + j - 1].o1
        runs == {n \in 1..Len(b) : Run(n)} IN
    IF runs = {} THEN Copy
    ELSE LET n == Max(runs)
             begin == b[k].o2
             end == b[k + n - 1].o1 IN
         IF end - begin > 4 THEN Fuse(Between("BlockPairMove", "real", begin, end), n)
         ELSE Copy

\* Level 3: a run of real moves to the next slot, stepping by two.
BlockMove(b, k) ==
    LET Run(n) == /\ k + n - 1 <= Len(b)
                  /\ \A j \in 0..(n - 1) : IsStep(b[k + j], "real")
                  /\ \A j \in 1..(n - 1) : b[k + j].o1 = b[k + j - 1].o1 + 2
        runs == {n \in 1..Len(b) : Run(n)} IN
    IF runs = {} THEN Copy
    ELSE LET n == Max(runs)
             begin == b[k].o2
             end == b[k + n - 1].o1 IN
         IF end - begin > 4 THEN Fuse(Between("BlockPairMove", "real", begin, end), n)
         ELSE Copy

\* Level 4: two moves that shift neighbouring slots, the upper one first.
PairMove(b, k) ==
    IF \E t \in {"int", "real"} : /\ k < Len(b)
                                  /\ IsStep(b[k], t)
                                  /\ IsStep(b[k + 1], t)
                                  /\ b[k + 1].o1 = b[k].o2
    THEN Fuse(Between("PairMove", b[k].t, b[k].o1, b[k + 1].o1), 2)
    ELSE Copy

\* Level 5: a load that is cast at once.
CastLoad(b, k) ==
    IF /\ k < Len(b)
       /\ b[k + 1].code = "Cast"
       /\ IsLoad(b[k], OtherType(b[k + 1].t))
    THEN Fuse(At("CastHeap", b[k + 1].t, b[k].o1), 2)
    ELSE Copy

Zero(t) == IF t = "int" THEN 0 ELSE Real(0)
One(t) == IF t = "int" THEN 1 ELSE Real(1)

\* The operations whose operands may be exchanged, by FbcOpcode::is_commutative.
Commutative == {"Add", "Mult", "EQ", "Max"}

\* Mutant of Folded: the operands are folded in the order they were pushed.
MutantFoldedSwapped(i1, i2, m) ==
    IF /\ IsValue(i1, m.t) /\ IsValue(i2, m.t)
       /\ m.op # "LRsh"
       /\ ~(m.t = "int" /\ m.op \in {"Div", "Rem"} /\ i1.v = 0)
    THEN Fuse(ValueOf(ResultType(m.t, m.op), BinaryOp(m.t, m.op, i1.v, i2.v)), 3)
    ELSE Copy

\* Two constants: i2 was pushed last and is the left operand.  A division by
\* zero and the logical shift are left to the machine.
Folded(i1, i2, m) ==
    IF /\ IsValue(i1, m.t) /\ IsValue(i2, m.t)
       /\ m.op # "LRsh"
       /\ ~(m.t = "int" /\ m.op \in {"Div", "Rem"} /\ i1.v = 0)
    THEN Fuse(ValueOf(ResultType(m.t, m.op), BinaryOp(m.t, m.op, i2.v, i1.v)), 3)
    ELSE Copy

\* A constant and a load of which the operation returns one or the other.
\* The constant that was pushed first is the right operand.
Neutral(i1, i2, m) ==
    LET t == m.t IN
    IF IsValue(i1, t) /\ IsLoad(i2, t)
    THEN IF \/ m.op \in {"Add", "Sub"} /\ i1.v = Zero(t)
            \/ m.op \in {"Mult", "Div"} /\ i1.v = One(t)
         THEN Fuse(i2, 3)
         ELSE IF m.op = "Mult" /\ i1.v = Zero(t) THEN Fuse(i1, 3)
         ELSE Copy
    ELSE IF IsLoad(i1, t) /\ IsValue(i2, t)
    THEN IF \/ m.op = "Add" /\ i2.v = Zero(t)
            \/ m.op = "Mult" /\ i2.v = One(t)
         THEN Fuse(i1, 3)
         ELSE IF t = "real" /\ m.op = "Mult" /\ i2.v = Zero(t) THEN Fuse(i2, 3)
         ELSE Copy
    ELSE Copy

\* Mutant of OperandForms: a constant pushed first is taken for a left operand.
MutantOperandFormsNoInvert(i1, i2, m) ==
    IF \E t \in {"int", "real"} : IsLoad(i1, t) /\ IsLoad(i2, t)
    THEN Fuse([m EXCEPT !.form = "Heap"] @@ [o1 |-> i2.o1, o2 |-> i1.o1], 3)
    ELSE IF \E t \in {"int", "real"} : IsLoad(i1, t) /\ IsValue(i2, t)
    THEN Fuse([m EXCEPT !.form = "Value"] @@ [v |-> i2.v, o1 |-> i1.o1], 3)
    ELSE IF \E t \in {"int", "real"} : IsValue(i1, t) /\ IsLoad(i2, t)
    THEN Fuse([m EXCEPT !.form = "Value"] @@ [v |-> i1.v, o1 |-> i2.o1], 3)
    ELSE Copy

\* Operands that are loads or constants become part of the instruction:
\* to_heap, to_value and to_value_invert.
OperandForms(i1, i2, m) ==
    IF \E t \in {"int", "real"} : IsLoad(i1, t) /\ IsLoad(i2, t)
    THEN Fuse([m EXCEPT !.form = "Heap"] @@ [o1 |-> i2.o1, o2 |-> i1.o1], 3)
    ELSE IF \E t \in {"int", "real"} : IsLoad(i1, t) /\ IsValue(i2, t)
    THEN Fuse([m EXCEPT !.form = "Value"] @@ [v |-> i2.v, o1 |-> i1.o1], 3)
    ELSE IF \E t \in {"int", "real"} : IsValue(i1, t) /\ IsLoad(i2, t)
    THEN Fuse([m EXCEPT !.form = IF m.op \in Commutative THEN "Value" ELSE "ValueInvert"]
              @@ [v |-> i1.v, o1 |-> i2.o1], 3)
    ELSE Copy

\* The first of the rewrites that applies.
FirstOf(rewrites) ==
    LET found == {r \in 1..Len(rewrites) : rewrites[r] # Copy} IN
    IF found = {} THEN Copy ELSE rewrites[Min(found)]

MathOfThree(b, k) ==
    IF k + 2 <= Len(b) /\ IsBinary(b[k + 2])
    THEN FirstOf(<<Folded(b[k], b[k + 1], b[k + 2]),
                   Neutral(b[k], b[k + 1], b[k + 2]),
                   OperandForms(b[k], b[k + 1], b[k + 2])>>)
    ELSE Copy

\* A constant that is cast, the absolute value of a constant or of a real
\* load, and a right operand left on the stack.
MathOfTwo(b, k) ==
    IF k = Len(b) THEN Copy
    ELSE LET i1 == b[k]
             i2 == b[k + 1] IN
         IF i2.code = "Cast" /\ IsValue(i1, OtherType(i2.t))
         THEN Fuse(ValueOf(i2.t, CastTo(i2.t, i1.v)), 2)
         ELSE IF \E t \in {"int", "real"} : IsValue(i1, t) /\ IsUnary(i2, t)
         THEN Fuse(ValueOf(i2.t, Absolute(i2.t, i1.v)), 2)
         ELSE IF IsBinary(i2) /\ i1.code = "Load"
         THEN Fuse([i2 EXCEPT !.form = "Stack"] @@ [o1 |-> i1.o1], 2)
         ELSE IF IsBinary(i2) /\ i1.code = "Value"
         THEN Fuse([i2 EXCEPT !.form = "StackValue"] @@ [v |-> i1.v], 2)
         ELSE IF IsLoad(i1, "real") /\ IsUnary(i2, "real")
         THEN Fuse([i2 EXCEPT !.form = "Heap"] @@ [o1 |-> i1.o1], 2)
         ELSE Copy

\* Level 6: arithmetic, the patterns of three instructions first.
Math(b, k) == FirstOf(<<MathOfThree(b, k), MathOfTwo(b, k)>>)

Rewrite(l, b, k) ==
    CASE l = 1 -> LoadStore(b, k)
      [] l = 2 -> Move(b, k)
      [] l = 3 -> BlockMove(b, k)
      [] l = 4 -> PairMove(b, k)
      [] l = 5 -> CastLoad(b, k)
      [] l = 6 -> Math(b, k)

---------------------------------------------------------------------------
(* Passes.                                                                 *)

\* apply_rewriter: one sweep over a block, rewriting where it can.
RECURSIVE Sweep(_, _, _)
Sweep(l, b, k) ==
    IF k > Len(b) THEN <<>>
    ELSE LET r == Rewrite(l, b, k) IN
         IF r = Copy THEN <<b[k]>> \o Sweep(l, b, k + 1)
         ELSE <<r[1]>> \o Sweep(l, b, k + r[2])

\* The blocks optimize_recursive goes into: both sides of a choice, and the
\* body of a loop but not its initialisation.
SubBlocks(b) ==
    FlattenSeq([k \in 1..Len(b) |->
        CASE b[k].code = "Loop" -> <<b[k].b2>>
          [] b[k].code \in {"If", "Select"} -> <<b[k].b1, b[k].b2>>
          [] OTHER -> <<>>])

\* A block after its sub-blocks.
RECURSIVE Recursively(_, _)
Recursively(blocks, id) ==
    FlattenSeq([k \in 1..Len(SubBlocks(blocks[id])) |->
                   Recursively(blocks, SubBlocks(blocks[id])[k])]) \o <<id>>

Entry == Len(arena)

Init ==
    /\ program \in Programs
    /\ arena = Compiled(program)
    /\ level = 1
    /\ todo = Recursively(arena, Entry)

\* Mutant of Finished: a block is swept once.
MutantFinishedOnce(old, new) == TRUE

\* optimize_until_fixpoint stops when the block stopped shrinking.
Finished(old, new) == Len(new) >= Len(old)

\* One sweep of the block at hand.
Pass ==
    /\ todo # <<>>
    /\ LET id == Head(todo)
           swept == Sweep(level, arena[id], 1) IN
       /\ arena' = [arena EXCEPT ![id] = swept]
       /\ todo' = IF Finished(arena[id], swept) THEN Tail(todo) ELSE todo
    /\ UNCHANGED <<program, level>>

\* optimize_block goes to the next level.
NextLevel ==
    /\ todo = <<>>
    /\ level < MaxLevel
    /\ level' = level + 1
    /\ todo' = Recursively(arena, Entry)
    /\ UNCHANGED <<program, arena>>

Next == Pass \/ NextLevel

Spec == Init /\ [][Next]_vars

---------------------------------------------------------------------------
(* What a FIR program means, read off the program alone.                   *)

RECURSIVE TypeOf(_)
TypeOf(e) ==
    CASE e[1] = "bin" -> ResultType(TypeOf(e[3]), e[2])
      [] e[1] = "select" -> TypeOf(e[3])
      [] OTHER -> e[2]

RECURSIVE Meaning(_, _)
Meaning(e, heap) ==
    CASE e[1] = "lit" -> e[3]
      [] e[1] = "var" -> heap[e[2]][e[3]]
      [] e[1] = "table" -> heap[e[2]][e[3] + Meaning(e[4], heap)]
      [] e[1] = "bin" ->
             BinaryOp(TypeOf(e[3]), e[2], Meaning(e[3], heap), Meaning(e[4], heap))
      [] e[1] = "max" -> BinaryOp(e[2], "Max", Meaning(e[3], heap), Meaning(e[4], heap))
      [] e[1] = "neg" ->
             BinaryOp(e[2], "Mult", IF e[2] = "int" THEN -1 ELSE Real(-1), Meaning(e[3], heap))
      [] e[1] = "abs" -> Absolute(e[2], Meaning(e[3], heap))
      [] e[1] = "cast" -> IF TypeOf(e[3]) = e[2] THEN Meaning(e[3], heap)
                          ELSE CastTo(e[2], Meaning(e[3], heap))
      [] e[1] = "select" -> IF Meaning(e[2], heap) # 0 THEN Meaning(e[3], heap)
                            ELSE Meaning(e[4], heap)

RECURSIVE Effect(_, _)
Effect(s, heap) ==
    CASE s[1] = "store" -> [heap EXCEPT ![s[2]][s[3]] = Meaning(s[4], heap)]
      [] s[1] = "storetable" ->
             [heap EXCEPT ![s[2]][s[3] + Meaning(s[4], heap)] = Meaning(s[5], heap)]
      [] s[1] = "shift" ->
             [heap EXCEPT ![s[2]] =
                 [a \in DOMAIN @ |-> IF a \in (s[3] + 1)..(s[3] + s[4]) THEN @[a - 1] ELSE @[a]]]
      [] s[1] = "if" -> IF Meaning(s[2], heap) # 0 THEN Effect(s[3], heap)
                        ELSE Effect(s[4], heap)
      [] s[1] = "block" -> FoldLeft(LAMBDA h, x : Effect(x, h), heap, s[2])
      [] s[1] = "loop" ->
             LET n == Meaning(s[3], heap)
                 At0(h, k) == [h EXCEPT !.int[s[2]] = k]
                 order == [k \in 1..n |-> IF s[5] THEN n - k ELSE k - 1] IN
             IF n <= 0 THEN heap
             ELSE At0(FoldLeft(LAMBDA h, k : Effect(s[4], At0(h, k)), heap, order),
                      IF s[5] THEN -1 ELSE n)

---------------------------------------------------------------------------

Outcome(heap) == RunBlock(Start(Entry, heap), arena, Fuel)

\* TypeOK: the blocks are non-empty sequences of instructions that end with
\* a return, and the work left names blocks of the arena.
TypeOK ==
    /\ program \in Programs
    /\ level \in 1..MaxLevel
    /\ \A k \in 1..Len(todo) : todo[k] \in 1..Len(arena)
    /\ \A id \in 1..Len(arena) : arena[id] # <<>> /\ Last(arena[id]) = Plain("Return")

\* EveryLevelKeepsTheMeaning: after every sweep of every level, and before
\* the first, running the code leaves the heaps the FIR program asks for and
\* nothing on the stacks.  The order in which operands are pushed, fused,
\* folded and exchanged, the guard of a loop, the target of its branch and
\* the slots of fused moves all have to agree.
EveryLevelKeepsTheMeaning ==
    \A heap \in Heaps :
        LET end == Outcome(heap) IN
        /\ end.halt = "done"
        /\ end.heap = Effect(program, heap)
        /\ end.stack = [int |-> <<>>, real |-> <<>>]

\* LevelsAreExhausted: when a level is over, none of its rewrites applies
\* anywhere in the blocks it went through: stopping when a sweep does not
\* shrink the block never leaves a rewrite that would still have applied.
LevelsAreExhausted ==
    todo = <<>> =>
        \A id \in ToSet(Recursively(arena, Entry)) :
            \A k \in 1..Len(arena[id]) : Rewrite(level, arena[id], k) = Copy

=============================================================================
