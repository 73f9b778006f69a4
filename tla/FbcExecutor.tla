---------------------------- MODULE FbcExecutor ----------------------------
(***************************************************************************)
(* The bytecode of the interpreter backend and the machine that runs it:   *)
(* the dispatch loop of crates/codegen/src/backends/interp/executor.rs,    *)
(* with two heaps, two value stacks and a stack of return addresses.       *)
(*                                                                         *)
(* The opcodes come in families that differ by their type and by the place *)
(* of their operands; an instruction here is a record naming the family,   *)
(* the type t of its value and, for arithmetic, the operation and the      *)
(* addressing form.  An integer is Width bits wide and wraps.  A real is a *)
(* quotient <<n, d>>: d = 0 gives the infinities and NaN, <<0, 0>>, which  *)
(* behave as those of IEEE 754; signed zeros and rounding are left out.    *)
(***************************************************************************)
EXTENDS Integers, Sequences, SequencesExt, FiniteSetsExt

CONSTANT
    Width     \* bits of the machine's integers, a power of two (32 in the code)

WidthAssumption == Width \in {2, 4, 8, 16}

---------------------------------------------------------------------------
(* Arithmetic.                                                             *)

\* Two's complement: what the wrapping_* operations of i32 return.
Wrap(n) == ((n + 2 ^ (Width - 1)) % 2 ^ Width) - 2 ^ (Width - 1)

\* The reading of an i32 as a u32.
Unsigned(n) == n % 2 ^ Width

\* Division of i32 truncates.
Truncated(a, b) ==
    LET Mag(n) == IF n < 0 THEN -n ELSE n IN
    IF (a < 0) = (b < 0) THEN Mag(a) \div Mag(b) ELSE -(Mag(a) \div Mag(b))

Real(n) == <<n, 1>>
NaN == <<0, 0>>

\* One form for zero and for each infinity, and a denominator that is not
\* negative.
Normal(n, d) ==
    LET Sign(k) == IF k > 0 THEN 1 ELSE IF k < 0 THEN -1 ELSE 0 IN
    IF d = 0 THEN <<Sign(n), 0>>
    ELSE IF n = 0 THEN <<0, 1>>
    ELSE IF d < 0 THEN <<-n, -d>> ELSE <<n, d>>

RealLess(x, y) == x[1] * y[2] < y[1] * x[2]
RealEqual(x, y) == x # NaN /\ x = y

Bit(b) == IF b THEN 1 ELSE 0

Comparisons == {"GT", "LT", "GE", "EQ"}

\* x op y on integers: x is the operand popped first.
IntOp(op, x, y) ==
    LET shift == y % Width IN
    CASE op = "Add" -> Wrap(x + y)
      [] op = "Sub" -> Wrap(x - y)
      [] op = "Mult" -> Wrap(x * y)
      [] op = "Div" -> IF y = 0 THEN 0 ELSE Wrap(Truncated(x, y))
      [] op = "Rem" -> IF y = 0 THEN 0 ELSE Wrap(x - y * Truncated(x, y))
      [] op = "Lsh" -> Wrap(x * 2 ^ shift)
      [] op = "ARsh" -> x \div 2 ^ shift
      [] op = "LRsh" -> Wrap(Unsigned(x) \div 2 ^ shift)
      [] op = "GT" -> Bit(x > y)
      [] op = "LT" -> Bit(x < y)
      [] op = "GE" -> Bit(x >= y)
      [] op = "EQ" -> Bit(x = y)
      [] op = "Max" -> IF x > y THEN x ELSE y

\* x op y on reals; Max is cpp_max: (x < y) ? y : x, so that with a NaN the
\* first operand is the result.
RealOp(op, x, y) ==
    CASE op = "Add" -> Normal(x[1] * y[2] + y[1] * x[2], x[2] * y[2])
      [] op = "Sub" -> Normal(x[1] * y[2] - y[1] * x[2], x[2] * y[2])
      [] op = "Mult" -> Normal(x[1] * y[1], x[2] * y[2])
      [] op = "Div" -> Normal(x[1] * y[2], x[2] * y[1])
      [] op = "GT" -> Bit(RealLess(y, x))
      [] op = "LT" -> Bit(RealLess(x, y))
      [] op = "GE" -> Bit(RealLess(y, x) \/ RealEqual(x, y))
      [] op = "EQ" -> Bit(RealEqual(x, y))
      [] op = "Max" -> IF RealLess(x, y) THEN y ELSE x

BinaryOp(t, op, x, y) == IF t = "int" THEN IntOp(op, x, y) ELSE RealOp(op, x, y)

ResultType(t, op) == IF op \in Comparisons THEN "int" ELSE t

\* abs on integers wraps the least one onto itself.
Absolute(t, v) ==
    IF t = "int" THEN IF v < 0 THEN Wrap(-v) ELSE v
    ELSE IF v[1] < 0 THEN <<-v[1], v[2]>> ELSE v

\* A real cast to i32 truncates and saturates, NaN gives 0; an i32 becomes
\* the real of the same value.
CastTo(t, v) ==
    LET most == 2 ^ (Width - 1) - 1
        least == -(2 ^ (Width - 1)) IN
    IF t = "real" THEN Real(v)
    ELSE IF v = NaN THEN 0
    ELSE IF v[2] = 0 THEN IF v[1] > 0 THEN most ELSE least
    ELSE Max({least, Min({most, Truncated(v[1], v[2])})})

OtherType(t) == IF t = "int" THEN "real" ELSE "int"

---------------------------------------------------------------------------
(* The machine.                                                            *)

Plain(code) == [code |-> code]
ValueOf(t, v) == [code |-> "Value", t |-> t, v |-> v]
At(code, t, o1) == [code |-> code, t |-> t, o1 |-> o1, o2 |-> 0]
Between(code, t, o1, o2) == [code |-> code, t |-> t, o1 |-> o1, o2 |-> o2]
Base(t, op) == [code |-> "Math", t |-> t, op |-> op, form |-> "Base"]
Branching(code, t, b1, b2) == [code |-> code, t |-> t, b1 |-> b1, b2 |-> b2]

\* Where the machine is, its stacks (top first), heaps and return addresses.
Start(block, heap) ==
    [block |-> block, pc |-> 1, stack |-> [int |-> <<>>, real |-> <<>>],
     heap |-> heap, addr |-> <<>>, halt |-> "no"]

Stop(m, why) == [m EXCEPT !.halt = why]
Push(m, t, v) == [m EXCEPT !.stack[t] = <<v>> \o @]
Drop(m, t, n) == [m EXCEPT !.stack[t] = SubSeq(@, n + 1, Len(@))]
Write(m, t, a, v) == [m EXCEPT !.heap[t][a] = v]
Advance(m) == [m EXCEPT !.pc = @ + 1]
Jump(m, b) == [m EXCEPT !.block = b, !.pc = 1]
Saving(m, b, p) == [m EXCEPT !.addr = <<<<b, p>>>> \o @]

\* The values an instruction pops, as <<type, number>> pairs.
Pops(i) ==
    CASE i.code \in {"Store"} -> {<<i.t, 1>>}
      [] i.code = "LoadIndexed" -> {<<"int", 1>>}
      [] i.code = "StoreIndexed" ->
             IF i.t = "int" THEN {<<"int", 2>>} ELSE {<<"int", 1>>, <<"real", 1>>}
      [] i.code = "Cast" -> {<<OtherType(i.t), 1>>}
      [] i.code = "Unary" -> IF i.form = "Base" THEN {<<i.t, 1>>} ELSE {}
      [] i.code = "Math" -> (CASE i.form = "Base" -> {<<i.t, 2>>}
                               [] i.form \in {"Stack", "StackValue"} -> {<<i.t, 1>>}
                               [] OTHER -> {})
      [] i.code \in {"If", "Select", "CondBranch"} -> {<<"int", 1>>}
      [] OTHER -> {}

\* The two operands of an arithmetic instruction, by addressing form.
Operands(m, i) ==
    LET top == m.stack[i.t] IN
    CASE i.form = "Base" -> <<top[1], top[2]>>
      [] i.form = "Heap" -> <<m.heap[i.t][i.o1], m.heap[i.t][i.o2]>>
      [] i.form = "Stack" -> <<m.heap[i.t][i.o1], top[1]>>
      [] i.form = "StackValue" -> <<i.v, top[1]>>
      [] i.form = "Value" -> <<i.v, m.heap[i.t][i.o1]>>
      [] i.form = "ValueInvert" -> <<m.heap[i.t][i.o1], i.v>>

\* Copies heap[a - 1] to heap[a] for each a of the sequence, in its order.
Shifted(m, t, as) ==
    FoldLeft(LAMBDA acc, a : Write(acc, t, a, acc.heap[t][a - 1]), m, as)

\* The instructions that go on to the next one.
Straight(m, i) ==
    CASE i.code = "Value" -> Push(m, i.t, i.v)
      [] i.code = "Load" -> Push(m, i.t, m.heap[i.t][i.o1])
      [] i.code = "Store" -> Drop(Write(m, i.t, i.o1, m.stack[i.t][1]), i.t, 1)
      [] i.code = "StoreValue" -> Write(m, i.t, i.o1, i.v)
      [] i.code = "LoadIndexed" ->
             Push(Drop(m, "int", 1), i.t, m.heap[i.t][i.o1 + m.stack.int[1]])
      [] i.code = "StoreIndexed" ->
             LET popped == Drop(m, "int", 1) IN
             Drop(Write(popped, i.t, i.o1 + m.stack.int[1], popped.stack[i.t][1]), i.t, 1)
      [] i.code = "Move" -> Write(m, i.t, i.o1, m.heap[i.t][i.o2])
      [] i.code = "PairMove" -> Shifted(m, i.t, <<i.o1, i.o2>>)
      [] i.code = "BlockPairMove" ->
             Shifted(m, i.t, [k \in 1..((i.o2 - i.o1 + 1) \div 2) |-> i.o1 + 2 * k - 1])
      [] i.code = "BlockShift" ->
             Shifted(m, i.t, [k \in 1..(i.o1 - i.o2) |-> i.o1 - k + 1])
      [] i.code = "Cast" ->
             Push(Drop(m, OtherType(i.t), 1), i.t, CastTo(i.t, m.stack[OtherType(i.t)][1]))
      [] i.code = "CastHeap" -> Push(m, i.t, CastTo(i.t, m.heap[OtherType(i.t)][i.o1]))
      [] i.code = "Unary" ->
             IF i.form = "Base"
             THEN Push(Drop(m, i.t, 1), i.t, Absolute(i.t, m.stack[i.t][1]))
             ELSE Push(m, i.t, Absolute(i.t, m.heap[i.t][i.o1]))
      [] i.code = "Math" ->
             LET operands == Operands(m, i)
                 popped == (CASE i.form = "Base" -> 2
                              [] i.form \in {"Stack", "StackValue"} -> 1
                              [] OTHER -> 0) IN
             Push(Drop(m, i.t, popped), ResultType(i.t, i.op),
                  BinaryOp(i.t, i.op, operands[1], operands[2]))

\* The instructions that go to another block.
Branch(m, i) ==
    CASE i.code = "Return" ->
             IF m.addr = <<>> THEN Stop(m, "done")
             ELSE [m EXCEPT !.block = m.addr[1][1], !.pc = m.addr[1][2], !.addr = Tail(@)]
      [] i.code \in {"If", "Select"} ->
             Jump(Drop(Saving(m, m.block, m.pc + 1), "int", 1),
                  IF m.stack.int[1] # 0 THEN i.b1 ELSE i.b2)
      [] i.code = "CondBranch" ->
             LET popped == Drop(m, "int", 1) IN
             IF m.stack.int[1] # 0 THEN Jump(popped, i.b1) ELSE Advance(popped)
      [] i.code = "Loop" ->
             Jump(Saving(Saving(m, m.block, m.pc + 1), i.b2, 1), i.b1)

Branches == {"Return", "If", "Select", "CondBranch", "Loop"}

\* Executes the instruction at pc.  A pop from an empty stack and a pc past
\* the block are the structured errors of the executor.
Execute(m, arena) ==
    IF m.pc > Len(arena[m.block]) THEN Stop(m, "invalid_block_pc")
    ELSE LET i == arena[m.block][m.pc] IN
         IF \E p \in Pops(i) : Len(m.stack[p[1]]) < p[2] THEN Stop(m, "stack_underflow")
         ELSE IF i.code \in Branches THEN Branch(m, i)
         ELSE Advance(Straight(m, i))

\* run_block, for at most fuel instructions.
RECURSIVE RunBlock(_, _, _)
RunBlock(m, arena, fuel) ==
    IF m.halt # "no" THEN m
    ELSE IF fuel = 0 THEN Stop(m, "out of fuel")
    ELSE RunBlock(Execute(m, arena), arena, fuel - 1)

=============================================================================
