------------------------------ MODULE MCFrontEnd ------------------------------
(* Small instances of the front end: the imports of the parser and the types  *)
(* of recursive groups, which FrontEnd composes, and beside them the pattern  *)
(* matcher of the evaluator and the clock domains of the prepared signals.    *)
(* `part' says which of the four a behaviour is about, and the variables of   *)
(* the others are at rest.                                                    *)
EXTENDS FrontEnd, TLC

CONSTANTS main, lib, std, u, v, none    \* source locators

VARIABLES
    automaton, rules, layers, matchers,                     \* patterns
    forest, hyp, next, memo, todo, round, phase             \* clocks

patternVars == <<automaton, rules, layers, matchers>>
clockVars == <<forest, hyp, next, memo, todo, round, phase>>
allVars == <<frontEndVars, patternVars, clockVars>>

-----------------------------------------------------------------------------
(* Imports: every program of an entry and two sources, each with its own      *)
(* definitions, at most one local environment and at most two directives; and *)
(* programs over two sources that are fetched and may redirect.               *)
Own == [kind |-> "own", to |-> none, defs |-> <<>>]
Import(l) == [kind |-> "import", to |-> l, defs |-> <<>>]
Local(ds) == [kind |-> "local", to |-> none, defs |-> ds]

\* own definitions first, then environments, then imports: the order in which
\* format_definitions leaves them
Lists(targets, environmentTargets) ==
    {<<Own>>}
        \cup {<<Own, Import(x)>> : x \in targets}
        \cup {<<Own, Import(p[1]), Import(p[2])>> : p \in targets \X targets}
        \cup {<<Own, Local(<<Import(x)>>)>> : x \in environmentTargets}
        \cup {<<Own, Local(<<Import(p[1])>>), Import(p[2])>> :
                p \in environmentTargets \X targets}
        \cup {<<Own, Local(<<Import(p[1]), Import(p[2])>>)>> :
                p \in environmentTargets \X targets}

Identity(S) == [l \in S |-> l]

LocalWorlds ==
    {[content |-> main :> m @@ lib :> x @@ std :> y,
      redirect |-> Identity({main, lib, std}), entry |-> main] :
        m \in Lists({lib, std}, {lib, std}),
        x \in Lists({std, main}, {std, main}) \cup {<<Own, Import(none)>>},
        y \in Lists({lib, main}, {lib})}

\* v is an alias that u answers for, or u one of v, or they are two sources
Redirects == {Identity({main, u, v}), (v :> u) @@ Identity({main, u, v}),
              (u :> v) @@ Identity({main, u, v})}

RemoteWorlds ==
    {[content |-> main :> m @@ u :> x @@ v :> y, redirect |-> r, entry |-> e] :
        m \in Lists({u, v}, {u, v}), x \in Lists({v}, {v}),
        y \in {<<Own>>, <<Own, Import(u)>>, <<Own, Local(<<Import(u)>>)>>},
        r \in Redirects, e \in {main, v}}

Fetched == {u, v}
AllLocators == {main, lib, std} \cup Fetched
AllWorlds == LocalWorlds \cup RemoteWorlds

-----------------------------------------------------------------------------
(* Patterns: atoms 0 and 1, a binary operator and a ternary one.  Two rules   *)
(* of two flat patterns or of one nested pattern, three rules of two patterns *)
(* and four rules of one.  Of the 216 lists of three rules the compiler has a *)
(* lapse on 54, and 36 of these match otherwise than their rules say.         *)
AtomsAndOperators == <<"0", "1", "seq", "route">>

Tree0 == <<"0">>
Tree1 == <<"1">>
VarX == <<"var", "x">>
VarY == <<"var", "y">>

Flat == {Tree0, Tree1, VarX, VarY}
Nested == {<<"seq", VarX, VarX>>, <<"seq", VarX, Tree0>>, <<"seq", Tree0, VarY>>,
           <<"route", VarX, Tree1, VarX>>}

TwoRules == (Flat \X Flat) \X (Flat \X Flat)
TwoNested == LET P == Nested \cup {Tree0, VarX, <<"seq", <<"seq", VarX, Tree0>>, VarY>>}
             IN  {<<<<p>>, <<q>>>> : p \in P, q \in P}
ThreeRules ==
    [1 .. 3 -> {<<VarX, Tree0>>, <<VarX, Tree1>>, <<VarY, VarX>>, <<Tree0, Tree0>>, <<Tree1, VarX>>,
                <<VarX, <<"seq", VarX, Tree1>>>>}]
FourRules ==
    [1 .. 4 -> {<<t>> : t \in {Tree0, Tree1, VarX, <<"seq", VarX, Tree0>>, <<"seq", VarX, VarX>>}}]

Patterns == INSTANCE PatternMatcher WITH
    Symbols <- AtomsAndOperators,
    Width <- [c \in ToSet(AtomsAndOperators) |->
                 CASE c = "seq" -> 2 [] c = "route" -> 3 [] OTHER -> 0],
    Var <- "var", NoName <- "none",
    RuleLists <- TwoRules \cup TwoNested \cup ThreeRules \cup FourRules,
    Arguments <- {Tree0, Tree1, <<"seq", Tree1, Tree1>>, <<"seq", Tree0, Tree0>>,
                  <<"route", Tree0, Tree1, Tree1>>},
    MaxMatchers <- 3

-----------------------------------------------------------------------------
(* Clocks: two groups V and U, U inside V or beside it, over a block w: a and *)
(* b are their definitions, k an annotated signal, p the result of w.  Domain *)
(* d1 and d2 are inside d0.  The result of w may carry the annotation of      *)
(* another domain, as the forests of the program's tests do.                  *)
ClockSignals == {"i", "z", "rv", "ru", "V", "U", "a", "b", "k", "w", "kc", "p", "kp", "s"}
ClockDomains == {"d0", "d1", "d2"}

Sig(kind, dom, left, kids) == [kind |-> kind, dom |-> dom, left |-> left, kids |-> kids]

Shape(kd, kk, na, nb, wd, pd, res, cc, pp) ==
    ("i" :> Sig("leaf", "nil", "i", {})) @@ ("z" :> Sig("zero", "nil", "z", {}))
    @@ ("rv" :> Sig("ref", "nil", "V", {})) @@ ("ru" :> Sig("ref", "nil", "U", {}))
    @@ ("V" :> Sig("group", "nil", "V", {"a"})) @@ ("U" :> Sig("group", "nil", "U", {"b"}))
    @@ ("a" :> Sig("composite", "nil", "a", na)) @@ ("b" :> Sig("composite", "nil", "b", nb))
    @@ ("k" :> Sig("clocked", kd, "k", kk)) @@ ("kc" :> Sig("clocked", wd, "kc", cc))
    @@ ("w" :> Sig("wrapper", wd, "kc", res)) @@ ("p" :> Sig("composite", "nil", "p", {"kp"}))
    @@ ("kp" :> Sig("clocked", pd, "kp", pp)) @@ ("s" :> Sig("seq", "nil", "w", {"p"}))

\* the references of n not bound by a group around them
Free(n, s) ==
    LET RECURSIVE F(_)
        F(x) == CASE n[x].kind = "ref" -> {n[x].left}
                  [] n[x].kind \in {"wrapper", "seq"} -> F(n[x].left) \cup UNION {F(k) : k \in n[x].kids}
                  [] OTHER -> UNION {F(k) : k \in n[x].kids} \ {x}
    IN  F(s)

Few(S) == {T \in SUBSET S : Cardinality(T) \in 1 .. 2}

ClockForests ==
    {[node |-> n, outputs |-> {"V"}] :
        n \in {m \in {Shape(kd, kk, na, nb, wd, pd, res, cc, pp) :
                        kd \in ClockDomains, kk \in {{"i"}, {"rv"}},
                        na \in {{"U"}, {"k", "U"}, {"rv", "U"}, {"U", "s"}},
                        nb \in Few({"rv", "ru", "k", "s"}),
                        wd \in {"d0", "d1"}, pd \in {"d0", "d1"},
                        res \in {{"p"}, {"p", "z"}}, cc \in {{"i"}, {"rv"}},
                        pp \in {{"i"}, {"ru"}, {"k"}}} :
                  Free(m, "V") = {}}}

Clocks == INSTANCE ClockEnvironments WITH
    Sigs <- ClockSignals, Domains <- ClockDomains, Nil <- "nil",
    Parent <- ("d0" :> "nil") @@ ("d1" :> "d0") @@ ("d2" :> "d0"),
    Forests <- ClockForests, MaxIterations <- 3

-----------------------------------------------------------------------------
(* Types: programs of three groups; the second may hold or read the first,    *)
(* the third reads them, and bodies may share a node.  Nodes 1 and 2 are the  *)
(* groups', 3 to 5 the references to them, 6 to 10 the projections of these,  *)
(* 11 the shared node, 12 to 14 the bodies.                                   *)
TypedGroups == 1 .. 3
TypedNodes == 1 .. 14
TypedPrecisions == -3 .. 0

(* Numbers are -4 .. 4: the infinities, the greatest floats, the integers of  *)
(* -2 .. 2.  A bound is a number plus 4.                                      *)
Floats(lo, hi, lsb) ==
    [lo |-> lo + 4, hi |-> hi + 4,
     lsb |-> IF lo = 0 /\ hi = 0 THEN 0 ELSE IF lsb < -3 THEN -3 ELSE lsb]
NoNumbers == [lo |-> 8, hi |-> 0, lsb |-> 0]

Least(S) == CHOOSE n \in S : \A m \in S : n <= m
Clip(n, max) == IF n < -max THEN -max ELSE IF n > max THEN max ELSE n

(* A sum of floats that is a number: what is added to the greatest float      *)
(* leaves it, unless it is as great.                                          *)
Plus(x, y) ==
    IF {x, y} \subseteq -2 .. 2 THEN Clip(x + y, 3)
    ELSE IF x = -y THEN 0
    ELSE IF x = y THEN Clip(2 * x, 4)
    ELSE Least({z \in {x, y} : \A w \in {x, y} : w * w <= z * z})

Wrapped(n) == ((n + 2) % 5) - 2

(* interval addition: of integers it wraps around, of floats it overflows     *)
Sum(i, j) ==
    LET x == [lo |-> i.lo - 4, hi |-> i.hi - 4]
        y == [lo |-> j.lo - 4, hi |-> j.hi - 4]
        lsb == Least({i.lsb, j.lsb})
        lo == Plus(x.lo, y.lo)
        hi == Plus(x.hi, y.hi)
    IN  IF i.hi < i.lo \/ j.hi < j.lo THEN NoNumbers
        ELSE IF lsb = 0 /\ ((lo < -2 /\ hi >= -2) \/ (lo <= 2 /\ hi > 2)) THEN Floats(-2, 2, 0)
        ELSE IF lsb = 0
        THEN LET l == Wrapped(Clip(x.lo, 2) + Clip(y.lo, 2))
                 h == Wrapped(Clip(x.hi, 2) + Clip(y.hi, 2))
             IN  Floats(Least({l, h}), l + h - Least({l, h}), 0)
        ELSE IF {x.lo, y.lo} = {-4, 4} \/ {x.hi, y.hi} = {-4, 4} THEN NoNumbers
        ELSE Floats(lo, hi, lsb)

(* the sum, one more, the opposite, half, the conversion to an integer, a     *)
(* comparison, the delay; a projection, the number one, an input              *)
TypedBounds(op, args) ==
    CASE op = "one" -> Floats(1, 1, 0)
      [] op = "input" -> Floats(-1, 1, -1)
      [] op = "add" -> Sum(args[1], args[2])
      [] op = "succ" -> Sum(args[1], Floats(1, 1, 0))
      [] op \in {"neg", "halve", "intcast", "less", "delay", "proj"} ->
           LET x == args[1] IN
           IF op = "delay" /\ x.hi < x.lo THEN Floats(0, 0, 0)
           ELSE IF op = "proj" \/ x.hi < x.lo THEN x
           ELSE CASE op = "neg" -> Floats(4 - x.hi, 4 - x.lo, x.lsb)
                  [] op = "halve" -> Floats(x.lo - 4, x.hi - 4, x.lsb - 1)
                  [] op = "intcast" -> Floats(Clip(x.lo - 4, 2), Clip(x.hi - 4, 2), 0)
                  [] op = "less" -> Floats(0, 1, 0)
                  [] op = "delay" -> Floats(Least({x.lo - 4, 0}), 0 - Least({4 - x.hi, 0}), x.lsb)

TypedQualifiers(op, args) ==
    CASE op = "one" -> {"vect"}
      [] op = "input" -> {"real", "exec", "vect"}
      [] op = "add" -> ((args[1] \cup args[2]) \cap {"real", "exec"})
                          \cup (args[1] \cap args[2] \cap {"vect"})
      [] op = "less" -> (args[1] \cap {"exec", "vect"}) \cup {"bool"}
      [] op \in {"succ", "neg"} -> args[1] \ {"bool"}
      [] op = "halve" -> (args[1] \ {"bool"}) \cup {"real"}
      [] op = "intcast" -> args[1] \ {"real"}
      [] op = "proj" -> args[1] \ {"vect"}
      [] op = "delay" -> args[1]

Op(op, args) == [op |-> op, of |-> 0, args |-> args]
Leaf(op, g) == [op |-> op, of |-> g, args |-> <<>>]

Unary(S) ==
    {Op(op, <<x>>) : op \in {"succ", "neg", "halve", "intcast", "less", "delay"}, x \in S}
Binary(S) == {Op("add", p) : p \in S \X S}

Typed(s, b1, b2, b3) ==
    [node |-> <<Leaf("group", 1), Leaf("group", 2), Leaf("reference", 1),
                Leaf("reference", 2), Leaf("reference", 3)>>
              \o [k \in 1 .. 5 |-> Op("proj", <<k>>)] \o <<s, b1, b2, b3>>,
     body |-> <<12, 13, 14>>]

Args(n) == {n.args[k] : k \in DOMAIN n.args}
Uses(x, s, n) == x \in Args(n) \/ (11 \in Args(n) /\ x \in Args(s))

\* a reference to a group occurs in its body, or in that of a group it holds;
\* the first group does not hold the second
WellFormed(s, b1, b2) ==
    /\ ~Uses(6, s, b1) /\ ~Uses(8, s, b2)
    /\ Uses(9, s, b1) => Uses(6, s, b2)
    /\ 11 \in Args(b1) \cup Args(b2)

TypedPrograms ==
    {Typed(t[1], t[2], t[3], b3) :
       t \in {w \in ({Op("one", <<>>), Op("input", <<>>)} \cup Unary({6, 8, 9}))
                    \X (Unary({8, 9, 11}) \cup Binary({8, 9, 11}))
                    \X (Unary({6, 9, 11}) \cup Binary({6, 9, 11})) :
                WellFormed(w[1], w[2], w[3])},
       b3 \in {Op("neg", <<7>>), Op("halve", <<10>>), Op("add", <<7, 10>>)}}

SmallProgram == Typed(Op("one", <<>>), Op("neg", <<11>>), Op("neg", <<11>>), Op("neg", <<7>>))

ASSUME InstanceAssumption == Patterns!MatcherAssumption /\ Clocks!ForestAssumption

-----------------------------------------------------------------------------
PatternsOff == automaton = Off /\ rules = Off /\ layers = Off /\ matchers = Off

ClocksOff ==
    /\ forest = Off /\ hyp = Off /\ next = Off /\ memo = Off /\ todo = Off
    /\ round = Off /\ phase = Off

MCInit ==
    \/ FrontEndInit /\ PatternsOff /\ ClocksOff
    \/ part = "patterns" /\ Patterns!Init /\ ImportsOff /\ ClocksOff /\ TypesRest
    \/ part = "clocks" /\ Clocks!Init /\ ImportsOff /\ PatternsOff /\ TypesRest

MCNext ==
    \/ FrontEndNext /\ UNCHANGED <<patternVars, clockVars>>
    \/ /\ part = "patterns" /\ Patterns!Next
       /\ UNCHANGED <<part, importVars, clockVars, typeVars>>
    \/ /\ part = "clocks" /\ Clocks!Next
       /\ UNCHANGED <<part, importVars, patternVars, typeVars>>

MCSpec == MCInit /\ [][MCNext]_allVars

-----------------------------------------------------------------------------
(* Unless the compilation of its rules had a lapse (CompiledClean), a case    *)
(* expression takes the first of its rules that matches, with the values of   *)
(* its own arguments, however often a partial application is applied again.   *)
FirstMatchWithItsBindings ==
    part = "patterns" =>
        Patterns!TypeOK /\ Patterns!FirstMatchWins /\ Patterns!BindingsAreItsOwn

(* Whatever the order of the groups in a round, the domains found obey the    *)
(* rules and are the least that do; a forest is refused only when none does;  *)
(* and the rounds come to an end before their bound.                          *)
DomainsAreTheLeast ==
    part = "clocks" =>
        /\ Clocks!TypeOK
        /\ Clocks!LeastAnnotation
        /\ Clocks!RefusedForCause
        /\ Clocks!NeverDiverges

=============================================================================
