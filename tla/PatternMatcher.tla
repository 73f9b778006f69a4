--------------------------- MODULE PatternMatcher ---------------------------
(* The matcher of the evaluator's case expressions: the rules are compiled  *)
(* one by one into a deterministic tree automaton shared by all rules, and  *)
(* a matcher consumes one argument at a time, binding the variables of each *)
(* rule in layers of its own.  A matcher is a value: a partial application  *)
(* may be kept and applied again, so it never writes the layers it holds.   *)
(*                                                                          *)
(* A tree is a sequence: <<c>> an atom, <<op, t1, .., tn>> an operator, and *)
(* in patterns <<Var, x>> a variable.  The trees are those the              *)
(* simplifications leave as they are (patterns and arguments are folded to  *)
(* literals before the automaton sees them).  The transitions of a state    *)
(* are a function from symbols; their list is sorted, so its head is the    *)
(* least symbol.                                                            *)
EXTENDS Naturals, FiniteSets, SequencesExt

CONSTANTS Symbols,      \* the atoms, then the operators by arity and tag, as a sequence
          Width,        \* the number of children of a symbol, 0 for an atom
          Var,          \* the catch-all symbol, of variables
          NoName,       \* the name of a marker that is not a variable
          RuleLists,    \* the case expressions: sequences of sequences of patterns
          Arguments,    \* the argument trees
          MaxMatchers   \* matchers made in a behaviour

MatcherAssumption ==
    /\ Var \notin ToSet(Symbols)
    /\ Width \in [ToSet(Symbols) -> Nat]
    /\ MaxMatchers \in Nat \ {0}
    /\ \A R \in RuleLists : R # <<>> /\ \A r \in 1..Len(R) : Len(R[r]) = Len(R[1])

VARIABLES automaton,    \* the states: [rules, trans, lapses]; the first is the start state
          rules,        \* the rules compiled so far
          layers,       \* the environment layers: [up, vars]; the first is the barrier
          matchers      \* the matchers made: [state, envs, params, choice]

vars == <<automaton, rules, layers, matchers>>

NoState == 0   \* the state of a failed match
NoLayer == 0   \* the environment of a rule that is out
NoRule == 0    \* the choice of a matcher that has selected no rule

-----------------------------------------------------------------------------
EmptyMap == [x \in {} |-> x]
With(f, x, y) == [z \in DOMAIN f \cup {x} |-> IF z = x THEN y ELSE f[z]]
InOrder(S) == SelectSeq(<<Var>> \o Symbols, LAMBDA c : c \in S)

EmptyState == [rules |-> <<>>, trans |-> EmptyMap, lapses |-> {}]
Marker(r, id, p) == [r |-> r, id |-> id, p |-> p]

(* The steps a pattern makes, in preorder: the symbol it follows, and for a *)
(* variable its name and the path to its value.                             *)
RECURSIVE Steps(_, _)
Steps(t, path) ==
    IF t[1] = Var THEN <<[sym |-> Var, id |-> t[2], p |-> path]>>
    ELSE <<[sym |-> t[1], id |-> NoName, p |-> <<>>]>>
         \o FlattenSeq([i \in 1..Len(t) - 1 |-> Steps(t[i + 1], Append(path, i + 1))])

(* The states of rule r, a chain numbered from `base`: one per step, and    *)
(* the final one.                                                           *)
Trie(r, pats, base) ==
    LET steps == FlattenSeq([i \in 1..Len(pats) |-> Steps(pats[i], <<>>)])
    IN  Append([k \in 1..Len(steps) |->
                   [rules |-> <<Marker(r, steps[k].id, steps[k].p)>>,
                    trans |-> With(EmptyMap, steps[k].sym, base + k), lapses |-> {}]],
               [EmptyState EXCEPT !.rules = <<Marker(r, NoName, <<>>)>>])

(* Mutant of MergeRules: the markers of the merged state come last.         *)
MergeRulesAppending(l1, l2) == l1 \o l2

(* Two lists of markers, each sorted by rule, as one sorted list.           *)
MergeRules(l1, l2) ==
    FlattenSeq([r \in 1..Len(rules) + 1 |-> SelectSeq(l1 \o l2, LAMBDA m : m.r = r)])

(* Mutant of VarChain: one variable whatever the operator.                  *)
VarChainOfOne(a, n, t) ==
    a \o <<[EmptyState EXCEPT !.trans = With(EmptyMap, Var, Len(a) + 2)], a[t]>>

(* The state of `a` that n variables lead to, then a copy of state t: what  *)
(* a variable does where another rule descends into n children.  The        *)
(* markers of the way carry no variable.                                    *)
VarChain(a, n, t) ==
    LET bare == [i \in 1..Len(a[t].rules) |-> Marker(a[t].rules[i].r, NoName, <<>>)]
    IN  a \o [k \in 1..n |-> [rules |-> bare, trans |-> With(EmptyMap, Var, Len(a) + k + 1),
                               lapses |-> {}]]
          \o <<a[t]>>

(* The states of `a` that the start state leads to in at most n steps.      *)
RECURSIVE Reached(_, _)
Reached(a, n) ==
    IF n = 0 THEN {1}
    ELSE LET near == Reached(a, n - 1)
         IN  near \cup UNION {{a[s].trans[c] : c \in DOMAIN a[s].trans} : s \in near}

(* State s is the target of two transitions: what is merged into it on one  *)
(* path is met on the other.                                                *)
Shared(a, s) ==
    Cardinality({<<q, c>> \in Reached(a, Len(a)) \X (ToSet(Symbols) \cup {Var}) :
                    c \in DOMAIN a[q].trans /\ a[q].trans[c] = s}) > 1

(* Auxiliary: what goes amiss when state s2 is merged into state s1, noted  *)
(* in s1.  It reads the merge and changes nothing of it.                    *)
Lapses(a, s1, s2) ==
    {l \in {"tail", "shared"} :
        \/ l = "tail" /\ a[s1].trans # EmptyMap /\ Cardinality(DOMAIN a[s2].trans) > 1
        \/ l = "shared" /\ Shared(a, s1)}

(* merge_state: state s2 into state s1 of automaton `a`.  Where s1 has no   *)
(* transition it takes those of s2, and so shares their states; otherwise   *)
(* only the head of the transitions of s2 is merged.                        *)
RECURSIVE MergeState(_, _, _), MergeSymbol(_, _, _, _), MergeVar(_, _, _)

MergeState(a, s1, s2) ==
    LET b == [a EXCEPT ![s1].rules = MergeRules(@, a[s2].rules),
                       ![s1].lapses = @ \cup a[s2].lapses \cup Lapses(a, s1, s2)]
        trans2 == a[s2].trans
        head == InOrder(DOMAIN trans2)[1]
    IN  IF trans2 = EmptyMap THEN b
        ELSE IF a[s1].trans = EmptyMap THEN [b EXCEPT ![s1].trans = trans2]
        ELSE IF head = Var THEN MergeVar(b, s1, trans2[head])
        ELSE MergeSymbol(b, s1, head, trans2[head])

(* State t, and the variables before it where the symbol has children,      *)
(* merged into state s.                                                     *)
MergeBelow(a, s, sym, t) ==
    IF sym = Var \/ Width[sym] = 0 THEN MergeState(a, s, t)
    ELSE MergeState(VarChain(a, Width[sym], t), s, Len(a) + 1)

(* Mutant of MergeSymbol: the variable of s1 is not merged into the copy.   *)
MergeSymbolAlone(a, s1, sym, t) ==
    IF sym \in DOMAIN a[s1].trans THEN MergeState(a, a[s1].trans[sym], t)
    ELSE [Append(a, a[t]) EXCEPT ![s1].trans = With(@, sym, Len(a) + 1)]

(* merge_trans_cst and merge_trans_op: the transition of s1 on the symbol   *)
(* takes state t, or a copy of t that the variable of s1 is merged into.    *)
MergeSymbol(a, s1, sym, t) ==
    IF sym \in DOMAIN a[s1].trans THEN MergeState(a, a[s1].trans[sym], t)
    ELSE LET b == [Append(a, a[t]) EXCEPT ![s1].trans = With(@, sym, Len(a) + 1)]
         IN  IF Var \in DOMAIN a[s1].trans
             THEN MergeBelow(b, Len(a) + 1, sym, a[s1].trans[Var])
             ELSE b

(* merge_trans_var: state t goes below every transition of s1, a variable   *)
(* one among them.                                                          *)
MergeVar(a, s1, t) ==
    LET b == IF Var \in DOMAIN a[s1].trans THEN a
             ELSE [Append(a, EmptyState) EXCEPT ![s1].trans = With(@, Var, Len(a) + 1)]
    IN  FoldLeft(LAMBDA c, sym : MergeBelow(c, b[s1].trans[sym], sym, t),
                 b, InOrder(DOMAIN b[s1].trans))

-----------------------------------------------------------------------------
(* The state reached from state s by the argument x, with the markers met.  *)
(* The symbol of x first, then the variable; a failure inside an operator   *)
(* is final.                                                                *)
RECURSIVE Descend(_, _, _)
Descend(s, x, met) ==
    LET trans == automaton[s].trans
        seen == met \o SelectSeq(automaton[s].rules, LAMBDA m : m.id # NoName)
        Child(at, y) == IF at.state = NoState THEN at ELSE Descend(at.state, y, at.met)
    IN  IF x[1] \in DOMAIN trans
        THEN FoldLeft(Child, [state |-> trans[x[1]], met |-> seen], Tail(x))
        ELSE IF Var \in DOMAIN trans THEN [state |-> trans[Var], met |-> seen]
        ELSE [state |-> NoState, met |-> seen]

(* The subterm a path leads to; an atom ends it.                            *)
Subtree(x, path) ==
    FoldLeft(LAMBDA t, i : IF Len(t) = 1 THEN t ELSE t[IF i > Len(t) THEN Len(t) ELSE i], x, path)

(* The variables visible from a layer of the heap, up to the barrier.       *)
RECURSIVE Visible(_, _)
Visible(heap, l) ==
    IF l = NoLayer THEN EmptyMap
    ELSE LET above == Visible(heap, heap[l].up)
         IN  [x \in DOMAIN heap[l].vars \cup DOMAIN above |->
                 IF x \in DOMAIN heap[l].vars THEN heap[l].vars[x] ELSE above[x]]

(* Mutant of Extend: the variables are bound in the layer the slot holds.   *)
ExtendInPlace(heap, l, new) ==
    [heap |-> [heap EXCEPT ![l].vars = [x \in DOMAIN @ \cup DOMAIN new |->
                                           IF x \in DOMAIN new THEN new[x] ELSE @[x]]],
     env |-> l]

(* The layer of the new variables, above layer l.                           *)
Extend(heap, l, new) ==
    IF new = EmptyMap THEN [heap |-> heap, env |-> l]
    ELSE [heap |-> Append(heap, [up |-> l, vars |-> new]), env |-> Len(heap) + 1]

(* The binding of rule r by the markers met in argument x: its slot becomes *)
(* the layer of the variables, or none when a name would have two values.   *)
BindRule(acc, r, x, met) ==
    LET own == {<<m.id, Subtree(x, m.p)>> : m \in {n \in ToSet(met) : n.r = r}}
        bound == Visible(acc.heap, acc.envs[r])
        all == own \cup {<<n, bound[n]>> : n \in DOMAIN bound}
        new == [n \in {o[1] : o \in own} \ DOMAIN bound |-> (CHOOSE o \in own : o[1] = n)[2]]
        made == Extend(acc.heap, acc.envs[r], new)
    IN  IF acc.envs[r] = NoLayer THEN acc
        ELSE IF \E o, q \in all : o[1] = q[1] /\ o[2] # q[2]
        THEN [acc EXCEPT !.envs[r] = NoLayer]
        ELSE [heap |-> made.heap, envs |-> [acc.envs EXCEPT ![r] = made.env]]

(* The rules of a state.                                                    *)
RulesOf(s) == IF s = NoState THEN {} ELSE {m.r : m \in ToSet(automaton[s].rules)}

FirstSurvivor(s, envs) ==
    LET alive == SelectSeq(automaton[s].rules, LAMBDA m : envs[m.r] # NoLayer)
    IN  IF alive = <<>> THEN NoRule ELSE alive[1].r

-----------------------------------------------------------------------------
Init == /\ automaton = <<EmptyState>> /\ rules = <<>>
        /\ layers = <<>> /\ matchers = <<>>

(* make_pattern_matcher: one more rule of a case expression is compiled.    *)
AddRule(pats) ==
    /\ matchers = <<>>
    /\ LET base == Len(automaton) + 1
       IN  automaton' = MergeState(automaton \o Trie(Len(rules) + 1, pats, base), 1, base)
    /\ rules' = Append(rules, pats)
    /\ UNCHANGED <<layers, matchers>>

(* eval_case_value: the fresh matcher, every rule on one barrier.           *)
Make ==
    /\ rules \in RuleLists /\ matchers = <<>>
    /\ layers' = <<[up |-> NoLayer, vars |-> EmptyMap]>>
    /\ matchers' = <<[state |-> 1, envs |-> [r \in 1..Len(rules) |-> 1],
                      params |-> <<>>, choice |-> NoRule]>>
    /\ UNCHANGED <<automaton, rules>>

(* apply_pattern_matcher_value: a copy of a matcher consumes one argument.  *)
(* In a final state the first rule still alive is chosen, or the match      *)
(* fails.                                                                   *)
ApplyMatcher(k, x) ==
    LET m == matchers[k]
        reached == Descend(m.state, x, <<>>)
        bound == FoldLeft(LAMBDA acc, r : BindRule(acc, r, x, reached.met),
                          [heap |-> layers, envs |-> m.envs],
                          SetToSortSeq(RulesOf(reached.state), <))
        final == reached.state # NoState /\ automaton[reached.state].trans = EmptyMap
        choice == IF final THEN FirstSurvivor(reached.state, bound.envs) ELSE NoRule
        failed == reached.state = NoState \/ (final /\ choice = NoRule)
    IN  /\ m.state # NoState /\ m.choice = NoRule
        /\ layers' = bound.heap
        /\ matchers' = Append(matchers,
               [state |-> IF failed THEN NoState ELSE reached.state, envs |-> bound.envs,
                params |-> Append(m.params, x), choice |-> choice])
        /\ UNCHANGED <<automaton, rules>>

Next ==
    \/ \E R \in RuleLists :
          /\ Len(rules) < Len(R) /\ SubSeq(R, 1, Len(rules)) = rules
          /\ AddRule(R[Len(rules) + 1])
    \/ Make
    \/ /\ Len(matchers) < MaxMatchers
       /\ \E k \in 1..Len(matchers), x \in Arguments : ApplyMatcher(k, x)

Spec == Init /\ [][Next]_vars

-----------------------------------------------------------------------------
TypeOK ==
    /\ \E R \in RuleLists : Len(rules) <= Len(R) /\ SubSeq(R, 1, Len(rules)) = rules
    /\ \A s \in 1..Len(automaton) :
          /\ \A m \in ToSet(automaton[s].rules) : m.r \in 1..Len(rules)
          /\ \A c \in DOMAIN automaton[s].trans :
                c \in ToSet(Symbols) \cup {Var} /\ automaton[s].trans[c] \in 1..Len(automaton)
    /\ \A l \in 1..Len(layers) : layers[l].up \in 0..l - 1
    /\ \A k \in 1..Len(matchers) :
          /\ matchers[k].state \in 0..Len(automaton)
          /\ matchers[k].envs \in [1..Len(rules) -> 0..Len(layers)]
          /\ matchers[k].choice \in 0..Len(rules)

(* What a pattern requires of an argument: the value of each name, or a     *)
(* clash where the argument has another shape.                              *)
RECURSIVE Requires(_, _)
Requires(t, x) ==
    IF t[1] = Var THEN {<<t[2], x>>}
    ELSE IF t[1] # x[1] THEN {<<NoName, x>>}
    ELSE UNION {Requires(t[i], x[i]) : i \in 2..Len(t)}

RuleRequires(r, params) == UNION {Requires(rules[r][i], params[i]) : i \in 1..Len(params)}

(* Rule r matches the arguments: they have its shape, and no name stands    *)
(* for two values.                                                          *)
Matches(r, params) ==
    \A o, q \in RuleRequires(r, params) : o[1] # NoName /\ (o[1] = q[1] => o[2] = q[2])

(* The rules were compiled without a lapse: no merge looked only at the     *)
(* head of several transitions, so that a rule was left out of a path       *)
(* (pattern_matcher.rs:527), and none went into a state that another path   *)
(* shares, so that a rule was let in there (pattern_matcher.rs:526).  The   *)
(* code does both: (x, 0), (x, 1), (0, 0) applied to (0, 1) finds no rule,  *)
(* where the second matches.                                                *)
CompiledClean == \A s \in 1..Len(automaton) : automaton[s].lapses = {}

(* Unless the compilation of its rules had a lapse, a case expression takes *)
(* the first of them, in textual order, that matches all arguments, and     *)
(* fails when none does.                                                    *)
FirstMatchWins ==
    CompiledClean => \A k \in 1..Len(matchers) :
        LET m == matchers[k]
            matching == {r \in 1..Len(rules) : Matches(r, m.params)}
        IN  /\ m.choice # NoRule => m.choice \in matching /\ \A r \in matching : m.choice <= r
            /\ m.state = NoState => matching = {}

(* A matcher sees, for every rule it still considers, the values its own    *)
(* arguments gave the names of that rule and no others: neither those of    *)
(* another rule, nor those of another application of the same matcher.  It  *)
(* is so unless the compilation had a lapse.                                *)
BindingsAreItsOwn ==
    CompiledClean => \A k \in 1..Len(matchers) :
        LET m == matchers[k]
        IN  \A r \in RulesOf(m.state) :
               m.envs[r] # NoLayer =>
                  LET seen == Visible(layers, m.envs[r])
                  IN  {<<n, seen[n]>> : n \in DOMAIN seen} = RuleRequires(r, m.params)

=============================================================================
