-------------------------- MODULE ClockEnvironments --------------------------
(***************************************************************************)
(* The inference of the clock domain every prepared signal is computed in. *)
(* Domains form a tree under the audio rate; a group of mutually recursive *)
(* signals starts at the audio rate and is moved deeper, round after       *)
(* round, until a round changes nothing.  The groups of a round are swept  *)
(* in any order against the hypothesis of the round before, with one memo  *)
(* for all of them.  The result is set against its rules and against every *)
(* other assignment that satisfies them.                                   *)
(*                                                                         *)
(* A signal is a record: its kind, the domain an annotation or a wrapper   *)
(* names, its first operand where it has a role of its own (the clock of a *)
(* wrapper, the block of a seq, the group of a reference) and the others.  *)
(***************************************************************************)
EXTENDS Naturals

CONSTANTS
    Sigs,           \* the signals
    Domains,        \* the clocked domains
    Nil,            \* the audio rate
    Parent,         \* the domain around each domain
    Forests,        \* prepared forests: [node, outputs]
    MaxIterations   \* the rounds after which the iteration gives up

Envs == Domains \cup {Nil}
Kinds == {"leaf", "zero", "ref", "group", "clocked", "wrapper", "seq", "composite"}

ForestAssumption ==
    /\ Nil \notin Domains /\ Parent \in [Domains -> Envs]
    /\ MaxIterations \in Nat \ {0}
    /\ \A f \in Forests : f.outputs \subseteq Sigs /\ DOMAIN f.node = Sigs
    /\ \A f \in Forests : \A s \in Sigs :
          f.node[s].kind \in Kinds /\ f.node[s].dom \in Envs /\ f.node[s].kids \subseteq Sigs

VARIABLES
    forest,  \* the prepared forest
    hyp,     \* the hypothesis: the domain of every group
    next,    \* the hypothesis the round builds
    memo,    \* the domains known in this sweep
    todo,    \* groups not swept yet in this round
    round,   \* rounds begun
    phase    \* iterate, sweep, done, failed or diverged

vars == <<forest, hyp, next, memo, todo, round, phase>>

-----------------------------------------------------------------------------
Node(s) == forest.node[s]

Clock(s) == CHOOSE c \in Node(Node(s).left).kids : TRUE

\* the operands a walk descends into: a reference is an end, and of the first
\* child of a wrapper only the clock it annotates counts
Operands(s) ==
    CASE Node(s).kind = "ref" -> {}
      [] Node(s).kind = "wrapper" -> {Clock(s)} \cup Node(s).kids
      [] Node(s).kind = "seq" -> {Node(s).left} \cup Node(s).kids
      [] OTHER -> Node(s).kids

RECURSIVE Reach(_)
Reach(S) == LET more == S \cup UNION {Operands(s) : s \in S}
            IN  IF more = S THEN S ELSE Reach(more)

Reachable == Reach(forest.outputs)

\* collect_rec_groups
RecGroups == {s \in Reachable : Node(s).kind = "group"}

RECURSIVE Around(_)
Around(e) == IF e = Nil THEN {Nil} ELSE {e} \cup Around(Parent[e])

\* Mutant of IsAncestor: the order is read the other way round.
IsAncestorSwapped(a, b) == b \in Around(a)

IsAncestor(a, b) == a \in Around(b)

\* the domains of S lie on one branch
OnOneBranch(S) == \A a, b \in S : IsAncestor(a, b) \/ IsAncestor(b, a)

\* max_clk_env, from the audio rate up
Deepest(S) == CHOOSE m \in S \cup {Nil} : \A e \in S : IsAncestor(e, m)

\* every result of a block is computed in its domain exactly, a literal 0 apart
ResultsInside(s, e) ==
    \A k \in Node(s).kids : e[k] = Node(s).dom \/ Node(k).kind = "zero"

ClockOutside(s, e) == IsAncestor(e[Clock(s)], Parent[Node(s).dom])

\* the check of each rule, once the operands of s have domains e
Admits(s, e, h) ==
    CASE Node(s).kind = "composite" -> OnOneBranch({e[k] : k \in Node(s).kids})
      [] Node(s).kind = "group" -> OnOneBranch({h[s]} \cup {e[k] : k \in Node(s).kids})
      [] Node(s).kind = "clocked" -> \A k \in Node(s).kids : IsAncestor(e[k], Node(s).dom)
      [] Node(s).kind = "wrapper" -> ClockOutside(s, e) /\ ResultsInside(s, e)
      [] Node(s).kind = "seq" -> \A k \in Node(s).kids : IsAncestor(e[Node(s).left], e[k])
      [] OTHER -> TRUE

\* Mutant of BlockEnv: a block belongs to the domain it opens.
BlockEnvInside(s) == Node(s).dom

BlockEnv(s) == Parent[Node(s).dom]

\* the domain each rule gives
Value(s, e, h) ==
    CASE Node(s).kind = "ref" -> h[Node(s).left]
      [] Node(s).kind = "composite" -> Deepest({e[k] : k \in Node(s).kids})
      [] Node(s).kind = "group" -> Deepest({h[s]} \cup {e[k] : k \in Node(s).kids})
      [] Node(s).kind = "clocked" -> Node(s).dom
      [] Node(s).kind = "wrapper" -> BlockEnv(s)
      [] Node(s).kind = "seq" -> e[Node(s).left]
      [] OTHER -> Nil

\* the domains of S, with the first child of each wrapper marked
Marked(S, e, h) ==
    [x \in S \cup {Node(w).left : w \in {v \in S : Node(v).kind = "wrapper"}} |->
        IF x \in S THEN Value(x, e, h) ELSE Node(x).dom]

\* Inference::infer over the signals S: operands first, nothing twice, and no
\* further once a rule is broken
RECURSIVE Infer(_, _, _)
Infer(m, S, h) ==
    LET ready == {s \in S \ DOMAIN m.env : Operands(s) \subseteq DOMAIN m.env}
        made == Marked(ready, m.env, h)
    IN  IF ready = {} THEN m
        ELSE IF \E s \in ready : ~Admits(s, m.env, h) THEN [m EXCEPT !.ok = FALSE]
        ELSE Infer([m EXCEPT !.env = [x \in DOMAIN @ \cup DOMAIN made |->
                                         IF x \in DOMAIN @ THEN @[x] ELSE made[x]]], S, h)

Empty == [env |-> [x \in {} |-> Nil], ok |-> TRUE]

-----------------------------------------------------------------------------
Init ==
    /\ forest \in Forests
    /\ hyp = [g \in RecGroups |-> Nil] /\ next = hyp
    /\ memo = Empty /\ todo = RecGroups /\ round = 1 /\ phase = "iterate"

\* one group of a round: its definitions, joined with its own hypothesis
SweepGroup(g) ==
    /\ phase = "iterate" /\ g \in todo
    /\ LET m == Infer(memo, Reach(Node(g).kids), hyp)
           joined == {hyp[g]} \cup {m.env[d] : d \in Node(g).kids}
       IN  IF m.ok /\ OnOneBranch(joined)
           THEN /\ next' = [next EXCEPT ![g] = Deepest(joined)]
                /\ memo' = m /\ todo' = todo \ {g} /\ UNCHANGED phase
           ELSE phase' = "failed" /\ UNCHANGED <<next, memo, todo>>
    /\ UNCHANGED <<forest, hyp, round>>

\* Mutant of NextMemo: the memo of a round serves the next one.
NextMemoKept == memo

\* a round starts with an empty memo
NextMemo == Empty

\* Mutant of NextHypothesis: a round starts from the hypothesis of the last.
NextHypothesisKept == hyp

NextHypothesis == next

\* the end of a round: a stable hypothesis is annotated, another one tried again
EndRound ==
    /\ phase = "iterate" /\ todo = {}
    /\ IF next = hyp
       THEN phase' = "sweep" /\ memo' = Empty /\ UNCHANGED <<hyp, next, todo, round>>
       ELSE /\ hyp' = NextHypothesis /\ next' = hyp' /\ memo' = NextMemo
            /\ todo' = RecGroups /\ round' = round + 1
            /\ phase' = IF round = MaxIterations THEN "diverged" ELSE "iterate"
    /\ UNCHANGED forest

\* annotate: the outputs, then the definitions of every group
Annotate ==
    /\ phase = "sweep"
    /\ LET m == Infer(memo, Reachable, hyp)
       IN  memo' = m /\ phase' = IF m.ok THEN "done" ELSE "failed"
    /\ UNCHANGED <<forest, hyp, next, todo, round>>

Next == (\E g \in RecGroups : SweepGroup(g)) \/ EndRound \/ Annotate

Spec == Init /\ [][Next]_vars

-----------------------------------------------------------------------------
TypeOK ==
    /\ hyp \in [RecGroups -> Envs] /\ next \in [RecGroups -> Envs]
    /\ DOMAIN memo.env \subseteq Sigs /\ \A s \in DOMAIN memo.env : memo.env[s] \in Envs
    /\ memo.ok \in BOOLEAN /\ todo \subseteq RecGroups /\ round \in Nat
    /\ phase \in {"iterate", "sweep", "done", "failed", "diverged"}

\* An assignment of domains obeys the rules: a recursive group is where its
\* deepest definition is and its references are where it is; a block is where
\* its parent domain is, its clock outside and its results inside it; an
\* annotated value was visible; nothing mixes two branches.
Obeys(e) ==
    \A s \in Reachable :
        LET n == Node(s)
            kids == {e[k] : k \in n.kids}
        IN  CASE n.kind \in {"leaf", "zero"} -> e[s] = Nil
              [] n.kind = "ref" -> e[s] = e[n.left]
              [] n.kind \in {"composite", "group"} ->
                    /\ \A x \in kids : x \in Around(e[s])
                    /\ e[s] \in kids \cup {Nil}
              [] n.kind = "clocked" -> e[s] = n.dom /\ kids \subseteq Around(n.dom)
              [] n.kind = "wrapper" ->
                    /\ e[n.left] = n.dom /\ e[s] = Parent[n.dom]
                    /\ e[Clock(s)] \in Around(e[s])
                    /\ \A k \in n.kids : e[k] = n.dom \/ Node(k).kind = "zero"
              [] n.kind = "seq" -> e[s] = e[n.left] /\ \A x \in kids : e[s] \in Around(x)

\* The domains the rules give from a guess for the groups, unchecked.
Under(h) ==
    LET Deep(S) == IF \E m \in S : \A x \in S : x \in Around(m)
                   THEN CHOOSE m \in S : \A x \in S : x \in Around(m) ELSE Nil
        e[s \in Sigs] ==
            CASE Node(s).kind = "ref" -> h[Node(s).left]
              [] Node(s).kind = "group" -> h[s]
              [] Node(s).kind = "clocked" -> Node(s).dom
              [] Node(s).kind = "wrapper" -> Parent[Node(s).dom]
              [] Node(s).kind = "seq" -> e[Node(s).left]
              [] OTHER -> Deep({e[k] : k \in Node(s).kids})
    IN  [s \in Reachable \cup {Node(w).left : w \in Reachable} |-> e[s]]

Solutions == {h \in [RecGroups -> Envs] : Obeys(Under(h))}

\* The annotation the later passes read covers every signal, obeys the rules,
\* and is the least that does: no group is computed deeper than it must be.
LeastAnnotation ==
    phase = "done" =>
        /\ Reachable \subseteq DOMAIN memo.env /\ Obeys(memo.env)
        /\ \A h \in Solutions : \A g \in RecGroups : IsAncestor(hyp[g], h[g])

\* A forest is refused only when no assignment of domains obeys the rules: a
\* rule broken under the hypothesis of an early round is broken for good.
RefusedForCause == phase = "failed" => Solutions = {}

\* Each round moves a group down one branch or is the last, so the bound of
\* the iteration is never what ends it.
NeverDiverges == phase # "diverged"

=============================================================================
