-------------------------- MODULE ScheduleDfsProofs --------------------------
(* `schedule(DepthFirst, dag)` keeps the promise of SchedulerContract on      *)
(* every finite graph, in whatever order the adapter lists dependencies.      *)
(*                                                                            *)
(* Two arguments meet. The peeling cannot remove a node of a stuck set, so    *)
(* once every node is removed no stuck set is left. The walk then rests on    *)
(* it twice: the nodes on the stack form a path, so a dependency found on the *)
(* stack would close a stuck set and every visited one is scheduled already;  *)
(* and a set of nodes that have consumers only among themselves would hold    *)
(* one too, so the roots reach every node.                                    *)
EXTENDS ScheduleDfs, FiniteSetTheorems, SequenceTheorems, WellFoundedInduction, TLAPS

Scheduled == {order[j] : j \in 1 .. Len(order)}

(* The state of the peeling is determined by the set of peeled nodes.         *)
PeelInv ==
    /\ phase = "validate" => pending = deps /\ removed = {}
    /\ phase = "peel" =>
          /\ \A n \in Nodes \ removed : pending[n] = deps[n] \ removed
          /\ ready = {n \in Nodes \ removed : pending[n] = {}}
    /\ phase # "validate" /\ error.tag # "selfEdge" => \A n \in Nodes : n \notin deps[n]

(* When an error is returned, and which.                                      *)
ErrorInv ==
    /\ phase \in {"validate", "peel", "walk"} => error = NoError
    /\ error.tag = "selfEdge" =>
          \E n \in Nodes : /\ error = SelfEdge(n)
                           /\ n \in deps[n]
                           /\ \A m \in Nodes : m \in deps[m] => n <= m
    /\ error.tag = "cycle" => error = Cycle(Nodes \ removed) /\ removed # Nodes
    /\ phase = "walk" \/ (phase = "done" /\ error = NoError) => removed = Nodes

(* The walk has not begun before the peeling is over, nor after an error.      *)
IdleInv ==
    phase \in {"validate", "peel"} \/ error # NoError => visited = {} /\ stack = << >> /\ order = << >>

(* A node that was visited is scheduled or on the stack, once.                *)
OnceInv ==
    /\ visited = OnStack \cup Scheduled
    /\ OnStack \cap Scheduled = {}
    /\ \A i, j \in 1 .. Len(order) : order[i] = order[j] => i = j
    /\ \A i, j \in 1 .. Len(stack) : stack[i].node = stack[j].node => i = j

(* The stack is a path, and what a frame has looked at is scheduled, or is    *)
(* the next frame's node.                                                     *)
PathInv ==
    \A i \in 1 .. Len(stack) :
       /\ stack[i].rest \subseteq deps[stack[i].node]
       /\ i < Len(stack) => stack[i + 1].node \in deps[stack[i].node]
       /\ \A d \in deps[stack[i].node] \ stack[i].rest :
             d \in Scheduled \/ (i < Len(stack) /\ d = stack[i + 1].node)

(* The order built so far is sound.                                           *)
SoundInv ==
    \A i \in 1 .. Len(order) : \A d \in deps[order[i]] : \E j \in 1 .. i - 1 : order[j] = d

(* A root is visited or still to be taken; and the walk ends with none left.  *)
RootInv ==
    /\ phase = "walk" => RootsOf \ roots \subseteq visited
    /\ phase = "done" /\ error = NoError => stack = << >> /\ RootsOf \subseteq visited

Inv ==
    /\ TypeOK
    /\ PeelInv /\ PeelingIsExact
    /\ ErrorInv /\ IdleInv
    /\ OnceInv /\ PathInv /\ SoundInv /\ RootInv

-----------------------------------------------------------------------------

(* In a graph without a stuck set, a set of nodes each of which has a         *)
(* consumer in the set is empty: take a smallest set that is closed under     *)
(* consumers, and remove from it a node that none of the set's nodes is a     *)
(* dependency of.                                                             *)
LEMMA ConsumersEnd ==
  ASSUME TypeOK,
         \A S \in SUBSET Nodes : Stuck(S) => S = {},
         NEW U \in SUBSET Nodes,
         \A u \in U : \E c \in U : u \in deps[c]
  PROVE  U = {}
  <1> SUFFICES ASSUME U # {} PROVE FALSE
    OBVIOUS
  <1> DEFINE Closed == {C \in SUBSET U : C # {} /\ \A x \in C, c \in U : x \in deps[c] => c \in C}
  <1>1. IsFiniteSet(U)
    BY GraphsAssumption, FS_Subset
  <1>2. IsWellFoundedOn(StrictSubsetOrdering(U), FiniteSubsetsOf(U))
    BY FS_StrictSubsetOrderingWellFounded
  <1>3. FiniteSubsetsOf(U) = SUBSET U
    BY <1>1, FS_FiniteSubsetsOfFinite
  <1>4. U \in Closed /\ Closed \subseteq SUBSET U
    OBVIOUS
  <1>5. \E C \in Closed : \A D \in Closed : ~ (<<D, C>> \in StrictSubsetOrdering(U))
    <2> HIDE DEF Closed
    <2> QED BY <1>2, <1>3, <1>4, WFMin
  <1>6. PICK C \in Closed : \A D \in Closed : ~ (<<D, C>> \in StrictSubsetOrdering(U))
    BY <1>5
  <1>7. PICK x \in C : deps[x] \cap C = {}
    BY DEF Stuck
  <1>8. PICK c \in U : x \in deps[c]
    OBVIOUS
  <1> DEFINE D == C \ {x}
  <1>9. c \in D
    BY <1>7, <1>8
  <1>10. \A y \in D, z \in U : y \in deps[z] => z \in D
    BY <1>7
  <1>11. D \in Closed
    BY <1>9, <1>10
  <1>12. <<D, C>> \in StrictSubsetOrdering(U)
    BY <1>7 DEF StrictSubsetOrdering
  <1> QED
    BY <1>6, <1>11, <1>12

(* On a graph without a stuck set, a dependency of a frame that was visited   *)
(* is scheduled: on the stack it would close a stuck set with the path from   *)
(* it to the frame.                                                           *)
LEMMA VisitedDependency ==
  ASSUME Inv, phase = "walk", stack # << >>, NEW d \in Top.rest \cap visited
  PROVE  d \in Scheduled
  <1> SUFFICES ASSUME d \notin Scheduled PROVE FALSE
    OBVIOUS
  <1>1. Len(stack) \in Nat /\ Len(stack) > 0 /\ Top = stack[Len(stack)]
    BY DEF Inv, TypeOK, Top
  <1>2. \A i \in 1 .. Len(stack) : stack[i] \in Frame
    BY DEF Inv, TypeOK
  <1>3. d \in deps[Top.node]
    BY <1>1 DEF Inv, PathInv
  <1>4. PICK k \in 1 .. Len(stack) : stack[k].node = d
    BY DEF Inv, OnceInv, OnStack
  <1> DEFINE S == {stack[i].node : i \in k .. Len(stack)}
  <1>5. S \in SUBSET Nodes
    BY <1>1, <1>2 DEF Frame
  <1>6. ASSUME NEW i \in k .. Len(stack) PROVE deps[stack[i].node] \cap S # {}
    <2>1. CASE i = Len(stack)
      <3>1. d \in S
        BY <1>1, <1>4
      <3> QED
        BY <1>1, <1>3, <2>1, <3>1
    <2>2. CASE i < Len(stack)
      <3>1. stack[i + 1].node \in deps[stack[i].node]
        BY <1>1, <2>2 DEF Inv, PathInv
      <3>2. stack[i + 1].node \in S
        BY <1>1, <2>2
      <3> QED
        BY <3>1, <3>2
    <2> QED
      BY <1>1, <2>1, <2>2
  <1>7. Stuck(S)
    BY <1>6 DEF Stuck
  <1>8. d \in S /\ d \in Nodes
    BY <1>1, <1>4, <1>5
  <1>9. removed = Nodes
    BY DEF Inv, ErrorInv
  <1> QED
    BY <1>5, <1>7, <1>8, <1>9 DEF Inv, PeelingIsExact

-----------------------------------------------------------------------------

LEMMA InitInv == Init => Inv
  <1> SUFFICES ASSUME Init PROVE Inv
    OBVIOUS
  <1>1. TypeOK
    BY GraphsAssumption DEF Init, TypeOK
  <1>2. PeelInv /\ PeelingIsExact
    BY DEF Init, PeelInv, PeelingIsExact, Stuck, NoError
  <1>3. ErrorInv /\ IdleInv
    BY DEF Init, ErrorInv, IdleInv, NoError
  <1>4. OnceInv
    BY DEF Init, OnceInv, OnStack, Scheduled
  <1>5. PathInv /\ SoundInv /\ RootInv
    BY DEF Init, PathInv, SoundInv, RootInv
  <1> QED
    BY <1>1, <1>2, <1>3, <1>4, <1>5 DEF Inv

(* What a step that leaves the walk alone preserves.                          *)
LEMMA WalkUnchanged ==
  ASSUME Inv, UNCHANGED <<deps, visited, stack, order>>
  PROVE  OnceInv' /\ PathInv' /\ SoundInv'
  <1>1. OnStack' = OnStack /\ Scheduled' = Scheduled
    BY DEF OnStack, Scheduled
  <1>2. OnceInv'
    BY <1>1 DEF Inv, OnceInv
  <1>3. PathInv'
    BY <1>1 DEF Inv, PathInv
  <1>4. SoundInv'
    BY DEF Inv, SoundInv
  <1> QED
    BY <1>2, <1>3, <1>4

LEMMA RejectSelfEdgeInv ==
  ASSUME Inv, RejectSelfEdge
  PROVE  Inv'
  <1> USE DEF Inv, RejectSelfEdge, peelVars, walkVars
  <1>1. PICK n \in Nodes : n \in deps[n] /\ (\A m \in Nodes : m \in deps[m] => n <= m)
                           /\ error' = SelfEdge(n)
    OBVIOUS
  <1>2. error'.tag = "selfEdge" /\ error' # NoError
    BY <1>1 DEF SelfEdge, NoError
  <1>3. TypeOK'
    BY <1>1 DEF TypeOK
  <1>4. PeelInv' /\ PeelingIsExact'
    BY <1>2 DEF PeelInv, PeelingIsExact, Stuck
  <1>5. ErrorInv'
    BY <1>1, <1>2 DEF ErrorInv
  <1>6. IdleInv' /\ RootInv'
    BY <1>2 DEF IdleInv, RootInv
  <1> QED
    BY <1>3, <1>4, <1>5, <1>6, WalkUnchanged

LEMMA StartPeelingInv ==
  ASSUME Inv, StartPeeling
  PROVE  Inv'
  <1> USE DEF Inv, StartPeeling, walkVars
  <1>1. TypeOK'
    BY DEF TypeOK
  <1>2. PeelInv' /\ PeelingIsExact'
    BY DEF PeelInv, PeelingIsExact, Stuck
  <1>3. ErrorInv'
    BY DEF ErrorInv, NoError
  <1>4. IdleInv' /\ RootInv'
    BY DEF IdleInv, RootInv
  <1> QED
    BY <1>1, <1>2, <1>3, <1>4, WalkUnchanged

LEMMA PeelPreserves ==
  ASSUME Inv, NEW n \in Nodes, Peel(n)
  PROVE  Inv'
  <1> USE DEF Inv, Peel, walkVars
  <1> DEFINE freed == {s \in Nodes : n \in deps[s] /\ s \notin removed \cup {n}}
  <1>1. TypeOK'
    BY DEF TypeOK
  <1>2. deps[n] \subseteq removed /\ n \notin removed
    BY DEF PeelInv, TypeOK
  <1>3. /\ \A s \in Nodes : pending'[s] = IF s \in freed THEN pending[s] \ {n} ELSE pending[s]
        /\ ready' = (ready \ {n}) \cup {s \in freed : pending[s] \subseteq {n}}
    OBVIOUS
  <1>4. \A s \in Nodes \ removed' : pending'[s] = deps'[s] \ removed'
    BY <1>3 DEF PeelInv, TypeOK
  <1>5. ASSUME NEW s \in Nodes \ removed
        PROVE  s \in ready' <=> s \notin removed' /\ pending'[s] = {}
    <2>1. s \in ready <=> pending[s] = {}
      BY DEF PeelInv
    <2>2. CASE s \in freed
      <3>1. n \in pending[s] /\ s # n
        BY <1>2, <2>2 DEF PeelInv
      <3> QED
        BY <1>3, <2>1, <2>2, <3>1
    <2>3. CASE s \notin freed
      BY <1>3, <2>1, <2>3
    <2> QED
      BY <2>2, <2>3
  <1>6. ready' = {s \in Nodes \ removed' : pending'[s] = {}}
    <2>1. ready' \subseteq Nodes \ removed
      BY <1>3 DEF PeelInv
    <2> QED
      BY <1>5, <2>1
  <1>7. PeelInv'
    BY <1>4, <1>6 DEF PeelInv
  <1>8. PeelingIsExact'
    <2>1. ASSUME NEW S \in SUBSET Nodes, Stuck(S) PROVE S \cap removed' = {}
      BY <1>2, <2>1 DEF PeelingIsExact, Stuck
    <2>2. error'.tag # "cycle"
      BY DEF ErrorInv, NoError
    <2>3. \A S \in SUBSET Nodes : Stuck(S)' => Stuck(S)
      BY DEF Stuck
    <2> QED
      BY <2>1, <2>2, <2>3 DEF PeelingIsExact
  <1>9. ErrorInv'
    BY DEF ErrorInv, NoError
  <1>10. IdleInv' /\ RootInv'
    BY DEF IdleInv, RootInv
  <1> QED
    BY <1>1, <1>7, <1>8, <1>9, <1>10, WalkUnchanged

(* The nodes left when nothing is ready each wait for another of them.        *)
LEMMA LeftIsStuck ==
  ASSUME Inv, phase = "peel", ready = {}
  PROVE  Stuck(Nodes \ removed)
  BY DEF Inv, PeelInv, Stuck, TypeOK

LEMMA RejectCycleInv ==
  ASSUME Inv, RejectCycle
  PROVE  Inv'
  <1> USE DEF Inv, RejectCycle, peelVars, walkVars
  <1>1. error' = Cycle(Nodes \ removed) /\ error'.tag = "cycle" /\ error' # NoError
        /\ error'.remaining = Nodes \ removed
    BY DEF Cycle, NoError
  <1>2. TypeOK'
    BY DEF TypeOK
  <1>3. PeelInv'
    BY <1>1 DEF PeelInv, ErrorInv, NoError
  <1>4. PeelingIsExact'
    BY <1>1, LeftIsStuck DEF PeelingIsExact, Stuck
  <1>5. ErrorInv'
    BY <1>1 DEF ErrorInv
  <1>6. IdleInv' /\ RootInv'
    BY <1>1 DEF IdleInv, RootInv
  <1> QED
    BY <1>2, <1>3, <1>4, <1>5, <1>6, WalkUnchanged

LEMMA StartWalkInv ==
  ASSUME Inv, StartWalk
  PROVE  Inv'
  <1> USE DEF Inv, StartWalk, peelVars
  <1>1. TypeOK'
    BY DEF TypeOK, RootsOf
  <1>2. PeelInv' /\ PeelingIsExact'
    BY DEF PeelInv, PeelingIsExact, Stuck, ErrorInv
  <1>3. ErrorInv'
    BY DEF ErrorInv, NoError
  <1>4. IdleInv' /\ RootInv'
    BY DEF IdleInv, RootInv, RootsOf
  <1> QED
    BY <1>1, <1>2, <1>3, <1>4, WalkUnchanged

-----------------------------------------------------------------------------

(* A walk step touches neither the peeling nor the answer.                    *)
LEMMA PeelUnchanged ==
  ASSUME Inv, phase = "walk", UNCHANGED <<deps, phase, pending, ready, removed, error>>
  PROVE  PeelInv' /\ PeelingIsExact' /\ ErrorInv' /\ IdleInv'
  <1>1. PeelInv'
    BY DEF Inv, PeelInv
  <1>2. PeelingIsExact'
    BY DEF Inv, PeelingIsExact, Stuck
  <1>3. ErrorInv'
    BY DEF Inv, ErrorInv
  <1>4. IdleInv'
    BY DEF Inv, IdleInv, ErrorInv
  <1> QED
    BY <1>1, <1>2, <1>3, <1>4

(* A step that schedules nothing keeps the order sound.                       *)
LEMMA SoundUnchanged ==
  ASSUME Inv, UNCHANGED <<deps, order>>
  PROVE  SoundInv'
  <1>1. SoundInv
    BY DEF Inv
  <1>2. deps' = deps /\ order' = order
    OBVIOUS
  <1> QED
    BY <1>1, <1>2 DEF SoundInv

LEMMA TakeRootInv ==
  ASSUME Inv, NEW r \in Nodes, TakeRoot(r)
  PROVE  Inv'
  <1> USE DEF Inv, TakeRoot, peelVars
  <1>1. Opened(r) \in Frame /\ Opened(r).node = r /\ Opened(r).rest = deps[r]
    BY DEF Opened, Frame, TypeOK
  <1>2. RootInv'
    BY DEF RootInv, RootsOf, TypeOK
  <1>3. PeelInv' /\ PeelingIsExact' /\ ErrorInv' /\ IdleInv'
    BY PeelUnchanged
  <1>4. CASE r \in visited
    <2>1. TypeOK'
      BY <1>4 DEF TypeOK
    <2> QED
      BY <1>2, <1>3, <1>4, <2>1, WalkUnchanged
  <1>5. CASE r \notin visited
    <2>1. TypeOK'
      <3>1. <<Opened(r)>> \in Seq(Frame)
        BY <1>1
      <3> QED
        BY <1>5, <3>1 DEF TypeOK
    <2>2. Len(stack') = 1 /\ stack'[1] = Opened(r) /\ OnStack = {}
      BY <1>5 DEF OnStack
    <2>3. OnStack' = {r} /\ Scheduled' = Scheduled
      BY <1>1, <2>2 DEF OnStack, Scheduled
    <2>4. OnceInv'
      BY <1>5, <2>2, <2>3 DEF OnceInv
    <2>5. PathInv'
      BY <1>1, <2>2 DEF PathInv
    <2>6. SoundInv'
      BY SoundUnchanged
    <2> QED
      BY <1>2, <1>3, <2>1, <2>4, <2>5, <2>6
  <1> QED
    BY <1>4, <1>5

(* The top frame looks at a dependency that was visited, hence scheduled.     *)
LEMMA DescendVisited ==
  ASSUME Inv, NEW d \in Nodes, Descend(d), d \in visited
  PROVE  Inv'
  <1> USE DEF Inv, Descend, peelVars
  <1> DEFINE n == Len(stack)
             looked == [stack EXCEPT ![n] = [node |-> Top.node, rest |-> Top.rest \ {d}]]
  <1>1. n \in Nat /\ n > 0 /\ Top = stack[n] /\ \A i \in 1 .. n : stack[i] \in Frame
    BY DEF TypeOK, Top
  <1>2. d \in Scheduled
    BY VisitedDependency
  <1>3. /\ stack' \in Seq(Frame) /\ Len(stack') = n
        /\ stack'[n].node = stack[n].node /\ stack'[n].rest = stack[n].rest \ {d}
        /\ \A i \in 1 .. n : i # n => stack'[i] = stack[i]
    <2>1. stack' = looked
      OBVIOUS
    <2>2. [node |-> Top.node, rest |-> Top.rest \ {d}] \in Frame
      BY <1>1 DEF Frame
    <2> QED
      BY <1>1, <2>1, <2>2 DEF TypeOK
  <1>4. \A i \in 1 .. n : stack'[i].node = stack[i].node
    BY <1>1, <1>3
  <1>5. OnStack' = OnStack /\ Scheduled' = Scheduled
    BY <1>3, <1>4 DEF OnStack, Scheduled
  <1>6. OnceInv'
    BY <1>3, <1>4, <1>5 DEF OnceInv
  <1>7. PathInv'
    <2> SUFFICES ASSUME NEW i \in 1 .. n
                 PROVE  /\ stack'[i].rest \subseteq deps[stack'[i].node]
                        /\ i < n => stack'[i + 1].node \in deps[stack'[i].node]
                        /\ \A e \in deps[stack'[i].node] \ stack'[i].rest :
                              e \in Scheduled \/ (i < n /\ e = stack'[i + 1].node)
      BY <1>3, <1>5 DEF PathInv
    <2>1. i < n => stack'[i + 1].node = stack[i + 1].node
      BY <1>1, <1>4
    <2>2. stack'[i].rest = IF i = n THEN stack[i].rest \ {d} ELSE stack[i].rest
      BY <1>3
    <2> QED
      BY <1>1, <1>2, <1>4, <2>1, <2>2 DEF PathInv
  <1>8. TypeOK' /\ RootInv'
    BY <1>3 DEF TypeOK, RootInv, RootsOf
  <1>9. SoundInv'
    BY SoundUnchanged
  <1> QED
    BY <1>6, <1>7, <1>8, <1>9, PeelUnchanged

(* The top frame looks at a new dependency, and a frame for it is pushed.     *)
LEMMA DescendNew ==
  ASSUME Inv, NEW d \in Nodes, Descend(d), d \notin visited
  PROVE  Inv'
  <1> USE DEF Inv, Descend, peelVars
  <1> DEFINE n == Len(stack)
             looked == [stack EXCEPT ![n] = [node |-> Top.node, rest |-> Top.rest \ {d}]]
  <1>1. n \in Nat /\ n > 0 /\ Top = stack[n] /\ \A i \in 1 .. n : stack[i] \in Frame
    BY DEF TypeOK, Top
  <1>2. Opened(d) \in Frame /\ Opened(d).node = d /\ Opened(d).rest = deps[d]
    BY DEF Opened, Frame, TypeOK
  <1>3. /\ looked \in Seq(Frame) /\ Len(looked) = n
        /\ looked[n].node = stack[n].node /\ looked[n].rest = stack[n].rest \ {d}
        /\ \A i \in 1 .. n : i # n => looked[i] = stack[i]
    <2>1. [node |-> Top.node, rest |-> Top.rest \ {d}] \in Frame
      BY <1>1 DEF Frame
    <2> QED
      BY <1>1, <2>1 DEF TypeOK
  <1>4. stack' = Append(looked, Opened(d)) /\ visited' = visited \cup {d}
    OBVIOUS
  <1>5. /\ stack' \in Seq(Frame) /\ Len(stack') = n + 1
        /\ stack'[n + 1] = Opened(d)
        /\ \A i \in 1 .. n : stack'[i] = looked[i]
    <2> HIDE DEF looked
    <2> QED BY <1>1, <1>2, <1>3, <1>4
  <1>6. /\ \A i \in 1 .. n : stack'[i].node = stack[i].node
        /\ stack'[n + 1].node = d
        /\ \A i \in 1 .. n : stack'[i].rest = IF i = n THEN stack[i].rest \ {d} ELSE stack[i].rest
    <2> HIDE DEF looked
    <2> QED BY <1>1, <1>2, <1>3, <1>5
  <1>7. OnStack' = OnStack \cup {d} /\ Scheduled' = Scheduled
    BY <1>1, <1>5, <1>6 DEF OnStack, Scheduled
  <1>8. OnceInv'
    <2>1. d \notin OnStack /\ d \notin Scheduled
      BY DEF OnceInv
    <2>2. \A i \in 1 .. n : stack[i].node # d
      BY <2>1 DEF OnStack
    <2>3. \A i, j \in 1 .. n + 1 : stack'[i].node = stack'[j].node => i = j
      BY <1>1, <1>6, <2>2 DEF OnceInv
    <2> QED
      BY <1>4, <1>5, <1>7, <2>1, <2>3 DEF OnceInv
  <1>9. PathInv'
    <2> SUFFICES ASSUME NEW i \in 1 .. n + 1
                 PROVE  /\ stack'[i].rest \subseteq deps[stack'[i].node]
                        /\ i < n + 1 => stack'[i + 1].node \in deps[stack'[i].node]
                        /\ \A e \in deps[stack'[i].node] \ stack'[i].rest :
                              e \in Scheduled \/ (i < n + 1 /\ e = stack'[i + 1].node)
      BY <1>5, <1>7 DEF PathInv
    <2>1. CASE i = n + 1
      BY <1>1, <1>2, <1>5, <2>1
    <2>2. CASE i = n
      BY <1>1, <1>6, <2>2 DEF PathInv
    <2>3. CASE i < n
      <3>1. stack'[i + 1].node = stack[i + 1].node
        BY <1>1, <1>6, <2>3
      <3> QED
        BY <1>1, <1>6, <2>3, <3>1 DEF PathInv
    <2> QED
      BY <1>1, <2>1, <2>2, <2>3
  <1>10. TypeOK' /\ RootInv'
    BY <1>4, <1>5 DEF TypeOK, RootInv, RootsOf
  <1>11. SoundInv'
    BY SoundUnchanged
  <1> QED
    BY <1>8, <1>9, <1>10, <1>11, PeelUnchanged

(* A sequence without its last element.                                       *)
LEMMA DropLast ==
  ASSUME NEW S, NEW s \in Seq(S), s # << >>
  PROVE  LET t == SubSeq(s, 1, Len(s) - 1) IN
         /\ t \in Seq(S)
         /\ Len(t) = Len(s) - 1
         /\ \A i \in 1 .. Len(s) - 1 : t[i] = s[i]
  <1> DEFINE n == Len(s) - 1
             t == SubSeq(s, 1, n)
  <1>1. n \in Nat /\ \A i \in 1 .. n : s[i] \in S
    OBVIOUS
  <1>2. /\ t \in Seq(S)
        /\ Len(t) = IF 1 <= n THEN n - 1 + 1 ELSE 0
        /\ \A i \in 1 .. n - 1 + 1 : t[i] = s[1 + i - 1]
    <2> HIDE DEF n
    <2> QED BY <1>1, SubSeqProperties
  <1> HIDE DEF t, n
  <1>3. Len(t) = n
    BY <1>1, <1>2
  <1>4. ASSUME NEW i \in 1 .. n PROVE t[i] = s[i]
    <2>1. i \in 1 .. n - 1 + 1 /\ 1 + i - 1 = i
      BY <1>1
    <2> QED
      BY <1>2, <2>1
  <1> QED
    BY <1>2, <1>3, <1>4 DEF t, n

LEMMA EmitInv ==
  ASSUME Inv, Emit
  PROVE  Inv'
  <1> USE DEF Inv, Emit, peelVars
  <1> DEFINE n == Len(stack)
             m == Len(order)
  <1>1. n \in Nat /\ n > 0 /\ Top = stack[n] /\ \A i \in 1 .. n : stack[i] \in Frame
    BY DEF TypeOK, Top
  <1>2. /\ stack' \in Seq(Frame) /\ Len(stack') = n - 1
        /\ \A i \in 1 .. n - 1 : stack'[i] = stack[i]
    BY <1>1, DropLast DEF TypeOK
  <1>3. /\ m \in Nat /\ order' \in Seq(Nodes) /\ Len(order') = m + 1
        /\ order'[m + 1] = Top.node
        /\ \A j \in 1 .. m : order'[j] = order[j]
    BY <1>1 DEF TypeOK, Frame
  <1>4. Scheduled' = Scheduled \cup {Top.node}
    BY <1>3 DEF Scheduled
  <1>5. OnStack' = OnStack \ {Top.node} /\ Top.node \in OnStack
    BY <1>1, <1>2 DEF OnStack, OnceInv
  <1>6. Top.node \notin Scheduled /\ \A j \in 1 .. m : order[j] # Top.node
    BY <1>5 DEF OnceInv, Scheduled
  <1>7. OnceInv'
    <2>1. \A i, j \in 1 .. m + 1 : order'[i] = order'[j] => i = j
      BY <1>3, <1>6 DEF OnceInv
    <2>2. \A i, j \in 1 .. n - 1 : stack'[i].node = stack'[j].node => i = j
      BY <1>1, <1>2 DEF OnceInv
    <2>3. visited' = OnStack' \cup Scheduled' /\ OnStack' \cap Scheduled' = {}
      BY <1>4, <1>5, <1>6 DEF OnceInv
    <2>4. Len(order') = m + 1 /\ Len(stack') = n - 1
      BY <1>2, <1>3
    <2>5. \A i, j \in 1 .. n - 1 : stack'[i].node = stack'[j].node => i = j
      BY <1>2, <2>2
    <2> QED
      BY <2>1, <2>3, <2>4, <2>5 DEF OnceInv
  <1>8. PathInv'
    <2>1. PathInv /\ deps' = deps
      OBVIOUS
    <2> HIDE DEF Inv, Emit
    <2> SUFFICES ASSUME NEW i \in 1 .. n - 1
                 PROVE  /\ stack'[i].rest \subseteq deps[stack'[i].node]
                        /\ i < n - 1 => stack'[i + 1].node \in deps[stack'[i].node]
                        /\ \A e \in deps[stack'[i].node] \ stack'[i].rest :
                              e \in Scheduled' \/ (i < n - 1 /\ e = stack'[i + 1].node)
      BY <1>2, <2>1, SMTT(30) DEF PathInv
    <2>2. i \in 1 .. Len(stack) /\ i < Len(stack)
      BY <1>1
    <2>3. /\ stack[i].rest \subseteq deps[stack[i].node]
          /\ stack[i + 1].node \in deps[stack[i].node]
          /\ \A e \in deps[stack[i].node] \ stack[i].rest :
                e \in Scheduled \/ e = stack[i + 1].node
      BY <2>1, <2>2 DEF PathInv
    <2>4. stack'[i] = stack[i]
      BY <1>2
    <2>5. i < n - 1 => stack'[i + 1] = stack[i + 1]
      BY <1>1, <1>2
    <2>6. i = n - 1 => stack[i + 1].node \in Scheduled'
      BY <1>1, <1>4
    <2>7. i < n - 1 \/ i = n - 1
      BY <1>1
    <2> HIDE DEF n
    <2> QED
      BY <1>4, <2>3, <2>4, <2>5, <2>6, <2>7
  <1>9. SoundInv'
    <2>1. deps[Top.node] \subseteq Scheduled
      BY <1>1 DEF PathInv
    <2>2. \A d \in deps[Top.node] : \E j \in 1 .. m : order'[j] = d
      BY <1>3, <2>1 DEF Scheduled
    <2>3. ASSUME NEW i \in 1 .. m, NEW d \in deps[order'[i]]
          PROVE  \E j \in 1 .. i - 1 : order'[j] = d
      <3>1. PICK j \in 1 .. i - 1 : order[j] = d
        BY <1>3, <2>3 DEF SoundInv
      <3>2. j \in 1 .. m
        BY <1>3
      <3> QED
        BY <1>3, <3>1, <3>2
    <2>4. \A d \in deps[order'[m + 1]] : \E j \in 1 .. m + 1 - 1 : order'[j] = d
      BY <1>3, <2>2
    <2> SUFFICES ASSUME NEW i \in 1 .. m + 1, NEW d \in deps[order'[i]]
                 PROVE  \E j \in 1 .. i - 1 : order'[j] = d
      BY <1>3 DEF SoundInv
    <2>5. CASE i = m + 1
      BY <2>4, <2>5
    <2>6. CASE i \in 1 .. m
      BY <2>3, <2>6
    <2> QED
      BY <1>3, <2>5, <2>6
  <1>10. TypeOK' /\ RootInv'
    BY <1>2, <1>3 DEF TypeOK, RootInv, RootsOf
  <1> QED
    BY <1>7, <1>8, <1>9, <1>10, PeelUnchanged

LEMMA ReturnInv ==
  ASSUME Inv, Return
  PROVE  Inv'
  <1> USE DEF Inv, Return, peelVars, walkVars
  <1>1. TypeOK'
    BY DEF TypeOK
  <1>2. PeelInv' /\ PeelingIsExact'
    BY DEF PeelInv, PeelingIsExact, Stuck, ErrorInv
  <1>3. ErrorInv'
    BY DEF ErrorInv, NoError
  <1>4. IdleInv' /\ RootInv'
    BY DEF IdleInv, RootInv, RootsOf, ErrorInv
  <1> QED
    BY <1>1, <1>2, <1>3, <1>4, WalkUnchanged

-----------------------------------------------------------------------------

(* The invariant of the call.                                                 *)
THEOREM InvHolds == Spec => []Inv
  <1>1. Init => Inv
    BY InitInv
  <1>2. Inv /\ [Next]_vars => Inv'
    <2> SUFFICES ASSUME Inv, [Next]_vars PROVE Inv'
      OBVIOUS
    <2>1. CASE RejectSelfEdge
      BY <2>1, RejectSelfEdgeInv
    <2>2. CASE StartPeeling
      BY <2>2, StartPeelingInv
    <2>3. ASSUME NEW n \in Nodes, Peel(n) PROVE Inv'
      BY <2>3, PeelPreserves
    <2>4. CASE RejectCycle
      BY <2>4, RejectCycleInv
    <2>5. CASE StartWalk
      BY <2>5, StartWalkInv
    <2>6. ASSUME NEW r \in Nodes, TakeRoot(r) PROVE Inv'
      BY <2>6, TakeRootInv
    <2>7. ASSUME NEW d \in Nodes, Descend(d) PROVE Inv'
      BY <2>7, DescendVisited, DescendNew
    <2>8. CASE Emit
      BY <2>8, EmitInv
    <2>9. CASE Return
      BY <2>9, ReturnInv
    <2>10. CASE UNCHANGED vars
      <3>1. UNCHANGED <<deps, visited, stack, order>>
        BY <2>10 DEF vars, walkVars
      <3>2. TypeOK'
        BY <2>10 DEF vars, peelVars, walkVars, Inv, TypeOK
      <3>3. PeelInv' /\ PeelingIsExact'
        BY <2>10 DEF vars, peelVars, Inv, PeelInv, PeelingIsExact, Stuck
      <3>4. ErrorInv' /\ IdleInv' /\ RootInv'
        BY <2>10 DEF vars, peelVars, walkVars, Inv, ErrorInv, IdleInv, RootInv, RootsOf
      <3> QED
        BY <3>1, <3>2, <3>3, <3>4, WalkUnchanged DEF Inv
    <2> QED
      BY <2>1, <2>2, <2>3, <2>4, <2>5, <2>6, <2>7, <2>8, <2>9, <2>10 DEF Next
  <1> QED
    BY <1>1, <1>2, PTL DEF Spec

(* Every variable keeps its type.                                             *)
THEOREM TypeCorrect == Spec => []TypeOK
  <1>1. Inv => TypeOK
    BY DEF Inv
  <1> QED
    BY <1>1, InvHolds, PTL

(* The peeling of `ensure_schedulable` never removes a node of a cycle or one *)
(* that depends on a cycle, and reports nothing else.                         *)
THEOREM PeelingIsExactHolds == Spec => []PeelingIsExact
  <1>1. Inv => PeelingIsExact
    BY DEF Inv
  <1> QED
    BY <1>1, InvHolds, PTL

(* A dependency the depth-first walk skips because it was visited is already  *)
(* in the order.                                                              *)
THEOREM VisitedIsScheduledHolds == Spec => []VisitedIsScheduled
  <1>1. Inv => VisitedIsScheduled
    <2> SUFFICES ASSUME Inv, stack # << >>, NEW d \in Top.rest \cap visited
                 PROVE  \E j \in 1 .. Len(order) : order[j] = d
      BY DEF VisitedIsScheduled
    <2>1. phase = "walk" \/ (phase = "done" /\ error # NoError)
      BY DEF Inv, IdleInv, RootInv, TypeOK
    <2>2. CASE phase = "walk"
      BY <2>2, VisitedDependency DEF Scheduled
    <2>3. CASE phase = "done" /\ error # NoError
      BY <2>3 DEF Inv, IdleInv
    <2> QED
      BY <2>1, <2>2, <2>3
  <1> QED
    BY <1>1, InvHolds, PTL

-----------------------------------------------------------------------------

(* The stuck sets of the contract are those of the call.                      *)
LEMMA UnschedulableIs ==
  ASSUME NEW S \in SUBSET Nodes, Stuck(S),
         \A R \in SUBSET Nodes : Stuck(R) => R \subseteq S
  PROVE  Contract!Unschedulable(deps) = S
  BY DEF Contract!Unschedulable, Contract!Stuck, Stuck

(* When the walk returns, the order is the one the contract asks for.         *)
LEMMA ReturnedOrder ==
  ASSUME Inv, Return
  PROVE  Contract!Complete(order) /\ Contract!Sound(deps, order)
  <1> USE DEF Inv, Return
  <1>1. OnStack = {} /\ visited = Scheduled
    <2>1. Len(stack) = 0
      OBVIOUS
    <2>2. OnStack = {}
      BY <2>1 DEF OnStack
    <2> QED
      BY <2>2 DEF OnceInv
  <1> DEFINE U == Nodes \ visited
  <1>2. ASSUME NEW u \in U PROVE \E c \in U : u \in deps[c]
    <2>1. u \notin RootsOf
      BY DEF RootInv
    <2>2. PICK c \in Nodes : u \in deps[c]
      BY <2>1 DEF RootsOf
    <2>3. ASSUME c \in visited PROVE FALSE
      <3>1. PICK i \in 1 .. Len(order) : order[i] = c
        BY <1>1, <2>3 DEF Scheduled
      <3>2. PICK j \in 1 .. i - 1 : order[j] = u
        BY <2>2, <3>1 DEF SoundInv
      <3>3. j \in 1 .. Len(order)
        BY <3>1 DEF TypeOK
      <3> QED
        BY <1>1, <3>2, <3>3 DEF Scheduled
    <2> QED
      BY <2>2, <2>3
  <1>3. \A S \in SUBSET Nodes : Stuck(S) => S = {}
    BY DEF PeelingIsExact, ErrorInv
  <1>4. U = {}
    <2> HIDE DEF Inv
    <2>1. TypeOK
      BY DEF Inv
    <2>2. U \in SUBSET Nodes
      OBVIOUS
    <2> HIDE DEF U
    <2> QED BY <1>2, <1>3, <2>1, <2>2, ConsumersEnd
  <1>5. \A n \in Nodes : \E i \in 1 .. Len(order) : order[i] = n
    BY <1>1, <1>4 DEF Scheduled
  <1>6. Contract!Complete(order)
    BY <1>5 DEF Contract!Complete, OnceInv, TypeOK
  <1>7. Contract!Sound(deps, order)
    BY DEF Contract!Sound, SoundInv
  <1> QED
    BY <1>6, <1>7

(* Every step answers as the contract allows, or not yet.                     *)
LEMMA StepKeepsContract ==
  ASSUME Inv, [Next]_vars
  PROVE  [Contract!Next]_<<deps, outcome>>
  <1> USE DEF Contract!Next, outcome
  <1>1. CASE RejectSelfEdge
    <2>1. PICK n \in Nodes : n \in deps[n] /\ (\A m \in Nodes : m \in deps[m] => n <= m)
                             /\ error' = SelfEdge(n)
      BY <1>1 DEF RejectSelfEdge
    <2>2. outcome = Contract!Pending /\ outcome' = Contract!SelfEdge(n) /\ UNCHANGED deps
      BY <1>1, <2>1 DEF RejectSelfEdge, Contract!Pending, Contract!SelfEdge, SelfEdge, NoError
    <2> QED
      BY <2>1, <2>2 DEF Contract!ReturnSelfEdge
  <1>2. CASE RejectCycle
    <2>1. Contract!Unschedulable(deps) = Nodes \ removed
      BY <1>2, LeftIsStuck, UnschedulableIs DEF RejectCycle, Inv, PeelingIsExact
    <2>2. outcome = Contract!Pending /\ outcome' = Contract!Cycle(Nodes \ removed) /\ UNCHANGED deps
      BY <1>2 DEF RejectCycle, Contract!Pending, Contract!Cycle, Cycle, NoError
    <2>3. Nodes \ removed # {}
      BY <1>2 DEF RejectCycle, Inv, TypeOK
    <2>4. error = NoError
      BY <1>2 DEF RejectCycle, Inv, ErrorInv
    <2>5. \A n \in Nodes : n \notin deps[n]
      BY <1>2, <2>4 DEF RejectCycle, Inv, PeelInv, NoError
    <2> QED
      BY <2>1, <2>2, <2>3, <2>5 DEF Contract!ReturnCycle
  <1>3. CASE Return
    <2>1. Contract!Complete(order) /\ Contract!Sound(deps, order)
      BY <1>3, ReturnedOrder
    <2>2. outcome = Contract!Pending /\ outcome' = Contract!Ordered(order)
          /\ UNCHANGED deps /\ outcome'.order = order /\ outcome'.tag = "ordered"
      BY <1>3 DEF Return, Inv, ErrorInv, Contract!Pending, Contract!Ordered, walkVars
    <2>3. Contract!Unschedulable(deps) = {}
      <3>1. \A R \in SUBSET Nodes : Stuck(R) => R \subseteq {}
        BY <1>3 DEF Return, Inv, PeelingIsExact, ErrorInv
      <3>2. Stuck({})
        BY DEF Stuck
      <3> QED
        BY <3>1, <3>2, UnschedulableIs
    <2> QED
      BY <2>1, <2>2, <2>3 DEF Contract!ReturnOrder
  <1>4. ASSUME NEW n \in Nodes, Peel(n) PROVE UNCHANGED <<deps, outcome>>
    BY <1>4 DEF Peel
  <1>5. ASSUME NEW r \in Nodes, TakeRoot(r) PROVE UNCHANGED <<deps, outcome>>
    BY <1>5 DEF TakeRoot
  <1>6. ASSUME NEW d \in Nodes, Descend(d) PROVE UNCHANGED <<deps, outcome>>
    BY <1>6 DEF Descend
  <1>7. CASE StartPeeling \/ StartWalk \/ Emit
    BY <1>7 DEF StartPeeling, StartWalk, Emit
  <1>8. CASE UNCHANGED vars
    BY <1>8 DEF vars, walkVars
  <1> QED
    BY <1>1, <1>2, <1>3, <1>4, <1>5, <1>6, <1>7, <1>8 DEF Next

(* S-Sound and S-Complete: the depth-first scheduler answers with an order    *)
(* that holds every node once, dependencies first, exactly when the graph has *)
(* one, and with the right error otherwise.                                   *)
THEOREM KeepsContractHolds == Spec => KeepsContract
  <1>1. Init => Contract!Init
    BY DEF Init, Contract!Init, outcome, Contract!Pending
  <1>2. Inv /\ [Next]_vars => [Contract!Next]_<<deps, outcome>>
    BY StepKeepsContract
  <1> QED
    BY <1>1, <1>2, InvHolds, PTL DEF Spec, KeepsContract, Contract!Spec

(* The peeling reports just the nodes that cannot be scheduled, and the walk  *)
(* over the others never skips a node it still has to schedule.               *)
THEOREM WalkIsSoundHolds == Spec => []WalkIsSound
  <1>1. TypeOK /\ VisitedIsScheduled /\ PeelingIsExact => WalkIsSound
    BY DEF WalkIsSound
  <1> QED
    BY <1>1, TypeCorrect, VisitedIsScheduledHolds, PeelingIsExactHolds, PTL

=============================================================================
