-------------------------- MODULE FrontEndProofs --------------------------
(* The front end.  First the types: the incremental solver implements the      *)
(* full iteration, for every rule of every operation, every number of groups   *)
(* and every graph of nodes.  Then the imports: an expansion holds every       *)
(* source it reaches once, for every set of sources and all they import.       *)
EXTENDS FrontEnd, FiniteSetTheorems, WellFoundedInduction, TLAPS

LEMMA LeastNatural ==
  ASSUME NEW T \in SUBSET Nat, T # {}
  PROVE  \E m \in T : \A k \in T : m <= k
  <1> DEFINE R == {ss \in Nat \X Nat : ss[1] < ss[2]}
  <1>1. IsWellFoundedOn(R, Nat)
    BY NatLessThanWellFounded, Zenon DEF OpToRel
  <1>2. \A k, m \in Nat : <<k, m>> \in R <=> k < m
    OBVIOUS
  <1> HIDE DEF R
  <1>3. PICK m \in T : \A k \in T : ~ (<<k, m>> \in R)
    BY <1>1, WFMin
  <1>4. \A k \in T : k \in Nat /\ m \in Nat /\ ~ (k < m)
    BY <1>2, <1>3
  <1> QED
    BY <1>4

(* What every node of a set has that its children hand on has no exception.    *)
LEMMA NoLeastNode ==
  ASSUME NEW B, B \in SUBSET Nodes, \A n \in B : \E c \in B : c < n
  PROVE  B = {}
  <1> SUFFICES ASSUME B # {} PROVE FALSE
    OBVIOUS
  <1>1. B \in SUBSET Nat
    BY ProgramsAssumption
  <1>2. PICK m \in B : \A k \in B : m <= k
    BY <1>1, LeastNatural
  <1>3. PICK c \in B : c < m
    BY <1>2
  <1> QED
    BY <1>1, <1>2, <1>3

-----------------------------------------------------------------------------
(* The type of node n, T giving those of its children.                         *)
TypeAt(p, cur, memo, n, T) ==
    LET node == p.node[n] IN
    IF n \in DOMAIN memo THEN memo[n]
    ELSE IF node.op \in {"group", "reference"} THEN cur[node.of]
    ELSE Jacobi!Apply(node.op, [k \in DOMAIN node.args |-> T[node.args[k]]])

(* The types of all nodes.                                                     *)
TypesOf(p, cur, memo) == CHOOSE T : T = [n \in Nodes |-> TypeAt(p, cur, memo, n, T)]

LEMMA TypesFromIs ==
  /\ \A m : Jacobi!TypesFrom(m) = TypesOf(program, current, m)
  /\ \A m : (Jacobi!TypesFrom(m))' = TypesOf(program', current', m')
  BY Zenon DEF Jacobi!TypesFrom, Jacobi!Reads, TypesOf, TypeAt

(* The type of a node depends on those of its children only.                   *)
LEMMA TypeOfChildren ==
  ASSUME NEW p \in Programs, NEW cur, NEW memo, NEW n \in Nodes, NEW T, NEW U,
         \A k \in Nodes : k < n => T[k] = U[k]
  PROVE  TypeAt(p, cur, memo, n, T) = TypeAt(p, cur, memo, n, U)
  <1>1. \A k \in DOMAIN p.node[n].args : p.node[n].args[k] \in Nodes /\ p.node[n].args[k] < n
    BY ProgramsAssumption
  <1>2. \A k \in DOMAIN p.node[n].args : T[p.node[n].args[k]] = U[p.node[n].args[k]]
    BY <1>1
  <1>3. [k \in DOMAIN p.node[n].args |-> T[p.node[n].args[k]]] =
            [k \in DOMAIN p.node[n].args |-> U[p.node[n].args[k]]]
    BY <1>2
  <1> QED
    BY <1>3, Zenon DEF TypeAt

(* T gives the types of the nodes below n.                                     *)
Solves(p, cur, memo, T, n) == \A k \in Nodes : k < n => T[k] = TypeAt(p, cur, memo, k, T)

(* There is one way to do so,                                                  *)
LEMMA OneSolution ==
  ASSUME NEW p \in Programs, NEW cur, NEW memo, NEW n \in Nat, NEW T, NEW U,
         Solves(p, cur, memo, T, n), Solves(p, cur, memo, U, n)
  PROVE  \A k \in Nodes : k < n => T[k] = U[k]
  <1> DEFINE B == {k \in Nodes : k < n /\ T[k] # U[k]}
  <1>1. ASSUME NEW m \in B PROVE \E c \in B : c < m
    <2> SUFFICES ASSUME \A k \in Nodes : k < m => k \notin B PROVE FALSE
      BY <1>1
    <2>1. m \in Nodes /\ m \in Nat /\ m < n /\ T[m] # U[m]
      BY <1>1, ProgramsAssumption
    <2>2. \A k \in Nodes : k < m => T[k] = U[k]
      BY <2>1, ProgramsAssumption
    <2>3. TypeAt(p, cur, memo, m, T) = TypeAt(p, cur, memo, m, U)
      BY <2>1, <2>2, TypeOfChildren
    <2> QED
      BY <2>1, <2>3 DEF Solves
  <1>2. B \in SUBSET Nodes
    OBVIOUS
  <1>3. B = {}
    <2> HIDE DEF B
    <2> QED
      BY <1>1, <1>2, NoLeastNode
  <1> QED
    BY <1>3

(* and always one,                                                             *)
LEMMA SolutionExists ==
  ASSUME NEW p \in Programs, NEW cur, NEW memo
  PROVE  \A n \in Nat : \E T : Solves(p, cur, memo, T, n)
  <1> DEFINE B == {n \in Nat : ~ \E T : Solves(p, cur, memo, T, n)}
  <1> SUFFICES ASSUME B # {} PROVE FALSE
    OBVIOUS
  <1>1. PICK m \in B : \A k \in B : m <= k
    BY LeastNatural
  <1>2. m # 0
    <2>1. \A T : Solves(p, cur, memo, T, 0)
      BY ProgramsAssumption DEF Solves
    <2> QED
      BY <1>1, <2>1
  <1>3. m \in Nat /\ m - 1 \in Nat /\ m - 1 \notin B
    BY <1>1, <1>2
  <1>4. PICK T : Solves(p, cur, memo, T, m - 1)
    BY <1>3
  <1> DEFINE U == [k \in Nodes |-> IF k < m - 1 THEN T[k] ELSE TypeAt(p, cur, memo, k, T)]
  <1>5. Solves(p, cur, memo, U, m)
    <2> SUFFICES ASSUME NEW k \in Nodes, k < m PROVE U[k] = TypeAt(p, cur, memo, k, U)
      BY DEF Solves
    <2>1. k \in Nat /\ \A l \in Nodes : l < k => U[l] = T[l]
      BY <1>3, ProgramsAssumption
    <2>2. TypeAt(p, cur, memo, k, U) = TypeAt(p, cur, memo, k, T)
      <3> HIDE DEF U
      <3> QED
        BY <2>1, TypeOfChildren
    <2>3. k < m - 1 => U[k] = T[k] /\ T[k] = TypeAt(p, cur, memo, k, T)
      BY <1>3, <1>4 DEF Solves
    <2>4. ~ (k < m - 1) => U[k] = TypeAt(p, cur, memo, k, T)
      BY <1>3
    <2> QED
      BY <2>2, <2>3, <2>4
  <1> HIDE DEF U
  <1> QED
    BY <1>1, <1>5

(* so that the recursive definition has the meaning it is written with.        *)
LEMMA TypesUnfold ==
  ASSUME NEW p \in Programs, NEW cur, NEW memo
  PROVE  \A n \in Nodes : TypesOf(p, cur, memo)[n] = TypeAt(p, cur, memo, n, TypesOf(p, cur, memo))
  <1> DEFINE S(n) == CHOOSE T : Solves(p, cur, memo, T, n)
             W == [n \in Nodes |-> S(n + 1)[n]]
  <1>0. Nodes \subseteq Nat
    BY ProgramsAssumption
  <1>1. \A n \in Nat : Solves(p, cur, memo, S(n), n)
    BY SolutionExists
  <1> HIDE DEF S
  <1>2. \A n \in Nodes : W[n] = TypeAt(p, cur, memo, n, W)
    <2> SUFFICES ASSUME NEW n \in Nodes PROVE W[n] = TypeAt(p, cur, memo, n, W)
      OBVIOUS
    <2>0. n \in Nat /\ n + 1 \in Nat /\ n < n + 1
      BY <1>0
    <2>1. \A k \in Nodes : k < n => W[k] = S(n + 1)[k]
      <3> SUFFICES ASSUME NEW k \in Nodes, k < n PROVE S(k + 1)[k] = S(n + 1)[k]
        OBVIOUS
      <3>1. k \in Nat /\ k + 1 \in Nat /\ k < k + 1
        BY <1>0
      <3>2. Solves(p, cur, memo, S(k + 1), k + 1) /\ Solves(p, cur, memo, S(n + 1), n + 1)
        BY <1>1, <2>0, <3>1
      <3>3. Solves(p, cur, memo, S(n + 1), k + 1)
        <4>1. \A l \in Nodes : l < k + 1 => l < n + 1
          BY <1>0, <2>0, <3>1
        <4> QED
          BY <3>2, <4>1 DEF Solves
      <3>4. \A l \in Nodes : l < k + 1 => S(k + 1)[l] = S(n + 1)[l]
        BY <3>1, <3>2, <3>3, OneSolution
      <3> QED
        BY <3>1, <3>4
    <2>2. W[n] = S(n + 1)[n] /\ S(n + 1)[n] = TypeAt(p, cur, memo, n, S(n + 1))
      BY <1>1, <2>0 DEF Solves
    <2>3. TypeAt(p, cur, memo, n, W) = TypeAt(p, cur, memo, n, S(n + 1))
      <3> HIDE DEF W
      <3> QED
        BY <2>1, TypeOfChildren
    <2> QED
      BY <2>2, <2>3
  <1>3. W = [n \in Nodes |-> TypeAt(p, cur, memo, n, W)]
    BY <1>2
  <1>4. TypesOf(p, cur, memo) = [n \in Nodes |-> TypeAt(p, cur, memo, n, TypesOf(p, cur, memo))]
    <2> HIDE DEF W
    <2>1. \E T : T = [n \in Nodes |-> TypeAt(p, cur, memo, n, T)]
      BY <1>3
    <2> QED
      BY <2>1 DEF TypesOf
  <1> DEFINE V == TypesOf(p, cur, memo)
  <1>5. V = [n \in Nodes |-> TypeAt(p, cur, memo, n, V)]
    BY <1>4
  <1> HIDE DEF V
  <1>6. \A n \in Nodes : V[n] = TypeAt(p, cur, memo, n, V)
    BY <1>5
  <1> QED
    BY <1>6 DEF V

-----------------------------------------------------------------------------
(* The types that the approximations cur give the nodes.                       *)
Typed(p, cur, T, n) ==
    /\ p.node[n].op \in Approximated => T[n] = cur[p.node[n].of]
    /\ p.node[n].op \notin Approximated =>
          T[n] = Jacobi!Apply(p.node[n].op, [k \in DOMAIN p.node[n].args |-> T[p.node[n].args[k]]])

LEMMA TypeRules ==
  ASSUME NEW p \in Programs, NEW cur, NEW T, T = TypesOf(p, cur, <<>>), NEW n \in Nodes
  PROVE  Typed(p, cur, T, n)
  <1>1. T[n] = TypeAt(p, cur, <<>>, n, T)
    BY TypesUnfold
  <1>2. n \notin DOMAIN <<>>
    OBVIOUS
  <1> QED
    BY <1>1, <1>2, Zenon DEF TypeAt, Approximated, Typed

(* A memo of fresh types changes nothing.                                      *)
LEMMA MemoIsSound ==
  ASSUME NEW p \in Programs, NEW cur, NEW memo, NEW T, T = TypesOf(p, cur, <<>>),
         NEW U, U = TypesOf(p, cur, memo), \A n \in DOMAIN memo : memo[n] = T[n]
  PROVE  \A n \in Nodes : U[n] = T[n]
  <1> DEFINE B == {n \in Nodes : U[n] # T[n]}
  <1>1. ASSUME NEW m \in B PROVE \E c \in B : c < m
    <2> SUFFICES ASSUME \A k \in Nodes : k < m => k \notin B PROVE FALSE
      BY <1>1
    <2>1. m \in Nodes /\ U[m] # T[m] /\ \A k \in Nodes : k < m => U[k] = T[k]
      BY <1>1
    <2>2. U[m] = TypeAt(p, cur, memo, m, U) /\ T[m] = TypeAt(p, cur, <<>>, m, T)
      BY <2>1, TypesUnfold
    <2>3. TypeAt(p, cur, memo, m, U) = TypeAt(p, cur, memo, m, T)
      BY <2>1, TypeOfChildren
    <2>4. TypeAt(p, cur, memo, m, T) = IF m \in DOMAIN memo THEN memo[m] ELSE TypeAt(p, cur, <<>>, m, T)
      <3>1. m \notin DOMAIN <<>>
        OBVIOUS
      <3> QED
        BY <3>1, Zenon DEF TypeAt
    <2> QED
      BY <2>1, <2>2, <2>3, <2>4
  <1>2. B \in SUBSET Nodes
    OBVIOUS
  <1>3. B = {}
    <2> HIDE DEF B
    <2> QED
      BY <1>1, <1>2, NoLeastNode
  <1> QED
    BY <1>3

(* The operands of a node, of which its rule speaks.                           *)
LEMMA Operands ==
  ASSUME NEW p \in Programs, NEW n \in Nodes, p.node[n].op \notin Approximated, NEW T,
         \A k \in Nodes : k < n => T[k] \in Types
  PROVE  \E o \in Operations :
            /\ o[1] = p.node[n].op /\ o[2] = DOMAIN p.node[n].args
            /\ [k \in o[2] |-> T[p.node[n].args[k]]] \in [o[2] -> Types]
  <1> DEFINE D == DOMAIN p.node[n].args
             o == <<p.node[n].op, D>>
  <1>1. o \in Operations
    <2>1. o \in {<<p.node[m].op, DOMAIN p.node[m].args>> :
                   m \in {k \in Nodes : p.node[k].op \notin Approximated}}
      OBVIOUS
    <2> HIDE DEF o
    <2> QED
      BY <2>1, Zenon DEF Operations
  <1>2. \A k \in D : T[p.node[n].args[k]] \in Types
    BY ProgramsAssumption
  <1>3. o[1] = p.node[n].op /\ o[2] = D
    OBVIOUS
  <1> HIDE DEF o
  <1>4. [k \in D |-> T[p.node[n].args[k]]] \in [D -> Types]
    <2> HIDE DEF D
    <2> QED
      BY <1>2
  <1> QED
    BY <1>1, <1>3, <1>4

(* The result of an operation is a type, whose qualifiers come from those of   *)
(* the operands.                                                               *)
LEMMA ResultTyped ==
  ASSUME NEW o \in Operations, NEW a \in [o[2] -> Types]
  PROVE  /\ Jacobi!Apply(o[1], a) \in Types
         /\ Jacobi!Apply(o[1], a).quals = Qualifies(o[1], [k \in o[2] |-> a[k].quals])
         /\ [k \in o[2] |-> a[k].quals] \in [o[2] -> SUBSET Qualifiers]
  <1>1. PICK s, q : /\ s = [k \in o[2] |-> Jacobi!IntervalOf(a[k])]
                    /\ q = [k \in o[2] |-> a[k].quals]
    OBVIOUS
  <1>2. s \in [o[2] -> Intervals]
    BY <1>1 DEF Jacobi!IntervalOf, Intervals, Types
  <1>3. q \in [o[2] -> SUBSET Qualifiers]
    BY <1>1 DEF Types
  <1>4. PICK i, r : i = Bounds(o[1], s) /\ r = Qualifies(o[1], q)
    OBVIOUS
  <1>5. i \in Intervals /\ r \subseteq Qualifiers
    BY <1>2, <1>3, <1>4, ApplyAssumption
  <1>6. Jacobi!Apply(o[1], a) = [lo |-> i.lo, hi |-> i.hi, lsb |-> i.lsb, quals |-> r]
    <2>1. DOMAIN a = o[2]
      OBVIOUS
    <2> QED
      BY <1>1, <1>4, <2>1, Zenon DEF Jacobi!Apply, Jacobi!Type
  <1>7. Jacobi!Apply(o[1], a) \in Types /\ Jacobi!Apply(o[1], a).quals = r
    BY <1>5, <1>6 DEF Intervals, Types
  <1> QED
    BY <1>1, <1>3, <1>4, <1>7

(* Types have their type.                                                      *)
LEMMA TypesTyped ==
  ASSUME NEW p \in Programs, NEW cur \in [Groups -> Types], NEW T, T = TypesOf(p, cur, <<>>)
  PROVE  \A n \in Nodes : T[n] \in Types
  <1> DEFINE B == {n \in Nodes : T[n] \notin Types}
  <1>1. ASSUME NEW m \in B PROVE \E c \in B : c < m
    <2> SUFFICES ASSUME \A k \in Nodes : k < m => k \notin B PROVE FALSE
      BY <1>1
    <2>1. m \in Nodes /\ T[m] \notin Types /\ \A k \in Nodes : k < m => T[k] \in Types
      BY <1>1
    <2>a. Typed(p, cur, T, m)
      BY <2>1, TypeRules
    <2>2. CASE p.node[m].op \in Approximated
      <3>1. T[m] = cur[p.node[m].of]
        BY <2>2, <2>a DEF Typed
      <3>2. p.node[m].of \in Groups
        BY <2>1, <2>2, ProgramsAssumption
      <3> QED
        BY <2>1, <3>1, <3>2
    <2>3. CASE p.node[m].op \notin Approximated
      <3>1. PICK o \in Operations :
              /\ o[1] = p.node[m].op /\ o[2] = DOMAIN p.node[m].args
              /\ [k \in o[2] |-> T[p.node[m].args[k]]] \in [o[2] -> Types]
        BY <2>1, <2>3, Operands
      <3>2. Jacobi!Apply(o[1], [k \in o[2] |-> T[p.node[m].args[k]]]) \in Types
        <4>1. PICK args : args = [k \in o[2] |-> T[p.node[m].args[k]]]
          OBVIOUS
        <4>2. Jacobi!Apply(o[1], args) \in Types
          BY <3>1, <4>1, ResultTyped
        <4> QED
          BY <4>1, <4>2
      <3>3. T[m] = Jacobi!Apply(o[1], [k \in o[2] |-> T[p.node[m].args[k]]])
        BY <2>3, <2>a, <3>1 DEF Typed
      <3> QED
        BY <2>1, <3>2, <3>3
    <2> QED
      BY <2>2, <2>3
  <1>2. B \in SUBSET Nodes
    OBVIOUS
  <1>3. B = {}
    <2> HIDE DEF B
    <2> QED
      BY <1>1, <1>2, NoLeastNode
  <1> QED
    BY <1>3

(* What an operation makes of its operands, named so as to be compared.        *)
OperandsIn(p, n, T) == [k \in DOMAIN p.node[n].args |-> T[p.node[n].args[k]]]

(* What qualifies a result rises with what qualifies its operands.             *)
LEMMA ResultRises ==
  ASSUME NEW o \in Operations, NEW a \in [o[2] -> Types], NEW b \in [o[2] -> Types],
         \A k \in o[2] : a[k].quals \subseteq b[k].quals
  PROVE  Jacobi!Apply(o[1], a).quals \subseteq Jacobi!Apply(o[1], b).quals
  <1>1. PICK s, t : /\ s = [k \in o[2] |-> a[k].quals]
                    /\ t = [k \in o[2] |-> b[k].quals]
    OBVIOUS
  <1>2. s \in [o[2] -> SUBSET Qualifiers] /\ t \in [o[2] -> SUBSET Qualifiers]
    BY <1>1, ResultTyped
  <1>3. \A k \in o[2] : s[k] \subseteq t[k]
    BY <1>1
  <1>4. Qualifies(o[1], s) \subseteq Qualifies(o[1], t)
    BY <1>2, <1>3, QualifiersAssumption
  <1>5. /\ Jacobi!Apply(o[1], a).quals = Qualifies(o[1], s)
        /\ Jacobi!Apply(o[1], b).quals = Qualifies(o[1], t)
    BY <1>1, ResultTyped
  <1> QED
    BY <1>4, <1>5

(* Qualifiers of nodes rise with those of the approximations.                  *)
LEMMA QualifiersRise ==
  ASSUME NEW p \in Programs, NEW cur \in [Groups -> Types], NEW new \in [Groups -> Types],
         \A g \in Groups : cur[g].quals \subseteq new[g].quals,
         NEW T, T = TypesOf(p, cur, <<>>), NEW U, U = TypesOf(p, new, <<>>)
  PROVE  \A n \in Nodes : T[n].quals \subseteq U[n].quals
  <1> DEFINE B == {n \in Nodes : ~ (T[n].quals \subseteq U[n].quals)}
  <1>1. ASSUME NEW m \in B PROVE \E c \in B : c < m
    <2> SUFFICES ASSUME \A k \in Nodes : k < m => k \notin B PROVE FALSE
      BY <1>1
    <2>1. /\ m \in Nodes /\ ~ (T[m].quals \subseteq U[m].quals)
          /\ \A k \in Nodes : k < m => T[k].quals \subseteq U[k].quals
      BY <1>1
    <2>2. \A n \in Nodes : T[n] \in Types /\ U[n] \in Types
      BY TypesTyped
    <2>3. Typed(p, cur, T, m) /\ Typed(p, new, U, m)
      BY <2>1, TypeRules
    <2>4. CASE p.node[m].op \in Approximated
      <3>1. T[m] = cur[p.node[m].of] /\ U[m] = new[p.node[m].of]
        BY <2>3, <2>4 DEF Typed
      <3>2. p.node[m].of \in Groups
        BY <2>1, <2>4, ProgramsAssumption
      <3> QED
        BY <2>1, <3>1, <3>2
    <2>5. CASE p.node[m].op \notin Approximated
      <3>1. PICK a, b : a = OperandsIn(p, m, T) /\ b = OperandsIn(p, m, U)
        OBVIOUS
      <3>2. T[m] = Jacobi!Apply(p.node[m].op, a) /\ U[m] = Jacobi!Apply(p.node[m].op, b)
        BY <2>3, <2>5, <3>1 DEF Typed, OperandsIn
      <3>3. PICK o \in Operations : /\ o[1] = p.node[m].op /\ o[2] = DOMAIN p.node[m].args
        BY <2>1, <2>2, <2>5, Operands
      <3>4. \A k \in o[2] : p.node[m].args[k] \in Nodes /\ p.node[m].args[k] < m
        BY <2>1, <3>3, ProgramsAssumption
      <3>5. a \in [o[2] -> Types] /\ b \in [o[2] -> Types]
        BY <2>2, <3>1, <3>3, <3>4 DEF OperandsIn
      <3>6. \A k \in o[2] : a[k].quals \subseteq b[k].quals
        BY <2>1, <3>1, <3>3, <3>4 DEF OperandsIn
      <3>7. T[m].quals \subseteq U[m].quals
        BY <3>2, <3>3, <3>5, <3>6, ResultRises
      <3> QED
        BY <2>1, <3>7
    <2> QED
      BY <2>4, <2>5
  <1>2. B \in SUBSET Nodes
    OBVIOUS
  <1>3. B = {}
    <2> HIDE DEF B
    <2> QED
      BY <1>1, <1>2, NoLeastNode
  <1> QED
    BY <1>3

-----------------------------------------------------------------------------
(* Closures are computed by iterating a function n times; there is a sequence  *)
(* of what it gives, of any length.                                            *)
Iterates(F, s, T, n) == T[0] = s /\ \A k \in 1 .. n : T[k] = F[T[k - 1]]

LEMMA IterationExists ==
  ASSUME NEW D, NEW F \in [D -> D], NEW s \in D
  PROVE  \A n \in Nat : \E T \in [0 .. n -> D] : Iterates(F, s, T, n)
  <1> DEFINE B == {n \in Nat : ~ \E T \in [0 .. n -> D] : Iterates(F, s, T, n)}
  <1> SUFFICES ASSUME B # {} PROVE FALSE
    OBVIOUS
  <1>1. PICK m \in B : \A k \in B : m <= k
    BY LeastNatural
  <1>2. m # 0
    <2>1. [k \in 0 .. 0 |-> s] \in [0 .. 0 -> D] /\ Iterates(F, s, [k \in 0 .. 0 |-> s], 0)
      BY DEF Iterates
    <2> QED
      BY <1>1, <2>1
  <1>3. m \in Nat /\ m - 1 \in Nat /\ m - 1 \notin B
    BY <1>1, <1>2
  <1>4. PICK T \in [0 .. m - 1 -> D] : Iterates(F, s, T, m - 1)
    BY <1>3
  <1> DEFINE U == [k \in 0 .. m |-> IF k <= m - 1 THEN T[k] ELSE F[T[m - 1]]]
  <1>5. U \in [0 .. m -> D]
    <2> SUFFICES ASSUME NEW k \in 0 .. m PROVE U[k] \in D
      OBVIOUS
    <2>1. k <= m - 1 => k \in 0 .. m - 1
      BY <1>3
    <2>2. m - 1 \in 0 .. m - 1
      BY <1>3
    <2> QED
      BY <1>4, <2>1, <2>2
  <1>6. Iterates(F, s, U, m)
    <2>1. U[0] = s
      BY <1>3, <1>4 DEF Iterates
    <2>2. ASSUME NEW k \in 1 .. m PROVE U[k] = F[U[k - 1]]
      <3>1. k - 1 \in 0 .. m /\ k - 1 <= m - 1
        BY <1>3
      <3>2. U[k - 1] = T[k - 1]
        BY <3>1
      <3>3. CASE k <= m - 1
        BY <1>3, <1>4, <3>2, <3>3 DEF Iterates
      <3>4. CASE ~ (k <= m - 1)
        <4>1. k = m
          BY <1>3, <3>4
        <4> QED
          BY <3>2, <4>1, <3>4
      <3> QED
        BY <3>3, <3>4
    <2> HIDE DEF U
    <2> QED
      BY <2>1, <2>2 DEF Iterates
  <1> HIDE DEF U
  <1> QED
    BY <1>1, <1>5, <1>6

(* What F gives of a member of D, f gives at the next place.                   *)
Follows(F, D, s, f, n) ==
    /\ f = [k \in 0 .. n |-> f[k]]
    /\ f[0] = s
    /\ \A k \in 1 .. n : f[k - 1] \in D => f[k] = F[f[k - 1]]

LEMMA IterationIs ==
  ASSUME NEW D, NEW F \in [D -> D], NEW s \in D, NEW n \in Nat, NEW f, Follows(F, D, s, f, n)
  PROVE  f \in [0 .. n -> D] /\ Iterates(F, s, f, n)
  <1> DEFINE B == {k \in 0 .. n : f[k] \notin D}
  <1>1. /\ f = [k \in 0 .. n |-> f[k]] /\ f[0] = s
        /\ \A k \in 1 .. n : f[k - 1] \in D => f[k] = F[f[k - 1]]
    BY DEF Follows
  <1>2. B = {}
    <2> SUFFICES ASSUME B # {} PROVE FALSE
      OBVIOUS
    <2>1. PICK m \in B : \A k \in B : m <= k
      <3>1. B \in SUBSET Nat
        OBVIOUS
      <3> HIDE DEF B
      <3> QED
        BY <3>1, LeastNatural
    <2>2. m \in 0 .. n /\ f[m] \notin D
      BY <2>1
    <2>3. m # 0
      BY <1>1, <2>2
    <2>4. m \in 1 .. n /\ m - 1 \in 0 .. n /\ m - 1 \notin B
      BY <2>1, <2>2, <2>3
    <2>5. f[m - 1] \in D
      BY <2>4
    <2>6. f[m] = F[f[m - 1]] /\ F[f[m - 1]] \in D
      BY <1>1, <2>4, <2>5
    <2> QED
      BY <2>2, <2>6
  <1>3. \A k \in 0 .. n : f[k] \in D
    BY <1>2
  <1>4. f \in [0 .. n -> D]
    BY <1>1, <1>3
  <1>5. \A k \in 1 .. n : k - 1 \in 0 .. n
    OBVIOUS
  <1> QED
    BY <1>1, <1>3, <1>4, <1>5 DEF Iterates

(* A set that grows from step to step until it is closed under F is closed     *)
(* after as many steps as there are nodes.                                     *)
LEMMA ClosedAfterAll ==
  ASSUME NEW F \in [SUBSET Nodes -> SUBSET Nodes], \A S \in SUBSET Nodes : S \subseteq F[S],
         NEW s \in SUBSET Nodes, NEW N, N = Cardinality(Nodes),
         NEW T \in [0 .. N -> SUBSET Nodes], Iterates(F, s, T, N)
  PROVE  s \subseteq T[N] /\ F[T[N]] = T[N]
  <1>0. IsFiniteSet(Nodes) /\ N \in Nat
    BY ProgramsAssumption, FS_CardinalityType
  <1>1. T \in [0 .. N -> SUBSET Nodes] /\ T[0] = s /\ \A k \in 1 .. N : T[k] = F[T[k - 1]]
    BY DEF Iterates
  <1>2. \A k \in 0 .. N : IsFiniteSet(T[k]) /\ Cardinality(T[k]) \in Nat
    BY <1>0, <1>1, FS_Subset, FS_CardinalityType
  <1> DEFINE Fine(k) == s \subseteq T[k] /\ (F[T[k]] = T[k] \/ Cardinality(T[k]) >= k)
             B == {k \in 0 .. N : ~ Fine(k)}
  <1>3. B = {}
    <2> SUFFICES ASSUME B # {} PROVE FALSE
      OBVIOUS
    <2>1. PICK m \in B : \A k \in B : m <= k
      <3>1. B \in SUBSET Nat
        OBVIOUS
      <3> HIDE DEF B
      <3> QED
        BY <3>1, LeastNatural
    <2>2. m \in 0 .. N /\ ~ Fine(m)
      BY <2>1
    <2>3. m # 0
      <3>1. 0 \in 0 .. N
        BY <1>0
      <3> QED
        BY <1>1, <1>2, <2>2, <3>1
    <2>4. m - 1 \in 0 .. N /\ m \in 1 .. N /\ m - 1 \notin B
      BY <1>0, <2>1, <2>2, <2>3
    <2>5. PICK S, R : S = T[m - 1] /\ R = T[m]
      OBVIOUS
    <2>6. /\ S \in SUBSET Nodes /\ R = F[S] /\ S \subseteq R /\ s \subseteq S
          /\ F[S] = S \/ Cardinality(S) >= m - 1
      BY <1>1, <2>4, <2>5
    <2>7. CASE F[S] = S
      BY <2>2, <2>5, <2>6, <2>7
    <2>8. CASE F[S] # S
      <3>1. IsFiniteSet(R) /\ Cardinality(R) \in Nat /\ Cardinality(S) \in Nat
        BY <1>2, <2>4, <2>5, <2>2
      <3>2. Cardinality(S) < Cardinality(R)
        BY <2>6, <2>8, <3>1, FS_Subset
      <3> QED
        BY <2>2, <2>4, <2>5, <2>6, <2>8, <3>1, <3>2
    <2> QED
      BY <2>7, <2>8
  <1>4. Fine(N)
    <2>1. N \in 0 .. N
      BY <1>0
    <2>2. N \notin B
      BY <1>3
    <2> HIDE DEF Fine
    <2> QED
      BY <2>1, <2>2
  <1>5. T[N] \subseteq Nodes /\ T[N] \in SUBSET Nodes
    BY <1>0, <1>1
  <1>6. ASSUME Cardinality(T[N]) >= N PROVE F[T[N]] = T[N]
    <2>1. T[N] = Nodes
      BY <1>0, <1>2, <1>5, <1>6, FS_Subset
    <2> QED
      BY <1>5, <2>1
  <1> QED
    BY <1>4, <1>6

ClosesFrom(F, s, T, n) ==
    /\ F \in [SUBSET Nodes -> SUBSET Nodes] /\ \A S \in SUBSET Nodes : S \subseteq F[S]
    /\ s \in SUBSET Nodes /\ n = Cardinality(Nodes)
    /\ T \in [0 .. n -> SUBSET Nodes] /\ Iterates(F, s, T, n)

LEMMA ClosesAfterAll ==
  ASSUME NEW F, NEW s, NEW T, NEW n, ClosesFrom(F, s, T, n)
  PROVE  s \subseteq T[n] /\ F[T[n]] = T[n]
  BY ClosedAfterAll DEF ClosesFrom

(* The groups' nodes of changed.                                               *)
Seeds(changed) == {n \in Nodes : IsSeed(n) /\ program.node[n].of \in changed}

(* Climbing ends with a set that has the references and, with the seeds, the   *)
(* parents of its nodes.                                                       *)
LEMMA StaleNodesClosed ==
  ASSUME NEW changed
  PROVE  /\ StaleNodes(changed) \subseteq Nodes
         /\ ReferencesTo(changed) \subseteq StaleNodes(changed)
         /\ Parents(Seeds(changed) \cup StaleNodes(changed)) \subseteq StaleNodes(changed)
  <1> DEFINE N == Cardinality(Nodes)
             X == Seeds(changed)
             R == ReferencesTo(changed)
             F == [S \in SUBSET Nodes |-> S \cup Parents(X \cup S)]
             Climbs(f) == f = [k \in 0 .. N |-> IF k = 0 THEN R ELSE f[k - 1] \cup Parents(X \cup f[k - 1])]
             C == CHOOSE f : Climbs(f)
  <1>1. F \in [SUBSET Nodes -> SUBSET Nodes] /\ \A S \in SUBSET Nodes : S \subseteq F[S]
    BY DEF Parents
  <1>2. R \in SUBSET Nodes
    BY DEF ReferencesTo
  <1>3. N \in Nat
    BY ProgramsAssumption, FS_CardinalityType
  <1>4. PICK T \in [0 .. N -> SUBSET Nodes] : Iterates(F, R, T, N)
    <2> HIDE DEF N, R, F
    <2> QED
      BY <1>1, <1>2, <1>3, IterationExists
  <1>5. Climbs(T)
    <2> HIDE DEF N, R, X
    <2>1. \A k \in 0 .. N : T[k] = IF k = 0 THEN R ELSE T[k - 1] \cup Parents(X \cup T[k - 1])
      <3> SUFFICES ASSUME NEW k \in 0 .. N
                   PROVE  T[k] = IF k = 0 THEN R ELSE T[k - 1] \cup Parents(X \cup T[k - 1])
        OBVIOUS
      <3>1. CASE k = 0
        BY <1>4, <3>1 DEF Iterates
      <3>2. CASE k # 0
        <4>1. k \in 1 .. N /\ k - 1 \in 0 .. N
          BY <1>3, <3>2
        <4>2. T[k - 1] \in SUBSET Nodes
          BY <4>1
        <4>3. T[k] = F[T[k - 1]]
          <5> HIDE DEF F
          <5> QED
            BY <1>4, <4>1 DEF Iterates
        <4> QED
          BY <3>2, <4>2, <4>3
      <3> QED
        BY <3>1, <3>2
    <2> QED
      BY <2>1
  <1>6. Climbs(C)
    <2> HIDE DEF Climbs
    <2> QED
      BY <1>5
  <1>7. StaleNodes(changed) = C[N]
    BY Zenon DEF StaleNodes, Seeds
  <1>8. Follows(F, SUBSET Nodes, R, C, N)
    <2>0. PICK f : f = C
      OBVIOUS
    <2>1. Climbs(f)
      BY <1>6, <2>0
    <2> HIDE DEF C, N, R, X
    <2>2. /\ \A k \in 0 .. N : f[k] = IF k = 0 THEN R ELSE f[k - 1] \cup Parents(X \cup f[k - 1])
          /\ f = [k \in 0 .. N |-> f[k]]
      BY <2>1
    <2>3. f[0] = R
      BY <1>3, <2>2
    <2>4. ASSUME NEW k \in 1 .. N, f[k - 1] \in SUBSET Nodes PROVE f[k] = F[f[k - 1]]
      <3>1. k \in 0 .. N /\ k # 0
        BY <1>3
      <3>2. f[k] = f[k - 1] \cup Parents(X \cup f[k - 1])
        BY <2>2, <3>1
      <3> QED
        BY <2>4, <3>2
    <2>5. Follows(F, SUBSET Nodes, R, f, N)
      <3> HIDE DEF F, Climbs
      <3> QED
        BY <2>2, <2>3, <2>4 DEF Follows
    <2> QED
      BY <2>0, <2>5
  <1>9. R \subseteq C[N] /\ F[C[N]] = C[N] /\ C[N] \in SUBSET Nodes
    <2>0. PICK n : n = Cardinality(Nodes) /\ n = N
      OBVIOUS
    <2> HIDE DEF F, R, C, N
    <2>1. C \in [0 .. N -> SUBSET Nodes] /\ Iterates(F, R, C, N)
      BY <1>1, <1>2, <1>3, <1>8, IterationIs
    <2>a. C \in [0 .. n -> SUBSET Nodes] /\ Iterates(F, R, C, n)
      BY <2>0, <2>1
    <2>2. R \subseteq C[n] /\ F[C[n]] = C[n]
      <3>1. ClosesFrom(F, R, C, n)
        BY <1>1, <1>2, <2>0, <2>a DEF ClosesFrom
      <3> QED
        BY ONLY <3>1, ClosesAfterAll
    <2>3. N \in 0 .. N
      BY <1>3
    <2> QED
      BY <2>0, <2>1, <2>2, <2>3
  <1>11. F[C[N]] = C[N] \cup Parents(X \cup C[N])
    <2> HIDE DEF C, N, X
    <2> QED
      BY <1>9
  <1> HIDE DEF C, N, F, Climbs
  <1> QED
    BY <1>7, <1>9, <1>11

(* A visit stays in the graph.                                                 *)
LEMMA VisitsNodes ==
  ASSUME program \in Programs, NEW g \in Groups
  PROVE  Visited(g) \subseteq {n \in Nodes : ~ IsSeed(n)}
  <1> DEFINE N == Cardinality(Nodes)
             s == {program.body[g]}
             F == [S \in SUBSET Nodes |-> S \cup UNION {Children(n) : n \in S \ DOMAIN env}]
             Below(f) == f = [k \in 0 .. N |->
                IF k = 0 THEN s ELSE f[k - 1] \cup UNION {Children(n) : n \in f[k - 1] \ DOMAIN env}]
             C == CHOOSE f : Below(f)
  <1>1. F \in [SUBSET Nodes -> SUBSET Nodes]
    <2>1. \A n \in Nodes : Children(n) \subseteq Nodes
      BY ProgramsAssumption DEF Children
    <2> QED
      BY <2>1
  <1>2. s \in SUBSET Nodes
    BY ProgramsAssumption
  <1>3. N \in Nat
    BY ProgramsAssumption, FS_CardinalityType
  <1>4. PICK T \in [0 .. N -> SUBSET Nodes] : Iterates(F, s, T, N)
    <2> HIDE DEF N, s, F
    <2> QED
      BY <1>1, <1>2, <1>3, IterationExists
  <1>5. Below(T)
    <2> HIDE DEF N, s
    <2>1. ASSUME NEW k \in 0 .. N
          PROVE  T[k] = IF k = 0 THEN s ELSE T[k - 1] \cup UNION {Children(n) : n \in T[k - 1] \ DOMAIN env}
      <3>1. CASE k = 0
        BY <1>4, <3>1 DEF Iterates
      <3>2. CASE k # 0
        <4>1. k \in 1 .. N /\ k - 1 \in 0 .. N
          BY <1>3, <3>2
        <4>2. T[k - 1] \in SUBSET Nodes
          BY <4>1
        <4>3. T[k] = F[T[k - 1]]
          <5> HIDE DEF F
          <5> QED
            BY <1>4, <4>1 DEF Iterates
        <4> QED
          BY <3>2, <4>2, <4>3
      <3> QED
        BY <3>1, <3>2
    <2> QED
      BY <2>1
  <1>6. Below(C)
    <2> HIDE DEF Below
    <2> QED
      BY <1>5
  <1>7. Visited(g) = {n \in C[N] : ~ IsSeed(n)}
    BY Zenon DEF Visited
  <1>8. Follows(F, SUBSET Nodes, s, C, N)
    <2>0. PICK f : f = C
      OBVIOUS
    <2>1. Below(f)
      BY <1>6, <2>0
    <2> HIDE DEF C, N, s
    <2>2. /\ \A k \in 0 .. N : f[k] = IF k = 0 THEN s
             ELSE f[k - 1] \cup UNION {Children(n) : n \in f[k - 1] \ DOMAIN env}
          /\ f = [k \in 0 .. N |-> f[k]]
      BY <2>1
    <2>3. f[0] = s
      BY <1>3, <2>2
    <2>4. ASSUME NEW k \in 1 .. N, f[k - 1] \in SUBSET Nodes PROVE f[k] = F[f[k - 1]]
      <3>1. k \in 0 .. N /\ k # 0
        BY <1>3
      <3>2. f[k] = f[k - 1] \cup UNION {Children(n) : n \in f[k - 1] \ DOMAIN env}
        BY <2>2, <3>1
      <3> QED
        BY <2>4, <3>2
    <2>5. Follows(F, SUBSET Nodes, s, f, N)
      <3> HIDE DEF F, Below
      <3> QED
        BY <2>2, <2>3, <2>4 DEF Follows
    <2> QED
      BY <2>0, <2>5
  <1>9. C[N] \in SUBSET Nodes
    <2> HIDE DEF F, s, C, N
    <2>1. C \in [0 .. N -> SUBSET Nodes]
      BY <1>1, <1>2, <1>3, <1>8, IterationIs
    <2>2. N \in 0 .. N
      BY <1>3
    <2> QED
      BY <2>1, <2>2
  <1> HIDE DEF C, N, F, Below
  <1> QED
    BY <1>7, <1>9

(* What climbing does not reach keeps its type: a pass that changes the        *)
(* approximations of changed only leaves that of every other node alone.       *)
LEMMA ClimbingIsEnough ==
  ASSUME program \in Programs, NEW changed, NEW new, \A g \in Groups \ changed : new[g] = current[g],
         NEW T, T = TypesOf(program, current, <<>>), NEW U, U = TypesOf(program, new, <<>>)
  PROVE  \A n \in Nodes : n \notin StaleNodes(changed) /\ n \notin Seeds(changed) => U[n] = T[n]
  <1> DEFINE B == {n \in Nodes : n \notin StaleNodes(changed) /\ n \notin Seeds(changed) /\ U[n] # T[n]}
  <1>1. ASSUME NEW m \in B PROVE \E c \in B : c < m
    <2> SUFFICES ASSUME \A k \in Nodes : k < m => k \notin B PROVE FALSE
      BY <1>1
    <2>1. /\ m \in Nodes /\ m \notin StaleNodes(changed) /\ m \notin Seeds(changed) /\ U[m] # T[m]
          /\ \A k \in Nodes : k < m /\ k \notin StaleNodes(changed) /\ k \notin Seeds(changed) => U[k] = T[k]
      BY <1>1
    <2>2. Typed(program, current, T, m) /\ Typed(program, new, U, m)
      BY <2>1, TypeRules
    <2>3. CASE program.node[m].op \in Approximated
      <3>1. T[m] = current[program.node[m].of] /\ U[m] = new[program.node[m].of]
        BY <2>2, <2>3 DEF Typed
      <3>2. program.node[m].of \in Groups
        BY <2>1, <2>3, ProgramsAssumption
      <3>3. program.node[m].of \notin changed
        <4>1. CASE program.node[m].op = "group"
          BY <2>1, <4>1 DEF Seeds, IsSeed
        <4>2. CASE program.node[m].op = "reference"
          BY <2>1, <4>2, StaleNodesClosed DEF ReferencesTo
        <4> QED
          BY <2>3, <4>1, <4>2 DEF Approximated
      <3> QED
        BY <2>1, <3>1, <3>2, <3>3
    <2>4. CASE program.node[m].op \notin Approximated
      <3>1. ASSUME NEW k \in DOMAIN program.node[m].args
            PROVE  U[program.node[m].args[k]] = T[program.node[m].args[k]]
        <4>1. program.node[m].args[k] \in Nodes /\ program.node[m].args[k] < m
          BY <2>1, ProgramsAssumption
        <4>2. program.node[m].args[k] \in Children(m)
          BY DEF Children
        <4>3. m \notin Parents(Seeds(changed) \cup StaleNodes(changed))
          BY <2>1, StaleNodesClosed
        <4>4. program.node[m].args[k] \notin Seeds(changed) \cup StaleNodes(changed)
          BY <2>1, <4>2, <4>3 DEF Parents
        <4> QED
          BY <2>1, <4>1, <4>4
      <3>2. OperandsIn(program, m, U) = OperandsIn(program, m, T)
        BY <3>1 DEF OperandsIn
      <3>3. /\ T[m] = Jacobi!Apply(program.node[m].op, OperandsIn(program, m, T))
            /\ U[m] = Jacobi!Apply(program.node[m].op, OperandsIn(program, m, U))
        BY <2>2, <2>4 DEF Typed, OperandsIn
      <3> QED
        BY <2>1, <3>2, <3>3
    <2> QED
      BY <2>3, <2>4
  <1>2. B \in SUBSET Nodes
    OBVIOUS
  <1>3. B = {}
    <2> HIDE DEF B
    <2> QED
      BY <1>1, <1>2, NoLeastNode
  <1> QED
    BY <1>3

-----------------------------------------------------------------------------
(* The next approximation of a group, from the present one, its ages and the   *)
(* type of its body.                                                           *)
Approx(c, aMin, aMax, t) ==
    LET next == Jacobi!Merge(c, t)
    IN  Jacobi!Widened(c, next, Jacobi!AgedMin(aMin, c, next), Jacobi!AgedMax(aMax, c, next))

(* A bound that moves goes to that of the greatest numbers.                    *)
NextLo(c, t) == IF ~ Jacobi!Empty(t) /\ t.lo < c.lo THEN 1 ELSE c.lo
NextHi(c, t) == IF ~ Jacobi!Empty(t) /\ c.hi < t.hi THEN MaxBound - 1 ELSE c.hi
NextLsb(c, t) == IF NextLo(c, t) = Zero /\ NextHi(c, t) = Zero THEN 0
                 ELSE IF Jacobi!Empty(t) \/ c.lsb < t.lsb THEN c.lsb ELSE t.lsb
NextType(c, t) == [lo |-> NextLo(c, t), hi |-> NextHi(c, t), lsb |-> NextLsb(c, t),
                   quals |-> t.quals \cup (c.quals \cap {"exec"})]

(* A bound has an age as soon as it is not zero's.                             *)
AgeLo(c) == IF c.lo = Zero THEN 0 ELSE 1
AgeHi(c) == IF c.hi = Zero THEN 0 ELSE 1

(* An approximation with its ages, as the solver leaves it.                    *)
Aged(c, aMin, aMax) ==
    /\ c \in Types /\ c.lo \in {Zero, 1} /\ c.hi \in {Zero, MaxBound - 1}
    /\ aMin = AgeLo(c) /\ aMax = AgeHi(c)

(* The fields of an approximation and of a type.                               *)
Fields(c, t) ==
    /\ c.lo \in {Zero, 1} /\ c.hi \in {Zero, MaxBound - 1}
    /\ t.lo \in 0 .. MaxBound /\ t.hi \in 0 .. MaxBound
    /\ c.lsb \in Precisions /\ t.lsb \in Precisions /\ c.lsb \in Int /\ t.lsb \in Int /\ 0 \in Precisions
    /\ c.quals \subseteq Qualifiers /\ t.quals \subseteq Qualifiers
    /\ MaxBound \in Int /\ Zero \in Int /\ 1 < Zero /\ Zero < MaxBound - 1

LEMMA FieldsOf ==
  ASSUME NEW c, NEW aMin, NEW aMax, Aged(c, aMin, aMax), NEW t \in Types
  PROVE  Fields(c, t)
  <1>1. c \in Types /\ c.lo \in {Zero, 1} /\ c.hi \in {Zero, MaxBound - 1}
    BY DEF Aged
  <1>2. /\ c.lsb \in Precisions /\ c.quals \subseteq Qualifiers
        /\ t.lo \in 0 .. MaxBound /\ t.hi \in 0 .. MaxBound /\ t.lsb \in Precisions /\ t.quals \subseteq Qualifiers
    BY <1>1 DEF Types
  <1>3. c.lsb \in Int /\ t.lsb \in Int /\ 0 \in Precisions
    <2>1. Precisions \subseteq Int /\ 0 \in Precisions
      BY BoundsAssumption
    <2> QED
      BY ONLY <1>2, <2>1
  <1>4. MaxBound \in Int /\ Zero \in Int /\ 1 < Zero /\ Zero < MaxBound - 1
    <2>1. MaxBound \in Nat /\ Zero \in 2..(MaxBound - 2)
      BY BoundsAssumption
    <2> QED
      BY ONLY <2>1
  <1> QED
    BY ONLY <1>1, <1>2, <1>3, <1>4 DEF Fields

LEMMA ApproxIs ==
  ASSUME NEW c, NEW aMin, NEW aMax, Aged(c, aMin, aMax), NEW t \in Types
  PROVE  /\ Approx(c, aMin, aMax, t) = NextType(c, t)
         /\ Jacobi!AgedMin(aMin, c, Jacobi!Merge(c, t)) = AgeLo(NextType(c, t))
         /\ Jacobi!AgedMax(aMax, c, Jacobi!Merge(c, t)) = AgeHi(NextType(c, t))
  <1>0. Fields(c, t) /\ aMin = AgeLo(c) /\ aMax = AgeHi(c)
    BY FieldsOf DEF Aged
  <1>1. PICK lo, hi, low, q :
          /\ lo = (IF ~ Jacobi!Empty(t) /\ t.lo < c.lo THEN t.lo ELSE c.lo)
          /\ hi = (IF ~ Jacobi!Empty(t) /\ c.hi < t.hi THEN t.hi ELSE c.hi)
          /\ low = (IF Jacobi!Empty(t) \/ c.lsb < t.lsb THEN c.lsb ELSE t.lsb)
          /\ q = t.quals \cup (c.quals \cap {"exec"})
    OBVIOUS
  <1>2. PICK lsb : lsb = IF Jacobi!Empty(t) THEN low ELSE IF lo = Zero /\ hi = Zero THEN 0 ELSE low
    OBVIOUS
  <1>3. PICK m : m = [lo |-> lo, hi |-> hi, lsb |-> lsb, quals |-> q]
    OBVIOUS
  <1>4. Jacobi!Merge(c, t) = m
    <2>1. PICK i, j : i = Jacobi!IntervalOf(c) /\ j = Jacobi!IntervalOf(t)
      OBVIOUS
    <2>2. /\ i = [lo |-> c.lo, hi |-> c.hi, lsb |-> c.lsb]
          /\ i.lo = c.lo /\ i.hi = c.hi /\ i.lsb = c.lsb
          /\ j.lo = t.lo /\ j.hi = t.hi /\ j.lsb = t.lsb
      BY <2>1 DEF Jacobi!IntervalOf
    <2>3. Jacobi!Empty(j) = Jacobi!Empty(t)
      BY <2>2 DEF Jacobi!Empty
    <2>4. Jacobi!Reunion(i, j) = [lo |-> lo, hi |-> hi, lsb |-> lsb]
      <3>1. CASE Jacobi!Empty(t)
        <4>1. Jacobi!Reunion(i, j) = i
          BY <2>3, <3>1 DEF Jacobi!Reunion
        <4> QED
          BY <1>1, <1>2, <2>2, <3>1, <4>1
      <3>2. CASE ~ Jacobi!Empty(t)
        <4>1. Jacobi!Smaller(c.lo, t.lo) = lo /\ Jacobi!Greater(c.hi, t.hi) = hi /\ Jacobi!Smaller(c.lsb, t.lsb) = low
          BY <1>0, <1>1, <3>2 DEF Fields, Jacobi!Smaller, Jacobi!Greater
        <4>2. Jacobi!Reunion(i, j) = Jacobi!Interval(lo, hi, low)
          BY <2>2, <2>3, <3>2, <4>1 DEF Jacobi!Reunion
        <4> QED
          BY <1>2, <3>2, <4>2 DEF Jacobi!Interval
      <3> QED
        BY <3>1, <3>2
    <2> QED
      BY <1>1, <1>3, <2>1, <2>4 DEF Jacobi!Merge, Jacobi!Type
  <1>5. m.lo = lo /\ m.hi = hi /\ m.lsb = lsb /\ m.quals = q
    BY <1>3
  <1>6. /\ lo # c.lo <=> ~ Jacobi!Empty(t) /\ t.lo < c.lo
        /\ hi # c.hi <=> ~ Jacobi!Empty(t) /\ c.hi < t.hi
    BY <1>0, <1>1 DEF Fields
  <1>7. PICK x, y : x = Jacobi!AgedMin(aMin, c, m) /\ y = Jacobi!AgedMax(aMax, c, m)
    OBVIOUS
  <1>8. x = (IF lo # c.lo THEN 1 ELSE AgeLo(c)) /\ y = (IF hi # c.hi THEN 1 ELSE AgeHi(c))
    BY <1>0, <1>5, <1>7
    DEF AgeLo, AgeHi, Jacobi!AgedMin, Jacobi!AgedMax, Jacobi!Smaller, Jacobi!MAX_AGE, Jacobi!WIDENING_LIMIT
  <1>9. x = AgeLo(NextType(c, t)) /\ y = AgeHi(NextType(c, t))
    <2>1. NextType(c, t).lo = NextLo(c, t) /\ NextType(c, t).hi = NextHi(c, t)
      BY DEF NextType
    <2>2. NextLo(c, t) = (IF lo # c.lo THEN 1 ELSE c.lo) /\ NextHi(c, t) = (IF hi # c.hi THEN MaxBound - 1 ELSE c.hi)
      BY <1>6 DEF NextLo, NextHi
    <2> QED
      BY <1>0, <1>8, <2>1, <2>2 DEF AgeLo, AgeHi, Fields
  <1>10. /\ (IF m.lo # c.lo /\ x > 0 THEN 1 ELSE m.lo) = NextLo(c, t)
         /\ (IF m.hi # c.hi /\ y > 0 THEN MaxBound - 1 ELSE m.hi) = NextHi(c, t)
    BY <1>5, <1>6, <1>8 DEF NextLo, NextHi
  <1>11. (IF NextLo(c, t) = Zero /\ NextHi(c, t) = Zero THEN 0 ELSE lsb) = NextLsb(c, t)
    <2>1. CASE Jacobi!Empty(t)
      BY <1>1, <1>2, <2>1 DEF NextLsb
    <2>2. CASE ~ Jacobi!Empty(t)
      <3>1. lo = Zero /\ hi = Zero => NextLo(c, t) = Zero /\ NextHi(c, t) = Zero
        BY <1>0, <1>1 DEF NextLo, NextHi, Fields
      <3> QED
        BY <1>1, <1>2, <2>2, <3>1 DEF NextLsb
    <2> QED
      BY <2>1, <2>2
  <1>12. Jacobi!Widened(c, m, x, y) = NextType(c, t)
    <2> HIDE DEF NextLo, NextHi, NextLsb
    <2>1. Jacobi!Upper.lo = 1 /\ Jacobi!Upper.hi = MaxBound - 1 /\ Jacobi!WIDENING_LIMIT = 0
      BY DEF Jacobi!Upper, Jacobi!WIDENING_LIMIT
    <2>2. Jacobi!Widened(c, m, x, y) = Jacobi!Type(Jacobi!Interval(NextLo(c, t), NextHi(c, t), lsb), q)
      BY <1>5, <1>10, <2>1 DEF Jacobi!Widened
    <2>3. Jacobi!Interval(NextLo(c, t), NextHi(c, t), lsb) =
            [lo |-> NextLo(c, t), hi |-> NextHi(c, t), lsb |-> NextLsb(c, t)]
      BY <1>11 DEF Jacobi!Interval
    <2> QED
      BY <1>1, <2>2, <2>3 DEF Jacobi!Type, NextType
  <1> QED
    BY <1>4, <1>7, <1>9, <1>12 DEF Approx

(* The next approximation is one, with its ages.                               *)
LEMMA AgedStays ==
  ASSUME NEW c, NEW aMin, NEW aMax, Aged(c, aMin, aMax), NEW t \in Types
  PROVE  Aged(NextType(c, t), AgeLo(NextType(c, t)), AgeHi(NextType(c, t)))
  <1>0. Fields(c, t)
    BY FieldsOf
  <1>1. PICK lo, hi, lsb, q : /\ lo = NextLo(c, t) /\ hi = NextHi(c, t) /\ lsb = NextLsb(c, t)
                              /\ q = t.quals \cup (c.quals \cap {"exec"})
    OBVIOUS
  <1>2. lo \in {Zero, 1} /\ hi \in {Zero, MaxBound - 1} /\ lsb \in Precisions /\ q \subseteq Qualifiers
    BY <1>0, <1>1 DEF NextLo, NextHi, NextLsb, Fields
  <1>3. NextType(c, t) = [lo |-> lo, hi |-> hi, lsb |-> lsb, quals |-> q]
    BY <1>1 DEF NextType
  <1>4. lo \in 0 .. MaxBound /\ hi \in 0 .. MaxBound
    BY <1>0, <1>2 DEF Fields
  <1>5. NextType(c, t) \in Types /\ NextType(c, t).lo = lo /\ NextType(c, t).hi = hi
    BY <1>2, <1>3, <1>4 DEF Types
  <1> QED
    BY <1>2, <1>5 DEF Aged

(* A type joined twice changes nothing the second time.                        *)
LEMMA JoinedOnce ==
  ASSUME NEW c, NEW aMin, NEW aMax, Aged(c, aMin, aMax), NEW t \in Types
  PROVE  NextType(NextType(c, t), t) = NextType(c, t)
  <1>0. Fields(c, t)
    BY FieldsOf
  <1>1. PICK d : d = NextType(c, t)
    OBVIOUS
  <1>2. /\ d.lo = NextLo(c, t) /\ d.hi = NextHi(c, t) /\ d.lsb = NextLsb(c, t)
        /\ d.quals = t.quals \cup (c.quals \cap {"exec"})
    BY <1>1 DEF NextType
  <1>3. NextLo(d, t) = d.lo /\ NextHi(d, t) = d.hi
    BY <1>0, <1>2 DEF NextLo, NextHi, Fields, Jacobi!Empty
  <1>4. NextLsb(d, t) = d.lsb
    <2> HIDE DEF NextLo, NextHi
    <2> QED
      BY <1>0, <1>2, <1>3 DEF NextLsb, Fields
  <1>5. t.quals \cup (d.quals \cap {"exec"}) = d.quals
    BY <1>2
  <1>6. NextType(d, t) = [lo |-> d.lo, hi |-> d.hi, lsb |-> d.lsb, quals |-> d.quals]
    BY <1>3, <1>4, <1>5 DEF NextType
  <1>7. d = [lo |-> d.lo, hi |-> d.hi, lsb |-> d.lsb, quals |-> d.quals]
    <2>1. d = [lo |-> NextLo(c, t), hi |-> NextHi(c, t), lsb |-> NextLsb(c, t),
               quals |-> t.quals \cup (c.quals \cap {"exec"})]
      BY <1>1 DEF NextType
    <2> QED
      BY <1>2, <2>1
  <1> QED
    BY <1>1, <1>6, <1>7

(* It holds the type, up to the greatest numbers.                              *)
LEMMA NextHolds ==
  ASSUME NEW c, NEW aMin, NEW aMax, Aged(c, aMin, aMax), NEW t \in Types
  PROVE  /\ NextType(c, t).lo <= c.lo /\ c.hi <= NextType(c, t).hi
         /\ \/ Jacobi!Empty(t)
            \/ /\ NextType(c, t).lo <= Jacobi!Greater(t.lo, Jacobi!Upper.lo)
               /\ Jacobi!Smaller(t.hi, Jacobi!Upper.hi) <= NextType(c, t).hi
  <1>0. Fields(c, t)
    BY FieldsOf
  <1>1. NextType(c, t).lo = NextLo(c, t) /\ NextType(c, t).hi = NextHi(c, t)
    BY DEF NextType
  <1>2. Jacobi!Upper.lo = 1 /\ Jacobi!Upper.hi = MaxBound - 1
    BY DEF Jacobi!Upper
  <1>3. NextLo(c, t) <= c.lo /\ c.hi <= NextHi(c, t)
    BY <1>0 DEF NextLo, NextHi, Fields
  <1>4. ASSUME ~ Jacobi!Empty(t)
        PROVE  NextLo(c, t) <= Jacobi!Greater(t.lo, 1) /\ Jacobi!Smaller(t.hi, MaxBound - 1) <= NextHi(c, t)
    BY <1>0, <1>4 DEF NextLo, NextHi, Fields, Jacobi!Greater, Jacobi!Smaller
  <1> QED
    BY <1>1, <1>2, <1>3, <1>4

-----------------------------------------------------------------------------
(* The types of the nodes, and of a group's body, now.                         *)
NodeTypes == TypesOf(program, current, <<>>)
Body(g) == NodeTypes[program.body[g]]

(* What qualifies an approximation qualifies its body.                         *)
QualifiersAreInferred == \A g \in Groups : current[g].quals \subseteq Body(g).quals

(* The inductive invariant.                                                    *)
IInv ==
    /\ program \in Programs
    /\ current \in [Groups -> Types]
    /\ \A g \in Groups : Aged(current[g], ageMin[g], ageMax[g])
    /\ progress \in BOOLEAN /\ stale \subseteq Groups
    /\ stale # {} => progress
    /\ DOMAIN env \subseteq {n \in Nodes : ~ IsSeed(n)}
    /\ MemoIsFresh
    /\ SkippedGroupsAreStable
    /\ QualifiersAreInferred

LEMMA InferredIs ==
  /\ \A g : Jacobi!Inferred(g) = Body(g)
  /\ \A g, t : Jacobi!Approximation(g, t) = Approx(current[g], ageMin[g], ageMax[g], t)
  <1>1. \A g : Jacobi!Inferred(g) = Body(g)
    BY TypesFromIs, Zenon DEF Jacobi!Inferred, Body, NodeTypes
  <1>2. \A g, t : Jacobi!Approximation(g, t) = Approx(current[g], ageMin[g], ageMax[g], t)
    BY Zenon DEF Jacobi!Approximation, Approx
  <1> QED
    BY <1>1, <1>2

LEMMA BodiesTyped ==
  ASSUME IInv
  PROVE  (\A n \in Nodes : NodeTypes[n] \in Types) /\ \A g \in Groups : Body(g) \in Types
  <1>1. program \in Programs /\ current \in [Groups -> Types]
    BY DEF IInv
  <1>2. \A n \in Nodes : NodeTypes[n] \in Types
    BY <1>1, TypesTyped DEF NodeTypes
  <1>3. \A g \in Groups : program.body[g] \in Nodes
    BY <1>1, ProgramsAssumption
  <1> QED
    BY <1>2, <1>3 DEF Body

(* What an iteration finds is what the approximations give, memo or not.       *)
LEMMA OutcomeIs ==
  ASSUME IInv
  PROVE  /\ \A n \in Nodes : Outcome.types[n] = NodeTypes[n]
         /\ \A g \in stale : /\ Outcome.merged[g] = Jacobi!Merge(current[g], Body(g))
                             /\ Outcome.next[g] = NextType(current[g], Body(g))
         /\ Outcome.memoised \subseteq {n \in Nodes : ~ IsSeed(n)}
  <1>1. PICK T : T = Jacobi!TypesFrom(env)
    OBVIOUS
  <1>2. \A n \in Nodes : T[n] = NodeTypes[n]
    <2>1. program \in Programs
      BY DEF IInv
    <2>2. T = TypesOf(program, current, env)
      BY <1>1, TypesFromIs
    <2>3. \A n \in DOMAIN env : env[n] = NodeTypes[n]
      BY TypesFromIs DEF IInv, MemoIsFresh, NodeTypes
    <2> QED
      BY <2>1, <2>2, <2>3, MemoIsSound DEF NodeTypes
  <1>3. Outcome =
          [types |-> T,
           merged |-> [g \in stale |-> Jacobi!Merge(current[g], T[program.body[g]])],
           next |-> [g \in stale |-> Jacobi!Approximation(g, T[program.body[g]])],
           memoised |-> DOMAIN env \cup UNION {Visited(g) : g \in stale}]
    BY <1>1, Zenon DEF Outcome
  <1>4. PICK merged, next, memoised :
          /\ merged = [g \in stale |-> Jacobi!Merge(current[g], T[program.body[g]])]
          /\ next = [g \in stale |-> Jacobi!Approximation(g, T[program.body[g]])]
          /\ memoised = DOMAIN env \cup UNION {Visited(g) : g \in stale}
    OBVIOUS
  <1>5. /\ Outcome.types = T /\ Outcome.merged = merged /\ Outcome.next = next /\ Outcome.memoised = memoised
    BY <1>3, <1>4
  <1>6. stale \subseteq Groups /\ program \in Programs /\ DOMAIN env \subseteq {n \in Nodes : ~ IsSeed(n)}
    BY DEF IInv
  <1>7. \A g \in stale : T[program.body[g]] = Body(g)
    BY <1>2, <1>6, ProgramsAssumption DEF Body
  <1>8. ASSUME NEW g \in stale
        PROVE  merged[g] = Jacobi!Merge(current[g], Body(g)) /\ next[g] = NextType(current[g], Body(g))
    <2>1. merged[g] = Jacobi!Merge(current[g], T[program.body[g]])
      BY <1>4
    <2>2. next[g] = Jacobi!Approximation(g, T[program.body[g]])
      BY <1>4
    <2>3. Aged(current[g], ageMin[g], ageMax[g]) /\ Body(g) \in Types
      BY <1>6, BodiesTyped DEF IInv
    <2>4. Approx(current[g], ageMin[g], ageMax[g], Body(g)) = NextType(current[g], Body(g))
      BY <2>3, ApproxIs
    <2> QED
      BY <1>7, <2>1, <2>2, <2>4, InferredIs
  <1>9. memoised \subseteq {n \in Nodes : ~ IsSeed(n)}
    BY <1>4, <1>6, VisitsNodes
  <1> QED
    BY <1>2, <1>5, <1>8, <1>9

(* A group that is skipped would stay as it is.                                *)
LEMMA SkippedStay ==
  ASSUME IInv, progress, NEW g \in Groups, g \notin stale
  PROVE  NextType(current[g], Body(g)) = current[g]
  <1>1. Aged(current[g], ageMin[g], ageMax[g]) /\ Body(g) \in Types
    BY BodiesTyped DEF IInv
  <1>2. Jacobi!Approximation(g, Jacobi!Inferred(g)) = current[g]
    BY DEF IInv, SkippedGroupsAreStable
  <1>3. Approx(current[g], ageMin[g], ageMax[g], Body(g)) = current[g]
    BY <1>2, InferredIs
  <1> QED
    BY <1>1, <1>3, ApproxIs

(* What a pass does to a group, and what it does with the memo.                *)
GroupMoves(g) ==
    /\ current'[g] = NextType(current[g], Body(g))
    /\ ageMin'[g] = AgeLo(current'[g])
    /\ ageMax'[g] = AgeHi(current'[g])

Differing == {g \in stale : current'[g] # current[g]}

MemoMoves ==
    IF progress'
    THEN /\ stale' = {g \in Groups : program.body[g] \in StaleNodes(Differing)}
         /\ DOMAIN env' \subseteq {n \in Nodes : ~ IsSeed(n)}
         /\ \A n \in DOMAIN env' : n \notin StaleNodes(Differing) /\ env'[n] = NodeTypes[n]
    ELSE env' = <<>> /\ stale' = {}

LEMMA PassMoves ==
  ASSUME IInv, Pass
  PROVE  /\ program' = program /\ stale # {} /\ progress
         /\ current' = [g \in Groups |-> current'[g]]
         /\ ageMin' = [g \in Groups |-> ageMin'[g]] /\ ageMax' = [g \in Groups |-> ageMax'[g]]
         /\ \A g \in Groups : GroupMoves(g)
         /\ \A g \in Groups \ stale : current'[g] = current[g]
         /\ progress' = \E g \in stale : ~ Jacobi!SameType(current'[g], current[g])
         /\ MemoMoves
  <1>1. PICK o : /\ o = Outcome
                 /\ current' = [g \in Groups |-> IF g \in Changed(o.next) THEN o.next[g] ELSE current[g]]
                 /\ ageMin' = [g \in Groups |-> IF g \in stale
                                 THEN Jacobi!AgedMin(ageMin[g], current[g], o.merged[g]) ELSE ageMin[g]]
                 /\ ageMax' = [g \in Groups |-> IF g \in stale
                                 THEN Jacobi!AgedMax(ageMax[g], current[g], o.merged[g]) ELSE ageMax[g]]
                 /\ progress' = \E g \in stale : ~ Jacobi!SameType(o.next[g], current[g])
                 /\ IF progress'
                    THEN /\ env' = [n \in o.memoised \ StaleNodes(Changed(o.next)) |-> o.types[n]]
                         /\ stale' = {g \in Groups : program.body[g] \in StaleNodes(Changed(o.next))}
                    ELSE env' = <<>> /\ stale' = {}
    BY Zenon DEF Pass
  <1>2. PICK types, merged, next, memoised :
          types = o.types /\ merged = o.merged /\ next = o.next /\ memoised = o.memoised
    OBVIOUS
  <1>3. /\ \A n \in Nodes : types[n] = NodeTypes[n]
        /\ \A g \in stale : /\ merged[g] = Jacobi!Merge(current[g], Body(g))
                            /\ next[g] = NextType(current[g], Body(g))
        /\ memoised \subseteq {n \in Nodes : ~ IsSeed(n)}
    BY <1>1, <1>2, OutcomeIs
  <1>4. program' = program /\ stale # {}
    BY DEF Pass
  <1>5. progress /\ stale \subseteq Groups /\ \A g \in Groups : Aged(current[g], ageMin[g], ageMax[g])
    BY <1>4 DEF IInv
  <1>6. \A g \in Groups : current'[g] = IF g \in stale THEN next[g] ELSE current[g]
    <2>1. \A g \in Groups : current'[g] = IF g \in Changed(next) THEN next[g] ELSE current[g]
      BY <1>1, <1>2
    <2> QED
      BY <2>1, Zenon DEF Changed
  <1>7. ASSUME NEW g \in Groups PROVE GroupMoves(g)
    <2>1. Aged(current[g], ageMin[g], ageMax[g]) /\ Body(g) \in Types
      BY <1>5, BodiesTyped
    <2>2. CASE g \in stale
      <3>1. current'[g] = NextType(current[g], Body(g))
        BY <1>3, <1>6, <2>2
      <3>2. /\ ageMin'[g] = Jacobi!AgedMin(ageMin[g], current[g], Jacobi!Merge(current[g], Body(g)))
            /\ ageMax'[g] = Jacobi!AgedMax(ageMax[g], current[g], Jacobi!Merge(current[g], Body(g)))
        BY <1>1, <1>2, <1>3, <2>2
      <3> QED
        BY <2>1, <3>1, <3>2, ApproxIs DEF GroupMoves
    <2>3. CASE g \notin stale
      <3>1. NextType(current[g], Body(g)) = current[g]
        BY <1>5, <2>3, SkippedStay
      <3>2. current'[g] = current[g]
        BY <1>6, <2>3
      <3>3. ageMin'[g] = ageMin[g] /\ ageMax'[g] = ageMax[g]
        BY <1>1, <2>3
      <3> QED
        BY <2>1, <3>1, <3>2, <3>3 DEF GroupMoves, Aged
    <2> QED
      BY <2>2, <2>3
  <1>8. Changed(next) = Differing
    BY <1>5, <1>6, Zenon DEF Changed, Differing
  <1>9. progress' = \E g \in stale : ~ Jacobi!SameType(current'[g], current[g])
    <2>1. \A g \in stale : current'[g] = next[g]
      BY <1>5, <1>6
    <2>2. progress' = \E g \in stale : ~ Jacobi!SameType(next[g], current[g])
      BY <1>1, <1>2
    <2> QED
      BY <2>1, <2>2, Zenon DEF Jacobi!SameType
  <1>10. MemoMoves
    <2>1. CASE progress'
      <3>1. /\ env' = [n \in memoised \ StaleNodes(Differing) |-> types[n]]
            /\ stale' = {g \in Groups : program.body[g] \in StaleNodes(Differing)}
        BY <1>1, <1>2, <1>8, <2>1
      <3>2. \A n \in memoised : n \in Nodes
        BY <1>3
      <3>3. DOMAIN env' = memoised \ StaleNodes(Differing)
        BY <3>1
      <3>4. \A n \in DOMAIN env' : n \notin StaleNodes(Differing) /\ env'[n] = NodeTypes[n]
        BY <1>3, <3>1, <3>2, <3>3
      <3>5. DOMAIN env' \subseteq {n \in Nodes : ~ IsSeed(n)}
        BY <1>3, <3>3
      <3> QED
        BY <2>1, <3>1, <3>4, <3>5 DEF MemoMoves
    <2>2. CASE ~ progress'
      BY <1>1, <2>2 DEF MemoMoves
    <2> QED
      BY <2>1, <2>2
  <1>11. /\ current' = [g \in Groups |-> current'[g]]
         /\ ageMin' = [g \in Groups |-> ageMin'[g]] /\ ageMax' = [g \in Groups |-> ageMax'[g]]
    BY <1>1
  <1>12. \A g \in Groups \ stale : current'[g] = current[g]
    BY <1>6
  <1> QED
    BY <1>4, <1>5, <1>7, <1>9, <1>10, <1>11, <1>12

-----------------------------------------------------------------------------
LEMMA InitIInv == Init => IInv
  <1> SUFFICES ASSUME Init PROVE IInv
    OBVIOUS
  <1>1. /\ program \in Programs /\ current = [g \in Groups |-> Jacobi!Initial]
        /\ ageMin = [g \in Groups |-> 0] /\ ageMax = [g \in Groups |-> 0]
        /\ progress = TRUE /\ env = <<>> /\ stale = Groups
    BY DEF Init, Jacobi!Init
  <1>2. Jacobi!Initial = [lo |-> Zero, hi |-> Zero, lsb |-> 0, quals |-> {}]
    BY DEF Jacobi!Initial, Jacobi!Type, Jacobi!Interval
  <1>3. Jacobi!Initial \in Types /\ Jacobi!Initial.quals = {}
    BY <1>2, BoundsAssumption DEF Types
  <1>4. Aged(Jacobi!Initial, 0, 0)
    BY <1>2, <1>3 DEF Aged, AgeLo, AgeHi
  <1>5. /\ current \in [Groups -> Types]
        /\ \A g \in Groups : Aged(current[g], ageMin[g], ageMax[g])
        /\ \A g \in Groups : current[g].quals = {}
    BY <1>1, <1>3, <1>4
  <1>6. DOMAIN env = {}
    BY <1>1
  <1> QED
    BY <1>1, <1>5, <1>6 DEF IInv, MemoIsFresh, SkippedGroupsAreStable, QualifiersAreInferred

(* Groups keep their ages, and rise.                                           *)
LEMMA GroupsRise ==
  ASSUME IInv, Pass
  PROVE  /\ current' \in [Groups -> Types]
         /\ \A g \in Groups : Aged(current'[g], ageMin'[g], ageMax'[g])
         /\ \A g \in Groups : current'[g].quals = Body(g).quals
         /\ \A g \in Groups : current[g].quals \subseteq current'[g].quals
  <1>1. (\A g \in Groups : GroupMoves(g)) /\ current' = [g \in Groups |-> current'[g]]
    BY PassMoves
  <1>2. ASSUME NEW g \in Groups
        PROVE  /\ Aged(current'[g], ageMin'[g], ageMax'[g])
               /\ current'[g].quals = Body(g).quals
               /\ current[g].quals \subseteq current'[g].quals
    <2>1. Aged(current[g], ageMin[g], ageMax[g]) /\ Body(g) \in Types
      BY BodiesTyped DEF IInv
    <2>2. Aged(NextType(current[g], Body(g)), AgeLo(NextType(current[g], Body(g))),
               AgeHi(NextType(current[g], Body(g))))
      BY <2>1, AgedStays
    <2>3. Aged(current'[g], ageMin'[g], ageMax'[g])
      BY <1>1, <2>2, Zenon DEF GroupMoves
    <2>4. current'[g].quals = Body(g).quals \cup (current[g].quals \cap {"exec"})
      BY <1>1 DEF GroupMoves, NextType
    <2>5. current[g].quals \subseteq Body(g).quals
      BY DEF IInv, QualifiersAreInferred
    <2>6. current'[g].quals = Body(g).quals
      BY <2>4, <2>5
    <2> QED
      BY <2>3, <2>5, <2>6
  <1>3. \A g \in Groups : current'[g] \in Types
    BY <1>2 DEF Aged
  <1> QED
    BY <1>1, <1>2, <1>3

(* A node out of what climbing reached has the type it had.                    *)
LEMMA OthersStay ==
  ASSUME IInv, Pass
  PROVE  \A n \in Nodes : ~ IsSeed(n) /\ n \notin StaleNodes(Differing) => NodeTypes'[n] = NodeTypes[n]
  <1>1. program \in Programs /\ program' = program
    BY PassMoves DEF IInv
  <1>2. \A g \in Groups \ Differing : current'[g] = current[g]
    BY PassMoves DEF Differing
  <1>3. PICK new, D, U : new = current' /\ D = Differing /\ U = TypesOf(program, new, <<>>)
    OBVIOUS
  <1>4. \A n \in Nodes : n \notin StaleNodes(D) /\ n \notin Seeds(D) => U[n] = NodeTypes[n]
    BY <1>1, <1>2, <1>3, ClimbingIsEnough DEF NodeTypes
  <1>5. NodeTypes' = U
    BY <1>1, <1>3 DEF NodeTypes
  <1> QED
    BY <1>3, <1>4, <1>5 DEF Seeds

LEMMA MemoStays ==
  ASSUME IInv, Pass
  PROVE  /\ (DOMAIN env \subseteq {n \in Nodes : ~ IsSeed(n)})'
         /\ MemoIsFresh' /\ (stale \subseteq Groups)' /\ (stale # {} => progress)'
  <1>1. program' = program /\ MemoMoves
    BY PassMoves
  <1>2. \A n : IsSeed(n)' <=> IsSeed(n)
    BY <1>1 DEF IsSeed
  <1>3. (Jacobi!TypesFrom(<<>>))' = NodeTypes'
    BY TypesFromIs DEF NodeTypes
  <1>4. CASE progress'
    <2>1. /\ stale' = {g \in Groups : program.body[g] \in StaleNodes(Differing)}
          /\ DOMAIN env' \subseteq {n \in Nodes : ~ IsSeed(n)}
          /\ \A n \in DOMAIN env' : n \notin StaleNodes(Differing) /\ env'[n] = NodeTypes[n]
      BY <1>1, <1>4 DEF MemoMoves
    <2>2. \A n \in DOMAIN env' : env'[n] = NodeTypes'[n]
      BY <2>1, OthersStay
    <2>3. MemoIsFresh'
      BY <1>3, <2>2, Zenon DEF MemoIsFresh
    <2> QED
      BY <1>2, <1>4, <2>1, <2>3
  <1>5. CASE ~ progress'
    <2>1. env' = <<>> /\ stale' = {}
      BY <1>1, <1>5 DEF MemoMoves
    <2>2. DOMAIN env' = {}
      BY <2>1
    <2> QED
      BY <2>1, <2>2 DEF MemoIsFresh
  <1> QED
    BY <1>4, <1>5

LEMMA SkippedStayStable ==
  ASSUME IInv, Pass
  PROVE  SkippedGroupsAreStable'
  <1> SUFFICES ASSUME progress', NEW g \in Groups, g \notin stale'
               PROVE  (Jacobi!Approximation(g, Jacobi!Inferred(g)) = current[g])'
    BY DEF SkippedGroupsAreStable
  <1>1. program' = program /\ program \in Programs /\ stale' = {h \in Groups : program.body[h] \in StaleNodes(Differing)}
    BY PassMoves DEF MemoMoves, IInv
  <1>2. program.body[g] \in Nodes /\ ~ IsSeed(program.body[g])
    BY <1>1, ProgramsAssumption DEF IsSeed, Approximated
  <1>3. NodeTypes'[program.body[g]] = NodeTypes[program.body[g]]
    BY <1>1, <1>2, OthersStay
  <1>4. Body(g)' = Body(g)
    BY <1>1, <1>3 DEF Body
  <1>5. Aged(current[g], ageMin[g], ageMax[g]) /\ Body(g) \in Types
    BY BodiesTyped DEF IInv
  <1>6. Aged(current'[g], ageMin'[g], ageMax'[g])
    BY GroupsRise
  <1>7. current'[g] = NextType(current[g], Body(g))
    BY PassMoves DEF GroupMoves
  <1>8. NextType(current'[g], Body(g)) = current'[g]
    BY <1>5, <1>7, JoinedOnce
  <1>9. Approx(current'[g], ageMin'[g], ageMax'[g], Body(g)) = current'[g]
    BY <1>5, <1>6, <1>8, ApproxIs
  <1>10. (Jacobi!Inferred(g))' = Body(g)
    <2>1. (Jacobi!TypesFrom(<<>>))' = NodeTypes'
      BY TypesFromIs DEF NodeTypes
    <2>2. (Jacobi!Inferred(g))' = NodeTypes'[program'.body[g]]
      BY <2>1, Zenon DEF Jacobi!Inferred
    <2> QED
      BY <1>4, <2>2 DEF Body
  <1>11. (Jacobi!Approximation(g, Jacobi!Inferred(g)))' = Approx(current'[g], ageMin'[g], ageMax'[g], Body(g))
    BY <1>10, Zenon DEF Jacobi!Approximation, Approx
  <1> QED
    BY <1>9, <1>11

LEMMA QualifiersStay ==
  ASSUME IInv, Pass
  PROVE  QualifiersAreInferred'
  <1>1. program' = program /\ program \in Programs /\ current \in [Groups -> Types]
    BY PassMoves DEF IInv
  <1>2. PICK new, U : new = current' /\ U = TypesOf(program, new, <<>>)
    OBVIOUS
  <1>3. new \in [Groups -> Types] /\ \A g \in Groups : current[g].quals \subseteq new[g].quals
    BY <1>2, GroupsRise
  <1>4. \A n \in Nodes : NodeTypes[n].quals \subseteq U[n].quals
    BY <1>1, <1>2, <1>3, QualifiersRise DEF NodeTypes
  <1>5. NodeTypes' = U
    BY <1>1, <1>2 DEF NodeTypes
  <1>6. ASSUME NEW g \in Groups PROVE current'[g].quals \subseteq Body(g)'.quals
    <2>1. current'[g].quals = Body(g).quals
      BY GroupsRise
    <2>2. program.body[g] \in Nodes
      BY <1>1, ProgramsAssumption
    <2> QED
      BY <1>1, <1>4, <1>5, <2>1, <2>2 DEF Body
  <1> QED
    BY <1>6 DEF QualifiersAreInferred

LEMMA NextIInv == IInv /\ [Pass]_vars => IInv'
  <1> SUFFICES ASSUME IInv, [Pass]_vars PROVE IInv'
    OBVIOUS
  <1>1. CASE Pass
    <2>1. program' = program /\ (progress' \in BOOLEAN)
      BY <1>1, PassMoves
    <2> QED
      BY <1>1, <2>1, GroupsRise, MemoStays, SkippedStayStable, QualifiersStay DEF IInv
  <1>2. CASE UNCHANGED vars
    <2>1. UNCHANGED <<program, current, ageMin, ageMax, progress, env, stale>>
      BY <1>2 DEF vars
    <2>2. (Jacobi!TypesFrom(<<>>))' = Jacobi!TypesFrom(<<>>)
      BY <2>1, TypesFromIs
    <2>3. MemoIsFresh'
      BY <2>1, <2>2 DEF IInv, MemoIsFresh
    <2>4. \A g : Body(g)' = Body(g)
      BY <2>1 DEF Body, NodeTypes
    <2>5. SkippedGroupsAreStable'
      <3>1. ASSUME NEW g
            PROVE  (Jacobi!Approximation(g, Jacobi!Inferred(g)))' = Jacobi!Approximation(g, Jacobi!Inferred(g))
        BY <2>1, <2>2, Zenon DEF Jacobi!Approximation, Jacobi!Inferred
      <3> QED
        BY <2>1, <3>1, Zenon DEF IInv, SkippedGroupsAreStable
    <2>6. QualifiersAreInferred'
      BY <2>1, <2>4 DEF IInv, QualifiersAreInferred
    <2> QED
      BY <2>1, <2>3, <2>5, <2>6 DEF IInv, IsSeed
  <1> QED
    BY <1>1, <1>2

LEMMA Invariance == Spec => []IInv
  BY InitIInv, NextIInv, PTL DEF Spec

-----------------------------------------------------------------------------
(* The incremental solver makes the passes of the full iteration: every field  *)
(* of every approximation and every age is what inferring every group again    *)
(* would give.  This is what the skipped groups and the memoised types rest on.*)
THEOREM IsTheFullIterationHolds == Spec => IsTheFullIteration
  <1>1. Init => Jacobi!Init
    BY DEF Init
  <1>2. IInv /\ [Pass]_vars => [Jacobi!Pass]_Jacobi!vars
    <2> SUFFICES ASSUME IInv, [Pass]_vars PROVE [Jacobi!Pass]_Jacobi!vars
      OBVIOUS
    <2>1. CASE Pass
      <3>1. /\ program' = program /\ progress
            /\ current' = [g \in Groups |-> current'[g]]
            /\ ageMin' = [g \in Groups |-> ageMin'[g]] /\ ageMax' = [g \in Groups |-> ageMax'[g]]
            /\ \A g \in Groups : GroupMoves(g)
            /\ \A g \in Groups \ stale : current'[g] = current[g]
            /\ progress' = \E g \in stale : ~ Jacobi!SameType(current'[g], current[g])
        BY <2>1, PassMoves
      <3>2. ASSUME NEW g \in Groups
            PROVE  /\ current'[g] = Jacobi!Approximation(g, Jacobi!Inferred(g))
                   /\ ageMin'[g] = Jacobi!AgedMin(ageMin[g], current[g], Jacobi!Merge(current[g], Jacobi!Inferred(g)))
                   /\ ageMax'[g] = Jacobi!AgedMax(ageMax[g], current[g], Jacobi!Merge(current[g], Jacobi!Inferred(g)))
        <4>1. Aged(current[g], ageMin[g], ageMax[g]) /\ Body(g) \in Types
          BY BodiesTyped DEF IInv
        <4>2. GroupMoves(g)
          BY <3>1
        <4>3. Jacobi!Inferred(g) = Body(g)
          BY InferredIs
        <4>4. Jacobi!Approximation(g, Body(g)) = Approx(current[g], ageMin[g], ageMax[g], Body(g))
          BY InferredIs
        <4> QED
          BY <4>1, <4>2, <4>3, <4>4, ApproxIs DEF GroupMoves
      <3>3. /\ current' = [g \in Groups |-> Jacobi!Approximation(g, Jacobi!Inferred(g))]
            /\ ageMin' = [g \in Groups |->
                  Jacobi!AgedMin(ageMin[g], current[g], Jacobi!Merge(current[g], Jacobi!Inferred(g)))]
            /\ ageMax' = [g \in Groups |->
                  Jacobi!AgedMax(ageMax[g], current[g], Jacobi!Merge(current[g], Jacobi!Inferred(g)))]
        BY <3>1, <3>2
      <3>4. progress' = \E g \in Groups : ~ Jacobi!SameType(current'[g], current[g])
        <4>1. \A g \in Groups \ stale : Jacobi!SameType(current'[g], current[g])
          BY <3>1, Zenon DEF Jacobi!SameType
        <4>2. stale \subseteq Groups
          BY DEF IInv
        <4>3. (\E g \in stale : ~ Jacobi!SameType(current'[g], current[g])) <=>
                 \E g \in Groups : ~ Jacobi!SameType(current'[g], current[g])
          BY <4>1, <4>2
        <4> QED
          BY <3>1, <4>3
      <3> QED
        BY <3>1, <3>3, <3>4 DEF Jacobi!Pass
    <2>2. CASE UNCHANGED vars
      BY <2>2 DEF vars, Jacobi!vars
    <2> QED
      BY <2>1, <2>2
  <1> QED
    BY <1>1, <1>2, Invariance, PTL DEF Spec, IsTheFullIteration, Jacobi!Spec

(* The solver stops, whatever the rules of the operations: no pass takes back  *)
(* a bound or a qualifier, one that is followed by another moves a bound or    *)
(* adds a qualifier, and the last one changes none and leaves approximations   *)
(* that hold what the bodies computed, up to the greatest numbers.             *)
THEOREM PassesWidenHolds == Spec => PassesWiden
  <1> DEFINE Holds(g) == /\ Jacobi!SameType(current[g], current'[g])
                         /\ Within(Jacobi!Inferred(g), current'[g])
             Widens == /\ \A g \in Groups : Rises(current[g], current'[g])
                       /\ progress' => \E g \in Groups : ~ Rises(current'[g], current[g])
                       /\ ~ progress' => \A g \in Groups : Holds(g)
  <1>1. ASSUME IInv, Pass PROVE Widens
    <2>1. stale \subseteq Groups
      BY <1>1 DEF IInv
    <2>2. ASSUME NEW g \in Groups
          PROVE  Rises(current[g], current'[g]) /\ Within(Jacobi!Inferred(g), current'[g])
      <3>1. Aged(current[g], ageMin[g], ageMax[g]) /\ Body(g) \in Types
        BY <1>1, BodiesTyped DEF IInv
      <3>2. current'[g] = NextType(current[g], Body(g))
        BY <1>1, PassMoves DEF GroupMoves
      <3>3. current'[g].quals = Body(g).quals /\ current[g].quals \subseteq current'[g].quals
        BY <1>1, GroupsRise
      <3>4. Jacobi!Inferred(g) = Body(g)
        BY InferredIs
      <3> QED
        BY <3>1, <3>2, <3>3, <3>4, NextHolds DEF Rises, Within
    <2>3. ASSUME progress' PROVE \E g \in Groups : ~ Rises(current'[g], current[g])
      <3>1. PICK g \in stale : ~ Jacobi!SameType(current'[g], current[g])
        BY <1>1, <2>3, PassMoves
      <3>2. g \in Groups /\ current[g] \in Types /\ current'[g] \in Types
        BY <1>1, <2>1, GroupsRise DEF IInv
      <3>3. PICK c, d : c = current[g] /\ d = current'[g]
        OBVIOUS
      <3>4. /\ c.lo \in Int /\ c.hi \in Int /\ d.lo \in Int /\ d.hi \in Int
            /\ c.lo # d.lo \/ c.hi # d.hi \/ c.quals # d.quals
        <4>1. ~ (d.lo = c.lo /\ d.hi = c.hi /\ d.quals = c.quals)
          BY <3>1, <3>3 DEF Jacobi!SameType
        <4> QED
          BY <3>2, <3>3, <4>1, BoundsAssumption DEF Types
      <3>5. d.lo <= c.lo /\ c.hi <= d.hi /\ c.quals \subseteq d.quals
        BY <2>2, <3>2, <3>3 DEF Rises
      <3>6. ~ (c.lo <= d.lo /\ d.hi <= c.hi /\ d.quals \subseteq c.quals)
        BY <3>4, <3>5
      <3> QED
        BY <3>2, <3>3, <3>6 DEF Rises
    <2>4. ASSUME ~ progress', NEW g \in Groups PROVE Jacobi!SameType(current[g], current'[g])
      <3>1. CASE g \in stale
        <4>1. Jacobi!SameType(current'[g], current[g])
          BY <1>1, <2>4, <3>1, PassMoves
        <4> QED
          BY <4>1, Zenon DEF Jacobi!SameType
      <3>2. CASE g \notin stale
        <4>1. current'[g] = current[g]
          BY <1>1, <3>2, PassMoves
        <4> QED
          BY <4>1, Zenon DEF Jacobi!SameType
      <3> QED
        BY <3>1, <3>2
    <2> QED
      BY <2>2, <2>3, <2>4
  <1>2. IInv /\ [Pass]_vars => [Widens]_vars
    BY <1>1
  <1> QED
    BY <1>2, Invariance, PTL DEF Spec, PassesWiden

(* What is memoised is what inference would give, the groups that are skipped  *)
(* would not move, and no bound moves twice, whatever the rules.               *)
THEOREM TypesAreSolvedHolds == Spec => []TypesAreSolved
  <1>1. IInv => TypeOK
    BY DEF IInv, TypeOK
  <1>2. IInv => BoundsMoveOnce
    BY DEF IInv, Aged, BoundsMoveOnce, Jacobi!Upper
  <1>3. IInv => MemoIsFresh /\ SkippedGroupsAreStable
    BY DEF IInv
  <1> QED
    BY <1>1, <1>2, <1>3, Invariance, PTL DEF TypesAreSolved

-----------------------------------------------------------------------------
(***************************************************************************)
(* The import expander.  What it keeps, while it runs: the stack is a path *)
(* of lists, each inside the definition the one below has come to; every   *)
(* list has treated what it has passed; the lists of one scope give        *)
(* different sources, and together each that their scope holds; a source   *)
(* that is used and no longer active has had all its imports used; and the *)
(* edges are the imports between the active sources.                       *)
(***************************************************************************)
(* The scope of frame i, and the list it expands.                              *)
Index(i) == 1 + (i - Imports!Level(i))
ScopeOf(i) == scopes[Index(i)]
ListOf(i) == IF stack[i].kind = "local" THEN Head(stack[i - 1].rest).defs
             ELSE world.content[stack[i].file]

(* What a frame gives to its scope: its output, and the source itself, whose   *)
(* definitions it has given or will give.                                      *)
Emits(f) == Imports!ToSet(f.out) \cup IF f.kind = "local" THEN {} ELSE {f.file}

(* No locator redirects; no cycle is reached from s.                           *)
Direct == \A l \in Imports!Sources : Imports!Final(l) = l
Acyclic(s) == \A f \in Imports!Closure({s}, Imports!AllImports) : ~ Imports!OnCycle(f)

(* A definition that has been passed: what it imports is in the scope or, if   *)
(* it opens an environment, used; and it leads to no cycle.                    *)
Treated(d, scope, seen) ==
    /\ d.kind = "import" =>
          /\ d.to \in Imports!Sources /\ Imports!Final(d.to) \in scope
          /\ Direct => Acyclic(Imports!Final(d.to))
    /\ d.kind = "local" =>
          /\ Imports!Imported(d.defs) \subseteq seen
          /\ Direct => \A s \in Imports!Imported(d.defs) : Acyclic(s)

Start(f, list) == IF f.kind = "local" THEN Imports!Imported(list) ELSE {f.file}

(* A frame that expands a list: the rest is what it has not treated, the       *)
(* output is without repetition and made of what the list reaches.             *)
Expands(f, list, scope, seen) ==
    /\ Imports!ToSet(f.rest) \subseteq Imports!ToSet(list)
    /\ \A d \in Imports!ToSet(list) : d \in Imports!ToSet(f.rest) \/ Treated(d, scope, seen)
    /\ \A i, j \in DOMAIN f.rest : f.rest[i] = Imports!Own /\ f.rest[j] = Imports!Own => i = j
    /\ Imports!IsInjective(f.out)
    /\ f.kind # "local" => (Imports!Own \in Imports!ToSet(f.rest) <=> f.file \notin Imports!ToSet(f.out))
    /\ \A s \in Emits(f) : s \in scope \/ (s = Imports!Entry /\ f.kind = "entry")
    /\ Emits(f) \subseteq Imports!Closure(Start(f, list), Imports!TopImports)

Frames == [file : Imports!Sources, kind : {"entry", "import", "local"},
           rest : Seq(Imports!Definitions(Imports!Sources)), out : Seq(Imports!Sources)]

(* Each frame expands what the one below has come to, where it is in the       *)
(* stack, and how the levels and the scopes grow along it.                     *)
Below(i) ==
    LET h == Head(stack[i - 1].rest) IN
    /\ stack[i - 1].rest # <<>>
    /\ stack[i].kind = "local" =>
          h.kind = "local" /\ stack[i - 1].kind # "local" /\ stack[i].file = stack[i - 1].file
    /\ stack[i].kind = "import" =>
          h.kind = "import" /\ h.to \in Imports!Sources /\ Imports!Final(h.to) = stack[i].file

FrameAt(i) ==
    /\ stack[i].kind = "entry" <=> i = 1
    /\ Imports!Final(stack[i].file) = stack[i].file
    /\ Imports!Level(i) \in 1 .. i
    /\ i + (IF stack[i].kind = "local" THEN 0 ELSE 1) <= 2 * Imports!Level(i)

Ordered(i, j) == i < j => Imports!Level(i) <= Imports!Level(j) /\ Index(i) <= Index(j)

StackInv ==
    /\ stack \in Seq(Frames) /\ stack # <<>> /\ stack[1].file = Imports!Entry
    /\ \A i \in 1 .. Len(stack) : FrameAt(i)
    /\ \A i \in 2 .. Len(stack) : Below(i)
    /\ \A i, j \in 1 .. Len(stack) : Ordered(i, j)

(* Every frame expands its list; no two give one source to one scope.          *)
FramesInv ==
    \A i \in 1 .. Len(stack) : Expands(stack[i], ListOf(i), ScopeOf(i), Imports!ToSet(used))

DisjointInv ==
    \A i, j \in 1 .. Len(stack) :
        i # j /\ Index(i) = Index(j) => Emits(stack[i]) \cap Emits(stack[j]) = {}

(* A source of a scope is given by one of its frames, and its own imports are  *)
(* in the scope unless its list is still being expanded.                       *)
Covered(k, s) == \E i \in 1 .. Len(stack) : Index(i) = k /\ s \in Emits(stack[i])
Pending(k, s) ==
    \E i \in 1 .. Len(stack) : Index(i) = k /\ stack[i].kind # "local" /\ stack[i].file = s

ScopesInv ==
    /\ scopes \in Seq(SUBSET Imports!Sources) /\ Len(scopes) = Index(Len(stack))
    /\ \A k \in 1 .. Len(scopes) :
          /\ Imports!Entry \notin scopes[k]
          /\ \A l \in scopes[k] : Imports!Final(l) \in scopes[k] /\ Imports!Final(l) \in Imports!ToSet(used)
          /\ \A s \in scopes[k] : Imports!Final(s) = s =>
                /\ Covered(k, s)
                /\ Pending(k, s) \/ Imports!TopImports[s] \subseteq scopes[k]

(* The used sources are reached, and those that are no longer active have had  *)
(* their imports used, without meeting a cycle.                                *)
UsedInv ==
    /\ used \in Seq(Imports!Sources) /\ Imports!IsInjective(used) /\ Imports!ToSet(used) \subseteq Imports!Reachable
    /\ Imports!ToSet(active) \subseteq Imports!ToSet(used)
    /\ \A s \in Imports!ToSet(used) :
          /\ Imports!Final(s) = s
          /\ s \in Imports!ToSet(active) \/ (Imports!AllImports[s] \subseteq Imports!ToSet(used) /\ (Direct => Acyclic(s)))

(* The active sources are those of the frames, without repetition, and the     *)
(* edges are the imports between them.                                         *)
ActiveInv ==
    /\ active \in Seq(Imports!Sources) /\ Imports!IsInjective(active)
    /\ Len(active) = Imports!Level(Len(stack))
    /\ \A i \in 1 .. Len(stack) : active[Imports!Level(i)] = stack[i].file
    /\ edges \in Seq(Imports!Sources \X Imports!Sources) /\ Len(edges) + 1 = Len(active)
    /\ \A i \in 1 .. Len(edges) :
          edges[i] = <<active[i], active[i + 1]>> /\ active[i + 1] \in Imports!AllImports[active[i]]

(* The reader's cache answers for what was fetched and for the open sources.   *)
CacheInv ==
    /\ cached \subseteq Urls /\ \A l \in cached : l \in Imports!Sources /\ Imports!Final(l) \in cached
    /\ \A i \in 1 .. Len(stack) : stack[i].file \in Urls => stack[i].file \in cached
    /\ \A i \in 1 .. Len(fetched) : fetched[i] \in cached

(* The environments that are closed.                                           *)
EnvironmentsInv ==
    \A e \in environments :
        Imports!IsExpansion(e.out, Imports!Closure(Imports!Imported(e.defs), Imports!TopImports))

Expanding ==
    /\ StackInv /\ FramesInv /\ DisjointInv /\ ScopesInv /\ UsedInv /\ ActiveInv /\ CacheInv

ImportsInv ==
    /\ world \in Worlds
    /\ fetched \in Seq(Urls)
    /\ result.kind = "running" => Expanding
    /\ EnvironmentsInv
    /\ Imports!TypeOK /\ Imports!EachSourceOnce /\ Imports!UsedSourcesAreReached
    /\ Imports!ReportedCycleIsOne /\ Imports!CyclesAreRefused /\ Imports!FetchedOnce

-----------------------------------------------------------------------------
(* Sequences.                                                                  *)
LEMMA FrontIs ==
  ASSUME NEW S, NEW s \in Seq(S), s # <<>>
  PROVE  /\ Len(s) \in Nat \ {0} /\ Imports!Front(s) \in Seq(S) /\ Len(Imports!Front(s)) = Len(s) - 1
         /\ \A i \in 1 .. Len(s) - 1 : Imports!Front(s)[i] = s[i]
         /\ Imports!Last(s) = s[Len(s)] /\ s[Len(s)] \in S
  <1>1. PICK n \in Nat : n = Len(s) - 1 /\ n + 1 = Len(s) /\ Len(s) \in Nat \ {0} /\ s[Len(s)] \in S
                         /\ \A i \in 1 .. n : s[i] \in S
    OBVIOUS
  <1>2. PICK f : f = [i \in 1 .. n |-> s[i]]
    OBVIOUS
  <1>3. f \in Seq(S) /\ Len(f) = n /\ \A i \in 1 .. n : f[i] = s[i]
    BY <1>1, <1>2
  <1>4. f = Imports!Front(s)
    BY <1>1, <1>2 DEF Imports!Front
  <1>5. Imports!Last(s) = s[Len(s)]
    BY DEF Imports!Last
  <1> QED
    BY <1>1, <1>3, <1>4, <1>5

(* The last element replaced, the last two replaced by one, and one added.     *)
Replaces(S, s, e, r) ==
    /\ r \in Seq(S) /\ r # <<>> /\ Len(r) = Len(s) /\ r[Len(s)] = e
    /\ \A i \in 1 .. Len(s) - 1 : r[i] = s[i]

Merges(S, s, e, r) ==
    /\ r \in Seq(S) /\ r # <<>> /\ Len(r) = Len(s) - 1 /\ r[Len(s) - 1] = e
    /\ \A i \in 1 .. Len(s) - 2 : r[i] = s[i]

Adds(S, s, e, r) ==
    /\ r \in Seq(S) /\ r # <<>> /\ Len(r) = Len(s) + 1 /\ r[Len(s) + 1] = e
    /\ \A i \in 1 .. Len(s) : r[i] = s[i]

LEMMA ReplacedTop ==
  ASSUME NEW S, NEW s \in Seq(S), s # <<>>, NEW e \in S
  PROVE  Replaces(S, s, e, Append(Imports!Front(s), e))
  <1>1. PICK f \in Seq(S) : f = Imports!Front(s)
    BY FrontIs
  <1>2. Len(f) = Len(s) - 1 /\ Len(s) \in Nat \ {0} /\ \A i \in 1 .. Len(s) - 1 : f[i] = s[i]
    BY <1>1, FrontIs
  <1>3. PICK r : r = Append(f, e)
    OBVIOUS
  <1>4. /\ r \in Seq(S) /\ r # <<>> /\ Len(r) = Len(f) + 1 /\ r[Len(f) + 1] = e
        /\ \A i \in 1 .. Len(f) : r[i] = f[i]
    BY <1>3
  <1> QED
    BY <1>1, <1>2, <1>3, <1>4 DEF Replaces

LEMMA ReplacedBelow ==
  ASSUME NEW S, NEW s \in Seq(S), Len(s) >= 2, NEW e \in S
  PROVE  Merges(S, s, e, Append(Imports!Front(Imports!Front(s)), e))
  <1>1. PICK f \in Seq(S) : f = Imports!Front(s)
    BY FrontIs
  <1>2. /\ Len(s) \in Nat /\ f # <<>> /\ Len(f) = Len(s) - 1
        /\ \A i \in 1 .. Len(s) - 1 : f[i] = s[i]
    BY <1>1, FrontIs
  <1>3. PICK r : r = Append(Imports!Front(f), e)
    OBVIOUS
  <1>4. Replaces(S, f, e, r)
    BY <1>2, <1>3, ReplacedTop
  <1> QED
    BY <1>1, <1>2, <1>3, <1>4 DEF Replaces, Merges

LEMMA PushedTop ==
  ASSUME NEW S, NEW s \in Seq(S), NEW e \in S
  PROVE  Adds(S, s, e, Append(s, e))
  BY DEF Adds

LEMMA ElementsOf ==
  ASSUME NEW S, NEW s \in Seq(S)
  PROVE  /\ Imports!ToSet(s) = {s[i] : i \in 1 .. Len(s)} /\ Imports!ToSet(s) \subseteq S
         /\ \A i \in 1 .. Len(s) : s[i] \in Imports!ToSet(s)
         /\ \A x \in Imports!ToSet(s) : \E i \in 1 .. Len(s) : x = s[i]
  BY DEF Imports!ToSet

LEMMA HeadIs ==
  ASSUME NEW S, NEW s \in Seq(S), s # <<>>
  PROVE  /\ Head(s) \in S /\ Head(s) \in Imports!ToSet(s) /\ Tail(s) \in Seq(S)
         /\ Imports!ToSet(Tail(s)) \subseteq Imports!ToSet(s)
         /\ Imports!ToSet(s) \subseteq {Head(s)} \cup Imports!ToSet(Tail(s))
         /\ Head(s) = s[1] /\ Len(Tail(s)) = Len(s) - 1 /\ Len(s) \in Nat \ {0}
         /\ \A i \in 1 .. Len(s) - 1 : Tail(s)[i] = s[i + 1]
  <1>1. /\ Head(s) = s[1] /\ s[1] \in S /\ Tail(s) \in Seq(S) /\ Len(Tail(s)) = Len(s) - 1
        /\ Len(s) \in Nat \ {0} /\ 1 \in 1 .. Len(s)
        /\ \A i \in 1 .. Len(s) - 1 : Tail(s)[i] = s[i + 1] /\ i + 1 \in 1 .. Len(s)
    OBVIOUS
  <1>2. PICK t \in Seq(S) : t = Tail(s)
    BY <1>1
  <1>3. ASSUME NEW x \in Imports!ToSet(t) PROVE x \in Imports!ToSet(s)
    <2>1. PICK i \in 1 .. Len(t) : x = t[i]
      BY ElementsOf
    <2>2. i + 1 \in 1 .. Len(s) /\ x = s[i + 1]
      BY <1>1, <1>2, <2>1
    <2> QED
      BY <2>2, ElementsOf
  <1>4. ASSUME NEW x \in Imports!ToSet(s) PROVE x = s[1] \/ x \in Imports!ToSet(t)
    <2>1. PICK i \in 1 .. Len(s) : x = s[i]
      BY ElementsOf
    <2>2. CASE i # 1
      <3>1. i - 1 \in 1 .. Len(t) /\ t[i - 1] = x
        BY <1>1, <1>2, <2>1, <2>2
      <3> QED
        BY <1>2, <3>1, ElementsOf
    <2> QED
      BY <2>1, <2>2
  <1> QED
    BY <1>1, <1>2, <1>3, <1>4, ElementsOf

LEMMA InjectiveIs ==
  ASSUME NEW S, NEW s \in Seq(S)
  PROVE  Imports!IsInjective(s) <=> \A i, j \in 1 .. Len(s) : s[i] = s[j] => i = j
  <1>1. DOMAIN s = 1 .. Len(s)
    OBVIOUS
  <1> QED
    BY ONLY <1>1 DEF Imports!IsInjective

LEMMA EmptyHasNone == Imports!ToSet(<<>>) = {}
  BY DEF Imports!ToSet

LEMMA AppendHas ==
  ASSUME NEW S, NEW s \in Seq(S), NEW e \in S
  PROVE  Imports!ToSet(Append(s, e)) = Imports!ToSet(s) \cup {e}
  <1>0. Append(s, e) \in Seq(S)
    OBVIOUS
  <1>1. PICK r \in Seq(S) : r = Append(s, e)
    BY <1>0
  <1>2. /\ Len(r) = Len(s) + 1 /\ r[Len(s) + 1] = e /\ Len(s) \in Nat
        /\ \A i \in 1 .. Len(s) : r[i] = s[i]
        /\ \A i \in 1 .. Len(r) : i \in 1 .. Len(s) \/ i = Len(s) + 1
    BY <1>1
  <1>3. \A x \in Imports!ToSet(r) : x \in Imports!ToSet(s) \/ x = e
    BY <1>2, ElementsOf
  <1>4. \A x \in Imports!ToSet(s) : x \in Imports!ToSet(r)
    BY <1>2, ElementsOf
  <1>5. e \in Imports!ToSet(r)
    BY <1>2, ElementsOf
  <1> QED
    BY <1>1, <1>3, <1>4, <1>5

(* Appending what a sequence does not have keeps it without repetition.        *)
LEMMA AppendedOnce ==
  ASSUME NEW S, NEW s \in Seq(S), NEW e \in S, Imports!IsInjective(s), e \notin Imports!ToSet(s)
  PROVE  Imports!IsInjective(Append(s, e))
  <1>0. Append(s, e) \in Seq(S)
    OBVIOUS
  <1>1. PICK r \in Seq(S) : r = Append(s, e)
    BY <1>0
  <1>2. /\ Len(r) = Len(s) + 1 /\ r[Len(s) + 1] = e /\ Len(s) \in Nat
        /\ \A i \in 1 .. Len(s) : r[i] = s[i] /\ s[i] # e
        /\ \A i \in 1 .. Len(r) : i \in 1 .. Len(s) \/ i = Len(s) + 1
        /\ DOMAIN r = 1 .. Len(r) /\ DOMAIN s = 1 .. Len(s)
    BY <1>1, ElementsOf
  <1>3. \A i, j \in 1 .. Len(s) : s[i] = s[j] => i = j
    BY InjectiveIs
  <1>4. ASSUME NEW i \in 1 .. Len(r), NEW j \in 1 .. Len(r), r[i] = r[j] PROVE i = j
    <2>1. CASE i \in 1 .. Len(s) /\ j \in 1 .. Len(s)
      BY <1>2, <1>3, <1>4, <2>1
    <2>2. CASE i = Len(s) + 1 \/ j = Len(s) + 1
      BY <1>2, <1>4, <2>2
    <2> QED
      BY <1>2, <2>1, <2>2
  <1> QED
    <2>1. Imports!IsInjective(r)
      BY <1>4, InjectiveIs
    <2> QED
      BY <1>1, <2>1

(* So does the concatenation of two sequences that share nothing.              *)
LEMMA ConcatIs ==
  ASSUME NEW S, NEW s \in Seq(S), NEW t \in Seq(S)
  PROVE  /\ s \o t \in Seq(S)
         /\ Imports!ToSet(s \o t) = Imports!ToSet(s) \cup Imports!ToSet(t)
         /\ Imports!IsInjective(s) /\ Imports!IsInjective(t)
               /\ Imports!ToSet(s) \cap Imports!ToSet(t) = {} => Imports!IsInjective(s \o t)
  <1>0. s \o t \in Seq(S)
    OBVIOUS
  <1>1. PICK r \in Seq(S) : r = s \o t
    BY <1>0
  <1>2. /\ Len(r) = Len(s) + Len(t) /\ Len(s) \in Nat /\ Len(t) \in Nat
        /\ \A i \in 1 .. Len(s) : r[i] = s[i] /\ i \in 1 .. Len(r)
        /\ \A i \in 1 .. Len(t) : r[Len(s) + i] = t[i] /\ Len(s) + i \in 1 .. Len(r)
        /\ DOMAIN r = 1 .. Len(r) /\ DOMAIN s = 1 .. Len(s) /\ DOMAIN t = 1 .. Len(t)
    BY <1>1
  <1>3. \A i \in 1 .. Len(r) : \/ i \in 1 .. Len(s) /\ r[i] = s[i]
                               \/ i - Len(s) \in 1 .. Len(t) /\ r[i] = t[i - Len(s)]
    <2> TAKE i \in 1 .. Len(r)
    <2>1. CASE i <= Len(s)
      BY <1>2, <2>1
    <2>2. CASE i > Len(s)
      <3>1. i - Len(s) \in 1 .. Len(t) /\ Len(s) + (i - Len(s)) = i
        BY <1>2, <2>2
      <3> QED
        BY <1>2, <3>1
    <2> QED
      BY <1>2, <2>1, <2>2
  <1>4. Imports!ToSet(r) = Imports!ToSet(s) \cup Imports!ToSet(t)
    <2>1. \A x \in Imports!ToSet(r) : x \in Imports!ToSet(s) \/ x \in Imports!ToSet(t)
      BY <1>3, ElementsOf
    <2>2. ASSUME NEW x \in Imports!ToSet(s) PROVE x \in Imports!ToSet(r)
      <3>1. PICK i \in 1 .. Len(s) : x = s[i]
        BY ElementsOf
      <3>2. r[i] = x /\ i \in 1 .. Len(r)
        BY <1>2, <3>1
      <3> QED
        BY <3>2, ElementsOf
    <2>3. \A x \in Imports!ToSet(t) : x \in Imports!ToSet(r)
      <3> SUFFICES ASSUME NEW x \in Imports!ToSet(t) PROVE x \in Imports!ToSet(r)
        OBVIOUS
      <3>1. PICK i \in 1 .. Len(t) : x = t[i]
        BY ElementsOf
      <3>2. r[Len(s) + i] = x /\ Len(s) + i \in 1 .. Len(r)
        BY <1>2, <3>1
      <3> QED
        BY <3>2, ElementsOf
    <2> QED
      BY <2>1, <2>2, <2>3
  <1>5. ASSUME Imports!IsInjective(s), Imports!IsInjective(t), Imports!ToSet(s) \cap Imports!ToSet(t) = {}
        PROVE  Imports!IsInjective(r)
    <2>1. /\ \A i, j \in 1 .. Len(s) : s[i] = s[j] => i = j
          /\ \A i, j \in 1 .. Len(t) : t[i] = t[j] => i = j
      BY <1>5, InjectiveIs
    <2>2. \A i \in 1 .. Len(s), j \in 1 .. Len(t) : s[i] # t[j]
      BY <1>5, ElementsOf
    <2> SUFFICES ASSUME NEW i \in 1 .. Len(r), NEW j \in 1 .. Len(r), r[i] = r[j] PROVE i = j
      BY InjectiveIs
    <2>3. CASE i \in 1 .. Len(s) /\ r[i] = s[i]
      BY <1>3, <2>1, <2>2, <2>3
    <2>4. CASE i - Len(s) \in 1 .. Len(t) /\ r[i] = t[i - Len(s)]
      <3>1. ~ (j \in 1 .. Len(s) /\ r[j] = s[j])
        BY <2>2, <2>4
      <3>2. j - Len(s) \in 1 .. Len(t) /\ r[j] = t[j - Len(s)]
        BY <1>3, <3>1
      <3>5. i - Len(s) = j - Len(s)
        BY <2>1, <2>4, <3>2
      <3> QED
        BY <1>2, <3>5
    <2> QED
      BY <1>3, <2>3, <2>4
  <1> QED
    BY <1>1, <1>4, <1>5

-----------------------------------------------------------------------------
(* Closures.                                                                   *)
LEMMA ClosureIs ==
  ASSUME NEW S \in SUBSET Imports!Sources,
         NEW imports \in [Imports!Sources -> SUBSET Imports!Sources]
  PROVE  /\ S \subseteq Imports!Closure(S, imports)
         /\ Imports!Closure(S, imports) \subseteq Imports!Sources
         /\ \A f \in Imports!Closure(S, imports) : imports[f] \subseteq Imports!Closure(S, imports)
  BY DEF Imports!Closure

LEMMA ClosureIsLeast ==
  ASSUME NEW S, NEW imports, NEW T \in SUBSET Imports!Sources, S \subseteq T,
         \A f \in T : imports[f] \subseteq T
  PROVE  Imports!Closure(S, imports) \subseteq T
  BY DEF Imports!Closure

LEMMA ClosureGrows ==
  ASSUME NEW S \in SUBSET Imports!Sources, NEW R,
         NEW imports \in [Imports!Sources -> SUBSET Imports!Sources],
         R \subseteq Imports!Closure(S, imports)
  PROVE  Imports!Closure(R, imports) \subseteq Imports!Closure(S, imports)
  <1>1. PICK T : T = Imports!Closure(S, imports)
    OBVIOUS
  <1>2. T \in SUBSET Imports!Sources /\ \A f \in T : imports[f] \subseteq T
    BY <1>1, ClosureIs
  <1> QED
    BY <1>1, <1>2, ClosureIsLeast

(* What a set reaches one of its elements reaches.                             *)
LEMMA ClosureOfOne ==
  ASSUME NEW S \in SUBSET Imports!Sources,
         NEW imports \in [Imports!Sources -> SUBSET Imports!Sources],
         NEW f \in Imports!Closure(S, imports)
  PROVE  \E s \in S : f \in Imports!Closure({s}, imports)
  <1> DEFINE T == {l \in Imports!Sources : \E s \in S : l \in Imports!Closure({s}, imports)}
  <1>1. ASSUME NEW s \in S
        PROVE  /\ s \in Imports!Closure({s}, imports)
               /\ \A l \in Imports!Closure({s}, imports) :
                     l \in Imports!Sources /\ imports[l] \subseteq Imports!Closure({s}, imports)
    BY ClosureIs
  <1>2. S \subseteq T /\ \A l \in T : imports[l] \subseteq T
    BY <1>1
  <1>3. Imports!Closure(S, imports) \subseteq T
    <2>1. PICK U : U = T
      OBVIOUS
    <2>2. U \in SUBSET Imports!Sources /\ S \subseteq U /\ \A l \in U : imports[l] \subseteq U
      BY <1>2, <2>1
    <2> HIDE DEF T
    <2> QED
      BY <2>1, <2>2, ClosureIsLeast
  <1> QED
    BY <1>3

-----------------------------------------------------------------------------
(* The sources of a compilation.                                               *)
Locator(l) ==
    /\ Imports!Final(l) \in Imports!Sources /\ Imports!Final(Imports!Final(l)) = Imports!Final(l)
    /\ IF l \in Urls THEN Imports!Final(l) \in Urls ELSE Imports!Final(l) = l

Text(f) ==
    /\ world.content[f] \in Seq(Imports!Definitions(Imports!Sources))
    /\ Imports!Own \in Imports!ToSet(world.content[f])
    /\ \A i, j \in DOMAIN world.content[f] :
          world.content[f][i] = Imports!Own /\ world.content[f][j] = Imports!Own => i = j

LEMMA WorldIs ==
  ASSUME world \in Worlds
  PROVE  /\ IsFiniteSet(Locators) /\ Urls \subseteq Locators
         /\ Imports!Sources \subseteq Locators /\ IsFiniteSet(Imports!Sources)
         /\ Nowhere \notin Imports!Sources
         /\ Imports!Entry \in Imports!Sources /\ Imports!Final(Imports!Entry) = Imports!Entry
         /\ \A l \in Imports!Sources : Locator(l)
         /\ \A f \in Imports!Sources : Text(f)
  <1>1. IsFiniteSet(Locators) /\ Urls \subseteq Locators /\ Nowhere \notin Locators
    BY FrontEndAssumption, Zenon DEF Imports!LocatorsAssumption, Imports!IsFiniteSet, IsFiniteSet
  <1> DEFINE S == DOMAIN world.content
  <1>2. /\ S \subseteq Locators /\ world.entry \in S
        /\ world.content \in [S -> Seq(Imports!Definitions(S))]
        /\ world.redirect \in [S -> S]
        /\ \A l \in S :
              /\ world.redirect[world.redirect[l]] = world.redirect[l]
              /\ IF l \in Urls THEN world.redirect[l] \in Urls ELSE world.redirect[l] = l
        /\ \A f \in S :
              \E i \in DOMAIN world.content[f] :
                 \A j \in DOMAIN world.content[f] : world.content[f][j] = Imports!Own <=> j = i
    BY FrontEndAssumption, Zenon DEF Imports!WorldsAssumption
  <1>3. S = Imports!Sources
    BY DEF Imports!Sources
  <1> HIDE DEF S
  <1>4. \A l : Imports!Final(l) = world.redirect[l]
    BY DEF Imports!Final
  <1>5. \A l \in S : Locator(l)
    BY <1>2, <1>3, <1>4 DEF Locator
  <1>6. ASSUME NEW f \in S PROVE Text(f)
    <2>1. PICK c : c = world.content[f]
      OBVIOUS
    <2>2. c \in Seq(Imports!Definitions(S))
      BY <1>2, <2>1
    <2>3. PICK i \in DOMAIN c : \A j \in DOMAIN c : c[j] = Imports!Own <=> j = i
      BY <1>2, <2>1
    <2>4. i \in 1 .. Len(c) /\ c[i] = Imports!Own
      BY <2>2, <2>3
    <2>5. Imports!Own \in Imports!ToSet(c)
      BY <2>2, <2>4, ElementsOf
    <2> QED
      BY <1>3, <2>1, <2>2, <2>3, <2>5 DEF Text
  <1>7. Imports!Entry = Imports!Final(world.entry)
    BY DEF Imports!Entry
  <1>8. IsFiniteSet(S)
    BY <1>1, <1>2, FS_Subset
  <1> QED
    BY <1>1, <1>2, <1>3, <1>5, <1>6, <1>7, <1>8 DEF Locator

LEMMA DefinitionIs ==
  ASSUME NEW S, NEW d \in Imports!Definitions(S)
  PROVE  /\ d.kind \in {"own", "import", "local"}
         /\ d.kind = "own" <=> d = Imports!Own
         /\ d.kind = "import" => d \in Imports!Directives(S) /\ d.to \in S \cup {Nowhere}
         /\ d.kind = "local" => d.defs \in Seq(Imports!Directives(S))
  BY DEF Imports!Definitions, Imports!Directives, Imports!Own

LEMMA DirectiveIs ==
  ASSUME NEW S, NEW d \in Imports!Directives(S)
  PROVE  d.kind = "import" /\ d # Imports!Own /\ d \in Imports!Definitions(S)
  BY DEF Imports!Definitions, Imports!Directives, Imports!Own

LEMMA DirectivesAre ==
  ASSUME NEW S, NEW defs \in Seq(Imports!Directives(S))
  PROVE  defs \in Seq(Imports!Definitions(S)) /\ \A i \in DOMAIN defs : defs[i] # Imports!Own
  <1>1. \A d \in Imports!Directives(S) : d # Imports!Own /\ d \in Imports!Definitions(S)
    BY DirectiveIs
  <1> QED
    BY <1>1

LEMMA ImportedHas ==
  ASSUME NEW defs, NEW d \in Imports!ToSet(defs), d.kind = "import", d.to # Nowhere
  PROVE  Imports!Final(d.to) \in Imports!Imported(defs)
  BY DEF Imports!Imported

LEMMA ImportedFrom ==
  ASSUME NEW defs, NEW s \in Imports!Imported(defs)
  PROVE  \E d \in Imports!ToSet(defs) :
            d.kind = "import" /\ d.to # Nowhere /\ s = Imports!Final(d.to)
  BY DEF Imports!Imported

LEMMA ImportedIs ==
  ASSUME world \in Worlds, NEW defs \in Seq(Imports!Definitions(Imports!Sources)),
         NEW s \in Imports!Imported(defs)
  PROVE  s \in Imports!Sources /\ Imports!Final(s) = s
  <1>1. PICK d \in Imports!ToSet(defs) :
           d.kind = "import" /\ d.to # Nowhere /\ s = Imports!Final(d.to)
    BY ImportedFrom
  <1>2. d \in Imports!Definitions(Imports!Sources)
    BY ElementsOf
  <1>3. d.to \in Imports!Sources
    BY <1>1, <1>2, DefinitionIs
  <1> QED
    BY <1>1, <1>3, WorldIs DEF Locator

LEMMA ImportsAre ==
  ASSUME world \in Worlds
  PROVE  /\ Imports!TopImports \in [Imports!Sources -> SUBSET Imports!Sources]
         /\ Imports!AllImports \in [Imports!Sources -> SUBSET Imports!Sources]
         /\ \A f \in Imports!Sources :
               /\ Imports!TopImports[f] = Imports!Imported(world.content[f])
               /\ Imports!TopImports[f] \subseteq Imports!AllImports[f]
               /\ \A s \in Imports!AllImports[f] :
                     /\ Imports!Final(s) = s
                     /\ \/ s \in Imports!TopImports[f]
                        \/ \E d \in Imports!ToSet(world.content[f]) :
                              d.kind = "local" /\ s \in Imports!Imported(d.defs)
               /\ \A d \in Imports!ToSet(world.content[f]) :
                     d.kind = "local" => Imports!Imported(d.defs) \subseteq Imports!AllImports[f]
  <1> DEFINE Inner(f) == UNION {Imports!Imported(d.defs) :
                            d \in {e \in Imports!ToSet(world.content[f]) : e.kind = "local"}}
  <1>1. Imports!TopImports = [f \in Imports!Sources |-> Imports!Imported(world.content[f])]
    BY DEF Imports!TopImports
  <1>2. Imports!AllImports =
           [f \in Imports!Sources |-> Imports!Imported(world.content[f]) \cup Inner(f)]
    BY DEF Imports!AllImports, Imports!ImportedAnywhere
  <1>3. \A f : \A s \in Inner(f) : \E d \in Imports!ToSet(world.content[f]) :
           d.kind = "local" /\ s \in Imports!Imported(d.defs)
    OBVIOUS
  <1>4. \A f : \A d \in Imports!ToSet(world.content[f]) :
           d.kind = "local" => Imports!Imported(d.defs) \subseteq Inner(f)
    OBVIOUS
  <1> HIDE DEF Inner
  <1>5. \A f \in Imports!Sources : \A s \in Imports!Imported(world.content[f]) :
           s \in Imports!Sources /\ Imports!Final(s) = s
    BY WorldIs, ImportedIs DEF Text
  <1>6. ASSUME NEW f \in Imports!Sources, NEW s \in Inner(f)
        PROVE  s \in Imports!Sources /\ Imports!Final(s) = s
    <2>1. PICK d \in Imports!ToSet(world.content[f]) :
             d.kind = "local" /\ s \in Imports!Imported(d.defs)
      BY <1>3
    <2>2. d \in Imports!Definitions(Imports!Sources)
      BY WorldIs, ElementsOf DEF Text
    <2>3. d.defs \in Seq(Imports!Definitions(Imports!Sources))
      BY <2>1, <2>2, DefinitionIs, DirectivesAre
    <2> QED
      BY <2>1, <2>3, ImportedIs
  <1>7. \A f \in Imports!Sources : /\ Imports!TopImports[f] = Imports!Imported(world.content[f])
                                   /\ Imports!AllImports[f] = Imports!TopImports[f] \cup Inner(f)
    BY <1>1, <1>2
  <1>8. /\ Imports!TopImports \in [Imports!Sources -> SUBSET Imports!Sources]
        /\ Imports!AllImports \in [Imports!Sources -> SUBSET Imports!Sources]
    BY <1>1, <1>2, <1>5, <1>6
  <1> QED
    BY <1>3, <1>4, <1>5, <1>6, <1>7, <1>8

(* Only locators that answer for themselves are reached.                       *)
LEMMA ClosureIsFinal ==
  ASSUME world \in Worlds, NEW S \in SUBSET Imports!Sources, \A s \in S : Imports!Final(s) = s,
         NEW f \in Imports!Closure(S, Imports!TopImports)
  PROVE  f \in Imports!Sources /\ Imports!Final(f) = f
  <1>1. PICK T : T = {l \in Imports!Sources : Imports!Final(l) = l}
    OBVIOUS
  <1>2. T \in SUBSET Imports!Sources /\ S \subseteq T /\ \A l \in T : Imports!TopImports[l] \subseteq T
    BY <1>1, ImportsAre
  <1>3. Imports!Closure(S, Imports!TopImports) \subseteq T
    BY <1>2, ClosureIsLeast
  <1> QED
    BY <1>1, <1>3

(* A source meets no cycle when nothing that it imports does.                  *)
LEMMA AcyclicFrom ==
  ASSUME world \in Worlds, NEW u \in Imports!Sources, \A v \in Imports!AllImports[u] : Acyclic(v)
  PROVE  Acyclic(u)
  <1>1. PICK A \in SUBSET Imports!Sources : A = Imports!AllImports[u]
    BY ImportsAre
  <1>2. PICK C \in SUBSET Imports!Sources :
           /\ C = Imports!Closure(A, Imports!AllImports) /\ A \subseteq C
           /\ \A f \in C : Imports!AllImports[f] \subseteq C
    BY ImportsAre, ClosureIs
  <1>3. Imports!Closure({u}, Imports!AllImports) \subseteq {u} \cup C
    <2>1. PICK T \in SUBSET Imports!Sources : T = {u} \cup C
      OBVIOUS
    <2>2. {u} \subseteq T /\ \A f \in T : Imports!AllImports[f] \subseteq T
      BY <1>1, <1>2, <2>1
    <2> QED
      BY <2>1, <2>2, ClosureIsLeast
  <1>4. ASSUME NEW f \in {u} \cup C, Imports!OnCycle(f) PROVE FALSE
    <2>1. f \in C
      BY <1>1, <1>2, <1>4 DEF Imports!OnCycle
    <2>2. PICK v \in A : f \in Imports!Closure({v}, Imports!AllImports)
      BY <1>2, <2>1, ImportsAre, ClosureOfOne
    <2>3. Acyclic(v)
      BY <1>1
    <2> QED
      BY <1>4, <2>2, <2>3 DEF Acyclic
  <1> QED
    BY <1>3, <1>4 DEF Acyclic

-----------------------------------------------------------------------------
(* The sources are those of the compilation from its start to its end.         *)
LEMMA WorldStays ==
  ASSUME world' = world
  PROVE  /\ Imports!Sources' = Imports!Sources /\ Imports!Entry' = Imports!Entry
         /\ \A l : Imports!Final(l)' = Imports!Final(l)
         /\ \A defs : Imports!Imported(defs)' = Imports!Imported(defs)
         /\ Imports!TopImports' = Imports!TopImports /\ Imports!AllImports' = Imports!AllImports
         /\ \A S, imports : Imports!Closure(S, imports)' = Imports!Closure(S, imports)
         /\ Imports!Reachable' = Imports!Reachable
         /\ Direct' <=> Direct
         /\ \A s : Acyclic(s)' <=> Acyclic(s)
         /\ \A f : Imports!OnCycle(f)' <=> Imports!OnCycle(f)
         /\ Frames' = Frames
  <1>1. Imports!Sources' = Imports!Sources
    BY DEF Imports!Sources
  <1>2. \A l : Imports!Final(l)' = Imports!Final(l)
    BY DEF Imports!Final
  <1>3. Imports!Entry' = Imports!Entry
    BY DEF Imports!Entry, Imports!Final
  <1>4. \A defs : Imports!Imported(defs)' = Imports!Imported(defs)
    BY DEF Imports!Imported, Imports!Final
  <1>5. Imports!TopImports' = Imports!TopImports /\ Imports!AllImports' = Imports!AllImports
    <2>1. \A f : Imports!Imported(world.content[f])' = Imports!Imported(world.content[f])
      BY SMT DEF Imports!Imported, Imports!Final
    <2>2. \A f : Imports!ImportedAnywhere(world.content[f])' = Imports!ImportedAnywhere(world.content[f])
      BY SMT DEF Imports!ImportedAnywhere, Imports!Imported, Imports!Final
    <2>3. Imports!TopImports' = Imports!TopImports
      BY <1>1, <2>1 DEF Imports!TopImports
    <2>4. Imports!AllImports' = Imports!AllImports
      BY <1>1, <2>2 DEF Imports!AllImports
    <2> QED
      BY <2>3, <2>4
  <1>6. \A S, imports : Imports!Closure(S, imports)' = Imports!Closure(S, imports)
    BY Zenon DEF Imports!Closure, Imports!Sources
  <1>7. Imports!Reachable' = Imports!Reachable
    BY <1>3, <1>5, <1>6, Zenon DEF Imports!Reachable
  <1>8. \A f : Imports!OnCycle(f)' <=> Imports!OnCycle(f)
    BY <1>5, <1>6, Zenon DEF Imports!OnCycle
  <1>9. \A s : Acyclic(s)' <=> Acyclic(s)
    BY <1>5, <1>6, <1>8 DEF Acyclic
  <1>10. Direct' <=> Direct
    BY <1>1, <1>2 DEF Direct
  <1>11. Frames' = Frames
    BY <1>1, Zenon DEF Frames, Imports!Definitions, Imports!Directives
  <1> QED
    BY <1>1, <1>2, <1>3, <1>4, <1>5, <1>6, <1>7, <1>8, <1>9, <1>10, <1>11

(* The level of a frame.                                                       *)
LevelOf(s, n) == Cardinality({j \in 1 .. n : s[j].kind # "local"})

LEMMA LevelIs ==
  /\ \A i : Imports!Level(i) = LevelOf(stack, i)
  /\ \A i : Imports!Level(i)' = LevelOf(stack', i)
  BY Zenon DEF Imports!Level, LevelOf, Imports!Cardinality, Cardinality

LEMMA LevelOfStep ==
  ASSUME NEW s, NEW n \in Nat
  PROVE  /\ LevelOf(s, n) \in Nat
         /\ LevelOf(s, n + 1) = LevelOf(s, n) + IF s[n + 1].kind = "local" THEN 0 ELSE 1
  <1> DEFINE J(m) == {j \in 1 .. m : s[j].kind # "local"}
  <1>1. IsFiniteSet(J(n))
    <2>1. IsFiniteSet(1 .. n)
      BY FS_Interval
    <2> QED
      BY <2>1, FS_Subset
  <1>2. Cardinality(J(n)) \in Nat /\ Cardinality(J(n) \cup {n + 1}) = Cardinality(J(n)) + 1
    <2>1. n + 1 \notin J(n)
      OBVIOUS
    <2> HIDE DEF J
    <2> QED
      BY <1>1, <2>1, FS_CardinalityType, FS_AddElement
  <1>3. J(n + 1) = IF s[n + 1].kind = "local" THEN J(n) ELSE J(n) \cup {n + 1}
    <2>1. 1 .. n + 1 = (1 .. n) \cup {n + 1}
      OBVIOUS
    <2> QED
      BY <2>1
  <1>4. LevelOf(s, n) = Cardinality(J(n)) /\ LevelOf(s, n + 1) = Cardinality(J(n + 1))
    BY DEF LevelOf
  <1> HIDE DEF J
  <1> QED
    BY <1>2, <1>3, <1>4

LEMMA LevelOfStays ==
  ASSUME NEW s, NEW t, NEW n \in Nat, \A j \in 1 .. n : s[j].kind = t[j].kind
  PROVE  LevelOf(s, n) = LevelOf(t, n)
  <1>1. {j \in 1 .. n : s[j].kind # "local"} = {j \in 1 .. n : t[j].kind # "local"}
    OBVIOUS
  <1> QED
    BY ONLY <1>1 DEF LevelOf

-----------------------------------------------------------------------------
(* What a step does to the stack.  It leaves the frames below the m-th one,    *)
(* which becomes the innermost and expands the list it did; or it adds one.    *)
Trimmed(m) ==
    /\ m \in 1 .. Len(stack) /\ stack' \in Seq(Frames) /\ Len(stack') = m
    /\ \A i \in 1 .. m - 1 : stack'[i] = stack[i]
    /\ stack'[m].file = stack[m].file /\ stack'[m].kind = stack[m].kind

Pushed(f) ==
    /\ stack' \in Seq(Frames) /\ Len(stack') = Len(stack) + 1 /\ stack'[Len(stack) + 1] = f
    /\ \A i \in 1 .. Len(stack) : stack'[i] = stack[i]

Placed(i) ==
    /\ Imports!Level(i)' = Imports!Level(i) /\ Index(i)' = Index(i) /\ ListOf(i)' = ListOf(i)

LEMMA StackIs ==
  ASSUME StackInv
  PROVE  /\ stack \in Seq(Frames) /\ stack # <<>> /\ Len(stack) \in Nat \ {0}
         /\ Imports!Top = stack[Len(stack)]
         /\ \A i \in 1 .. Len(stack) :
               /\ stack[i] \in Frames
               /\ Imports!Level(i) \in 1 .. i /\ Index(i) \in 1 .. i
         /\ \A i \in 1 .. Len(stack) - 1 :
               LET s == stack[i + 1].kind = "local" IN
               /\ Imports!Level(i + 1) = Imports!Level(i) + IF s THEN 0 ELSE 1
               /\ Index(i + 1) = Index(i) + IF s THEN 1 ELSE 0
  <1>1. stack \in Seq(Frames) /\ stack # <<>> /\ Len(stack) \in Nat \ {0}
    BY DEF StackInv
  <1>2. Imports!Top = stack[Len(stack)]
    BY <1>1, FrontIs DEF Imports!Top
  <1>3. \A i \in 1 .. Len(stack) : Imports!Level(i) \in 1 .. i
    BY DEF StackInv, FrameAt
  <1>4. \A i \in 1 .. Len(stack) : Index(i) \in 1 .. i
    BY <1>3 DEF Index
  <1>5. ASSUME NEW i \in 1 .. Len(stack) - 1
        PROVE  Imports!Level(i + 1) = Imports!Level(i) + IF stack[i + 1].kind = "local" THEN 0 ELSE 1
    BY LevelIs, LevelOfStep
  <1>6. \A i \in 1 .. Len(stack) - 1 : i \in 1 .. Len(stack) /\ i + 1 \in 1 .. Len(stack)
    BY <1>1
  <1>7. ASSUME NEW i \in 1 .. Len(stack) - 1
        PROVE  Index(i + 1) = Index(i) + IF stack[i + 1].kind = "local" THEN 1 ELSE 0
    BY <1>3, <1>5, <1>6 DEF Index
  <1> QED
    BY <1>1, <1>2, <1>3, <1>4, <1>5, <1>7

LEMMA TrimmedStays ==
  ASSUME world' = world, StackInv, NEW m, Trimmed(m)
  PROVE  StackInv' /\ \A i \in 1 .. m : Placed(i)
  <1>1. /\ m \in 1 .. Len(stack) /\ stack' \in Seq(Frames) /\ Len(stack') = m /\ m \in Nat \ {0}
        /\ \A i \in 1 .. m - 1 : stack'[i] = stack[i]
        /\ \A i \in 1 .. m : stack'[i].file = stack[i].file /\ stack'[i].kind = stack[i].kind
    <2>1. /\ m \in 1 .. Len(stack) /\ stack' \in Seq(Frames) /\ Len(stack') = m
          /\ \A i \in 1 .. m - 1 : stack'[i] = stack[i]
          /\ stack'[m].file = stack[m].file /\ stack'[m].kind = stack[m].kind
      BY DEF Trimmed
    <2>2. m \in Nat \ {0}
      BY <2>1, StackIs
    <2>3. \A i \in 1 .. m : i \in 1 .. m - 1 \/ i = m
      BY <2>2
    <2> QED
      BY <2>1, <2>2, <2>3
  <1>2. ASSUME NEW i \in 1 .. m PROVE Imports!Level(i)' = Imports!Level(i) /\ Index(i)' = Index(i)
    <2>1. LevelOf(stack', i) = LevelOf(stack, i)
      BY <1>1, LevelOfStays
    <2> QED
      BY <2>1, LevelIs DEF Index
  <1>3. ASSUME NEW i \in 1 .. m PROVE ListOf(i)' = ListOf(i)
    <2>1. CASE stack[i].kind = "local"
      <3>1. i \in 2 .. m
        BY <1>1, <2>1 DEF StackInv, FrameAt
      <3>2. stack'[i - 1] = stack[i - 1]
        BY <1>1, <3>1
      <3> QED
        BY <1>1, <2>1, <3>2 DEF ListOf
    <2>2. CASE stack[i].kind # "local"
      BY <1>1, <2>2 DEF ListOf
    <2> QED
      BY <2>1, <2>2
  <1>4. ASSUME NEW i \in 2 .. m PROVE Below(i)'
    <2>1. stack'[i - 1] = stack[i - 1] /\ i \in 1 .. m /\ Below(i)
      BY <1>1 DEF StackInv
    <2>2. stack'[i].file = stack[i].file /\ stack'[i].kind = stack[i].kind
      BY <1>1, <2>1
    <2> QED
      BY <2>1, <2>2, WorldStays DEF Below
  <1>5. ASSUME NEW i \in 1 .. m PROVE FrameAt(i)'
    <2>1. FrameAt(i)
      BY <1>1 DEF StackInv
    <2>2. stack'[i].file = stack[i].file /\ stack'[i].kind = stack[i].kind
      BY <1>1
    <2> QED
      BY <1>2, <2>1, <2>2, WorldStays DEF FrameAt
  <1>6. ASSUME NEW i \in 1 .. m, NEW j \in 1 .. m PROVE Ordered(i, j)'
    <2>1. Ordered(i, j)
      BY <1>1 DEF StackInv
    <2> QED
      BY <1>2, <2>1 DEF Ordered
  <1>7. stack' # <<>> /\ stack'[1].file = Imports!Entry'
    <2>1. stack[1].file = Imports!Entry /\ 1 \in 1 .. m
      BY <1>1 DEF StackInv
    <2> QED
      BY <1>1, <2>1, WorldStays
  <1> QED
    <2>1. StackInv'
      BY <1>1, <1>4, <1>5, <1>6, <1>7, WorldStays DEF StackInv
    <2> QED
      BY <1>2, <1>3, <2>1 DEF Placed

LEMMA PushedStays ==
  ASSUME world' = world, StackInv, NEW n, n = Len(stack), NEW f, Pushed(f), f.kind \in {"import", "local"},
         Imports!Final(f.file) = f.file, Imports!Top.rest # <<>>,
         f.kind = "local" =>
            Imports!Item.kind = "local" /\ Imports!Top.kind # "local" /\ f.file = Imports!Top.file,
         f.kind = "import" =>
            /\ Imports!Item.kind = "import" /\ Imports!Item.to \in Imports!Sources
            /\ Imports!Final(Imports!Item.to) = f.file
  PROVE  /\ StackInv' /\ \A i \in 1 .. n : Placed(i)
         /\ Imports!Level(n + 1)' = Imports!Level(n) + IF f.kind = "local" THEN 0 ELSE 1
         /\ Index(n + 1)' = Index(n) + IF f.kind = "local" THEN 1 ELSE 0
         /\ ListOf(n + 1)' = IF f.kind = "local" THEN Imports!Item.defs ELSE world.content[f.file]
  <1>1. /\ stack' \in Seq(Frames) /\ Len(stack') = n + 1 /\ n \in Nat \ {0} /\ stack'[n + 1] = f
        /\ \A i \in 1 .. n : stack'[i] = stack[i]
        /\ Imports!Top = stack[n] /\ Imports!Item = Head(stack[n].rest)
    BY StackIs DEF Pushed, Imports!Item
  <1>2. /\ \A i \in 1 .. n : Imports!Level(i) \in 1 .. i /\ Imports!Level(i)' = Imports!Level(i)
        /\ \A i \in 1 .. n : Index(i) \in 1 .. i /\ Index(i)' = Index(i)
    <2>1. ASSUME NEW i \in 1 .. n PROVE LevelOf(stack', i) = LevelOf(stack, i)
      BY <1>1, <2>1, LevelOfStays
    <2> QED
      BY <2>1, LevelIs, StackIs DEF Index
  <1>3. Imports!Level(n + 1)' = Imports!Level(n) + IF f.kind = "local" THEN 0 ELSE 1
    <2>1. LevelOf(stack', n + 1) = LevelOf(stack', n) + IF f.kind = "local" THEN 0 ELSE 1
      BY <1>1, LevelOfStep
    <2>2. n \in 1 .. n
      BY <1>1
    <2> QED
      BY <1>2, <2>1, <2>2, LevelIs
  <1>4. Index(n + 1)' = Index(n) + IF f.kind = "local" THEN 1 ELSE 0
    <2>1. Index(n + 1)' = 1 + ((n + 1) - Imports!Level(n + 1)') /\ Index(n) = 1 + (n - Imports!Level(n))
      BY DEF Index
    <2>2. n \in Nat \ {0} /\ Imports!Level(n) \in 1 .. n
      BY <1>1, <1>2
    <2> QED
      BY <1>3, <2>1, <2>2
  <1>5. ASSUME NEW i \in 1 .. n PROVE ListOf(i)' = ListOf(i)
    <2>1. CASE stack[i].kind = "local"
      <3>1. i \in 2 .. n
        BY <1>1, <2>1 DEF StackInv, FrameAt
      <3>2. stack'[i - 1] = stack[i - 1]
        BY <1>1, <3>1
      <3> QED
        BY <1>1, <2>1, <3>2 DEF ListOf
    <2>2. CASE stack[i].kind # "local"
      BY <1>1, <2>2 DEF ListOf
    <2> QED
      BY <2>1, <2>2
  <1>6. ListOf(n + 1)' = IF f.kind = "local" THEN Imports!Item.defs ELSE world.content[f.file]
    BY <1>1 DEF ListOf
  <1>7. \A i \in 2 .. n + 1 : Below(i)'
    <2>1. ASSUME NEW i \in 2 .. n PROVE Below(i)'
      <3>1. stack'[i - 1] = stack[i - 1] /\ stack'[i] = stack[i] /\ Below(i)
        BY <1>1 DEF StackInv
      <3> QED
        BY <3>1, WorldStays DEF Below
    <2>2. Below(n + 1)'
      <3>1. stack'[n] = stack[n] /\ (n + 1) - 1 = n
        BY <1>1
      <3> QED
        BY <1>1, <3>1, WorldStays DEF Below
    <2> QED
      BY <1>1, <2>1, <2>2
  <1>8. (n + 1) + (IF f.kind = "local" THEN 0 ELSE 1) <= 2 * Imports!Level(n + 1)'
    <2>1. n \in Nat \ {0} /\ Imports!Level(n) \in 1 .. n
      BY <1>1, <1>2
    <2>2. n + (IF stack[n].kind = "local" THEN 0 ELSE 1) <= 2 * Imports!Level(n)
      BY <2>1 DEF StackInv, FrameAt
    <2> QED
      BY <1>1, <1>3, <2>1, <2>2
  <1>9. \A i \in 1 .. n + 1 : FrameAt(i)'
    <2>1. ASSUME NEW i \in 1 .. n PROVE FrameAt(i)'
      <3>1. FrameAt(i) /\ stack'[i] = stack[i]
        BY <1>1 DEF StackInv
      <3> QED
        BY <1>2, <3>1, WorldStays DEF FrameAt
    <2>2. FrameAt(n + 1)'
      <3>1. n \in Nat \ {0} /\ Imports!Level(n) \in 1 .. n
        BY <1>1, <1>2
      <3>2. Imports!Level(n + 1)' \in 1 .. n + 1
        BY <1>3, <3>1
      <3>3. f.kind # "entry" /\ n + 1 # 1
        BY <1>1
      <3> QED
        BY <1>1, <1>8, <3>2, <3>3, WorldStays DEF FrameAt
    <2>3. \A i \in 1 .. n + 1 : i \in 1 .. n \/ i = n + 1
      BY <1>1
    <2> QED
      BY <2>1, <2>2, <2>3
  <1>10. \A i, j \in 1 .. n + 1 : Ordered(i, j)'
    <2>1. ASSUME NEW i \in 1 .. n, NEW j \in 1 .. n PROVE Ordered(i, j)'
      <3>1. Ordered(i, j)
        BY <1>1 DEF StackInv
      <3> QED
        BY <1>2, <3>1 DEF Ordered
    <2>2. ASSUME NEW i \in 1 .. n PROVE Ordered(i, n + 1)' /\ Ordered(n + 1, i)'
      <3>1. n \in 1 .. n /\ (i = n \/ i < n)
        BY <1>1
      <3>2. Imports!Level(i) <= Imports!Level(n) /\ Index(i) <= Index(n)
        BY <1>1, <1>2, <3>1 DEF StackInv, Ordered
      <3>3. Imports!Level(i)' <= Imports!Level(n + 1)' /\ Index(i)' <= Index(n + 1)'
        BY <1>2, <1>3, <1>4, <3>1, <3>2
      <3>4. ~ (n + 1 < i)
        BY <1>1
      <3> QED
        BY <3>3, <3>4 DEF Ordered
    <2>3. Ordered(n + 1, n + 1)'
      BY <1>1 DEF Ordered
    <2>4. \A i \in 1 .. n + 1 : i \in 1 .. n \/ i = n + 1
      BY <1>1
    <2> QED
      BY <2>1, <2>2, <2>3, <2>4
  <1>11. stack' # <<>> /\ stack'[1].file = Imports!Entry'
    BY <1>1, WorldStays DEF StackInv
  <1> QED
    <2>1. StackInv'
      BY <1>1, <1>7, <1>9, <1>10, <1>11, WorldStays DEF StackInv
    <2> QED
      BY <1>2, <1>3, <1>4, <1>5, <1>6, <2>1 DEF Placed

-----------------------------------------------------------------------------
(* The frames' lists and what is left of them.                                 *)
LEMMA ListIs ==
  ASSUME world \in Worlds, StackInv, NEW i \in 1 .. Len(stack)
  PROVE  /\ ListOf(i) \in Seq(Imports!Definitions(Imports!Sources))
         /\ stack[i].kind # "local" => ListOf(i) = world.content[stack[i].file]
         /\ stack[i].kind = "local" =>
               /\ ListOf(i) \in Seq(Imports!Directives(Imports!Sources))
               /\ i \in 2 .. Len(stack) /\ stack[i - 1].kind # "local"
               /\ stack[i].file = stack[i - 1].file /\ stack[i - 1].rest # <<>>
               /\ Head(stack[i - 1].rest).kind = "local"
               /\ ListOf(i) = Head(stack[i - 1].rest).defs
  <1>1. stack[i] \in Frames
    BY StackIs
  <1>2. CASE stack[i].kind = "local"
    <2>1. i \in 2 .. Len(stack) /\ i - 1 \in 1 .. Len(stack)
      BY <1>2, StackIs DEF StackInv, FrameAt
    <2>2. Below(i) /\ stack[i - 1] \in Frames
      BY <2>1, StackIs DEF StackInv
    <2>3. PICK h : h = Head(stack[i - 1].rest)
      OBVIOUS
    <2>4. /\ stack[i - 1].rest # <<>> /\ h.kind = "local" /\ stack[i - 1].kind # "local"
          /\ stack[i].file = stack[i - 1].file /\ ListOf(i) = h.defs
      BY <1>2, <2>2, <2>3 DEF Below, ListOf
    <2>5. h \in Imports!Definitions(Imports!Sources)
      <3>1. stack[i - 1].rest \in Seq(Imports!Definitions(Imports!Sources))
        BY <2>2 DEF Frames
      <3> QED
        BY <2>3, <2>4, <3>1
    <2>6. h.defs \in Seq(Imports!Directives(Imports!Sources))
      BY <2>4, <2>5, DefinitionIs
    <2> QED
      BY <1>2, <2>1, <2>3, <2>4, <2>6, DirectivesAre
  <1>3. CASE stack[i].kind # "local"
    <2>1. ListOf(i) = world.content[stack[i].file] /\ stack[i].file \in Imports!Sources
      BY <1>1, <1>3 DEF ListOf, Frames
    <2> QED
      BY <1>3, <2>1, WorldIs DEF Text
  <1> QED
    BY <1>2, <1>3

LEMMA ExpandsStays ==
  ASSUME world' = world
  PROVE  /\ \A f, list, scope, seen :
               Expands(f, list, scope, seen)' <=> Expands(f, list, scope, seen)
         /\ \A f : Emits(f)' = Emits(f)
  <1>1. \A d, scope, seen : Treated(d, scope, seen)' <=> Treated(d, scope, seen)
    BY WorldStays, Zenon DEF Treated
  <1>2. \A f, list : Start(f, list)' = Start(f, list)
    BY WorldStays, Zenon DEF Start
  <1>3. \A f : Emits(f)' = Emits(f)
    BY DEF Emits
  <1>4. ASSUME NEW f, NEW list, NEW scope, NEW seen
        PROVE  Expands(f, list, scope, seen)' <=> Expands(f, list, scope, seen)
    BY <1>1, <1>2, <1>3, WorldStays DEF Expands
  <1> QED
    BY <1>3, <1>4

LEMMA ExpandsGrows ==
  ASSUME NEW f, NEW list, NEW scope, NEW seen, Expands(f, list, scope, seen),
         NEW wider, scope \subseteq wider, NEW more, seen \subseteq more
  PROVE  Expands(f, list, wider, more)
  <1>1. \A d : Treated(d, scope, seen) => Treated(d, wider, more)
    BY DEF Treated
  <1> QED
    BY <1>1 DEF Expands

(* A frame goes on after a definition that has been treated.                   *)
LEMMA ExpandsOn ==
  ASSUME NEW f \in Frames, NEW list, NEW scope, NEW seen, Expands(f, list, scope, seen),
         f.rest # <<>>, NEW g \in Frames,
         g.file = f.file, g.kind = f.kind, g.out = f.out, g.rest = Tail(f.rest),
         Head(f.rest) # Imports!Own, Treated(Head(f.rest), scope, seen)
  PROVE  Expands(g, list, scope, seen) /\ Emits(g) = Emits(f)
  <1>1. PICK r \in Seq(Imports!Definitions(Imports!Sources)) : r = f.rest /\ r # <<>>
    BY DEF Frames
  <1>2. /\ g.rest = Tail(r) /\ g.file = f.file /\ g.kind = f.kind /\ g.out = f.out
    BY <1>1
  <1>3. /\ Imports!ToSet(Tail(r)) \subseteq Imports!ToSet(r)
        /\ Imports!ToSet(r) \subseteq {Head(r)} \cup Imports!ToSet(Tail(r))
        /\ \A i \in 1 .. Len(r) - 1 : Tail(r)[i] = r[i + 1]
        /\ Tail(r) \in Seq(Imports!Definitions(Imports!Sources)) /\ Len(Tail(r)) = Len(r) - 1
        /\ Len(r) \in Nat \ {0}
    BY <1>1, HeadIs
  <1>4. Emits(g) = Emits(f) /\ Start(g, list) = Start(f, list)
    BY <1>2 DEF Emits, Start
  <1>5. /\ Imports!ToSet(Tail(r)) \subseteq Imports!ToSet(list)
        /\ \A d \in Imports!ToSet(list) : d \in Imports!ToSet(Tail(r)) \/ Treated(d, scope, seen)
    BY <1>1, <1>3 DEF Expands
  <1>6. \A i, j \in DOMAIN Tail(r) :
           Tail(r)[i] = Imports!Own /\ Tail(r)[j] = Imports!Own => i = j
    <2>1. \A i, j \in 1 .. Len(r) : r[i] = Imports!Own /\ r[j] = Imports!Own => i = j
      BY <1>1 DEF Expands
    <2>2. \A i \in DOMAIN Tail(r) : i \in Nat /\ i + 1 \in 1 .. Len(r) /\ Tail(r)[i] = r[i + 1]
      BY <1>3
    <2> QED
      BY <2>1, <2>2
  <1>7. Imports!Own \in Imports!ToSet(Tail(r)) <=> Imports!Own \in Imports!ToSet(r)
    BY <1>1, <1>3
  <1> QED
    BY <1>1, <1>2, <1>4, <1>5, <1>6, <1>7 DEF Expands

-----------------------------------------------------------------------------
(* A step that leaves the m-th frame innermost keeps the invariant when that   *)
(* frame takes over what the frames it drops have emitted to its scope, and    *)
(* the sources that become inactive have been treated.                         *)
ScopesGrow(m) ==
    /\ scopes' \in Seq(SUBSET Imports!Sources) /\ Len(scopes') = Index(m)
    /\ \A k \in 1 .. Index(m) :
          /\ scopes[k] \subseteq scopes'[k]
          /\ \A l \in scopes'[k] \ scopes[k] :
                /\ l # Imports!Entry /\ Imports!Final(l) # l
                /\ Imports!Final(l) \in scopes[k]

Gathers(m) ==
    /\ \A s \in Emits(stack'[m]) :
          \E i \in m .. Len(stack) : Index(i) = Index(m) /\ s \in Emits(stack[i])
    /\ \A i \in m .. Len(stack) : Index(i) = Index(m) => Emits(stack[i]) \subseteq Emits(stack'[m])

Settled(m) ==
    \A i \in m + 1 .. Len(stack) :
        Index(i) = Index(m) /\ stack[i].kind # "local" =>
            Imports!TopImports[stack[i].file] \subseteq scopes[Index(m)]

Leaves(m) ==
    /\ active' \in Seq(Imports!Sources) /\ Len(active') = Imports!Level(m)
    /\ \A j \in 1 .. Imports!Level(m) : active'[j] = active[j]
    /\ edges' \in Seq(Imports!Sources \X Imports!Sources) /\ Len(edges') + 1 = Len(active')
    /\ \A j \in 1 .. Len(edges') : edges'[j] = edges[j]
    /\ \A s \in Imports!ToSet(active) \ Imports!ToSet(active') :
          /\ Imports!AllImports[s] \subseteq Imports!ToSet(used)
          /\ Direct => Acyclic(s)

Contracts(m) ==
    /\ world' = world /\ Trimmed(m) /\ used' = used
    /\ Expands(stack'[m], ListOf(m), scopes'[Index(m)], Imports!ToSet(used))
    /\ Gathers(m) /\ Settled(m) /\ ScopesGrow(m) /\ Leaves(m)

LEMMA FramesContract ==
  ASSUME Expanding, NEW m, Contracts(m)
  PROVE  FramesInv'
  <1>1. /\ Trimmed(m) /\ StackInv /\ world' = world /\ used' = used /\ FramesInv
        /\ m \in 1 .. Len(stack) /\ Len(stack') = m /\ m \in Nat \ {0}
        /\ \A i \in 1 .. m - 1 : stack'[i] = stack[i]
    BY StackIs DEF Expanding, Contracts, Trimmed
  <1>2. \A i \in 1 .. m : Index(i)' = Index(i) /\ ListOf(i)' = ListOf(i)
    BY <1>1, TrimmedStays DEF Placed
  <1>3. \A i \in 1 .. m : Index(i) \in 1 .. Index(m)
    <2>1. \A i \in 1 .. m : i = m \/ i < m
      BY <1>1
    <2> QED
      BY <1>1, <2>1, StackIs DEF StackInv, Ordered
  <1>4. \A k \in 1 .. Index(m) : scopes[k] \subseteq scopes'[k]
    BY DEF Contracts, ScopesGrow
  <1>5. ASSUME NEW i \in 1 .. m
        PROVE  Expands(stack'[i], ListOf(i), scopes'[Index(i)], Imports!ToSet(used))
    <2>1. CASE i = m
      BY <2>1 DEF Contracts
    <2>2. CASE i # m
      <3>1. i \in 1 .. m - 1 /\ i \in 1 .. Len(stack)
        BY <1>1, <2>2
      <3>2. Expands(stack[i], ListOf(i), scopes[Index(i)], Imports!ToSet(used))
        BY <1>1, <3>1 DEF FramesInv, ScopeOf
      <3>3. scopes[Index(i)] \subseteq scopes'[Index(i)]
        BY <1>3, <1>4
      <3> QED
        BY <1>1, <3>1, <3>2, <3>3, ExpandsGrows
    <2> QED
      BY <2>1, <2>2
  <1>6. ASSUME NEW i \in 1 .. m
        PROVE  Expands(stack[i], ListOf(i), ScopeOf(i), Imports!ToSet(used))'
    <2>1. ScopeOf(i)' = scopes'[Index(i)] /\ ListOf(i)' = ListOf(i)
      BY <1>2 DEF ScopeOf
    <2> QED
      BY <1>1, <1>5, <2>1, ExpandsStays
  <1> QED
    BY <1>1, <1>6 DEF FramesInv

LEMMA DisjointContract ==
  ASSUME Expanding, NEW m, Contracts(m)
  PROVE  DisjointInv'
  <1>1. /\ Trimmed(m) /\ StackInv /\ world' = world /\ DisjointInv /\ Gathers(m)
        /\ m \in 1 .. Len(stack) /\ Len(stack') = m /\ m \in Nat \ {0} /\ Len(stack) \in Nat
        /\ \A i \in 1 .. m - 1 : stack'[i] = stack[i]
    BY StackIs DEF Expanding, Contracts, Trimmed
  <1>2. \A i \in 1 .. m : Index(i)' = Index(i)
    BY <1>1, TrimmedStays DEF Placed
  <1>3. ASSUME NEW i \in 1 .. m - 1, Index(i) = Index(m)
        PROVE  Emits(stack[i]) \cap Emits(stack'[m]) = {}
    <2> SUFFICES ASSUME NEW s \in Emits(stack[i]), s \in Emits(stack'[m]) PROVE FALSE
      OBVIOUS
    <2>1. PICK j \in m .. Len(stack) : Index(j) = Index(m) /\ s \in Emits(stack[j])
      BY <1>1 DEF Gathers
    <2>2. i # j /\ i \in 1 .. Len(stack) /\ j \in 1 .. Len(stack)
      BY <1>1
    <2> QED
      BY <1>1, <1>3, <2>1, <2>2 DEF DisjointInv
  <1>4. ASSUME NEW i \in 1 .. m, NEW j \in 1 .. m, i # j, Index(i) = Index(j)
        PROVE  Emits(stack'[i]) \cap Emits(stack'[j]) = {}
    <2>1. CASE i = m
      <3>1. j \in 1 .. m - 1
        BY <1>1, <1>4, <2>1
      <3> QED
        BY <1>1, <1>3, <1>4, <2>1, <3>1
    <2>2. CASE j = m
      <3>1. i \in 1 .. m - 1
        BY <1>1, <1>4, <2>2
      <3> QED
        BY <1>1, <1>3, <1>4, <2>2, <3>1
    <2>3. CASE i # m /\ j # m
      <3>1. i \in 1 .. m - 1 /\ j \in 1 .. m - 1 /\ i \in 1 .. Len(stack) /\ j \in 1 .. Len(stack)
        BY <1>1, <2>3
      <3> QED
        BY <1>1, <1>4, <3>1 DEF DisjointInv
    <2> QED
      BY <2>1, <2>2, <2>3
  <1>5. \A f : Emits(f)' = Emits(f)
    BY <1>1, ExpandsStays
  <1> QED
    BY <1>1, <1>2, <1>4, <1>5 DEF DisjointInv

LEMMA ScopesContract ==
  ASSUME world \in Worlds, Expanding, NEW m, Contracts(m)
  PROVE  ScopesInv'
  <1>1. /\ Trimmed(m) /\ StackInv /\ world' = world /\ ScopesInv /\ Gathers(m) /\ used' = used
        /\ m \in 1 .. Len(stack) /\ Len(stack') = m /\ m \in Nat \ {0} /\ Len(stack) \in Nat
        /\ \A i \in 1 .. m - 1 : stack'[i] = stack[i]
        /\ stack'[m].kind = stack[m].kind /\ stack'[m].file = stack[m].file
        /\ ScopesGrow(m) /\ Settled(m)
    BY StackIs DEF Expanding, Contracts, Trimmed
  <1>2. \A i \in 1 .. m : Index(i)' = Index(i)
    BY <1>1, TrimmedStays DEF Placed
  <1>3. /\ Index(m) \in Nat /\ Len(scopes') = Index(m) /\ Index(m) <= Len(scopes) /\ Len(scopes) \in Nat
        /\ scopes' \in Seq(SUBSET Imports!Sources) /\ scopes \in Seq(SUBSET Imports!Sources)
    <2>1. m = Len(stack) \/ m < Len(stack)
      BY <1>1
    <2>2. Len(stack) \in 1 .. Len(stack) /\ Index(m) \in Nat /\ Index(Len(stack)) \in Nat
      BY <1>1, StackIs
    <2>3. Index(m) <= Index(Len(stack))
      BY <1>1, <2>1, <2>2 DEF StackInv, Ordered
    <2> QED
      BY <1>1, <2>2, <2>3 DEF ScopesInv, ScopesGrow
  <1>4. ASSUME NEW k \in 1 .. Index(m), NEW i \in m .. Len(stack), Index(i) = k
        PROVE  k = Index(m)
    <2>1. m = i \/ m < i
      BY <1>1
    <2>2. i \in 1 .. Len(stack)
      BY <1>1
    <2>3. Index(m) <= Index(i)
      BY <1>1, <2>1, <2>2, <1>3 DEF StackInv, Ordered
    <2> QED
      BY <1>3, <1>4, <2>3
  <1>5. ASSUME NEW k \in 1 .. Index(m), NEW s, Covered(k, s) PROVE Covered(k, s)'
    <2>1. PICK i \in 1 .. Len(stack) : Index(i) = k /\ s \in Emits(stack[i])
      BY <1>5 DEF Covered
    <2>2. CASE i < m
      <3>1. i \in 1 .. m /\ stack'[i] = stack[i]
        BY <1>1, <2>2
      <3>2. Index(i)' = k /\ s \in Emits(stack[i])'
        BY <1>1, <1>2, <2>1, <3>1, ExpandsStays
      <3> QED
        BY <1>1, <3>1, <3>2 DEF Covered
    <2>3. CASE ~ (i < m)
      <3>1. i \in m .. Len(stack)
        BY <1>1, <2>3
      <3>2. k = Index(m)
        BY <1>4, <2>1, <3>1
      <3>3. s \in Emits(stack'[m])
        BY <1>1, <2>1, <3>1, <3>2 DEF Gathers
      <3>4. m \in 1 .. m /\ Index(m)' = k /\ s \in Emits(stack[m])'
        BY <1>1, <1>2, <3>2, <3>3, ExpandsStays
      <3> QED
        BY <1>1, <3>4 DEF Covered
    <2> QED
      BY <2>2, <2>3
  <1>6. ASSUME NEW k \in 1 .. Index(m), NEW s, Pending(k, s)
        PROVE  Pending(k, s)' \/ Imports!TopImports[s] \subseteq scopes[k]
    <2>1. PICK i \in 1 .. Len(stack) : Index(i) = k /\ stack[i].kind # "local" /\ stack[i].file = s
      BY <1>6 DEF Pending
    <2>2. CASE i \in 1 .. m
      <3>1. stack'[i].kind = stack[i].kind /\ stack'[i].file = stack[i].file
        BY <1>1, <2>2
      <3> QED
        BY <1>1, <1>2, <2>1, <2>2, <3>1 DEF Pending
    <2>3. CASE i \notin 1 .. m
      <3>1. i \in m .. Len(stack) /\ i \in m + 1 .. Len(stack)
        BY <1>1, <2>3
      <3>2. k = Index(m)
        BY <1>4, <2>1, <3>1
      <3> QED
        BY <1>1, <2>1, <3>1, <3>2 DEF Settled
    <2> QED
      BY <2>2, <2>3
  <1>7. ASSUME NEW k \in 1 .. Index(m)
        PROVE  /\ scopes[k] \subseteq scopes'[k] /\ k \in 1 .. Len(scopes)
               /\ Imports!Entry \notin scopes'[k]
               /\ \A l \in scopes'[k] :
                     /\ Imports!Final(l) \in scopes'[k] /\ Imports!Final(l) \in Imports!ToSet(used)
                     /\ Imports!Final(l) = l => l \in scopes[k]
    <2>1. k \in 1 .. Len(scopes)
      BY <1>3
    <2>2. /\ Imports!Entry \notin scopes[k] /\ scopes[k] \subseteq Imports!Sources
          /\ \A l \in scopes[k] : Imports!Final(l) \in scopes[k] /\ Imports!Final(l) \in Imports!ToSet(used)
      BY <1>1, <1>3, <2>1 DEF ScopesInv
    <2>3. /\ scopes[k] \subseteq scopes'[k]
          /\ \A l \in scopes'[k] \ scopes[k] :
                /\ l # Imports!Entry /\ Imports!Final(l) # l /\ Imports!Final(l) \in scopes[k]
      BY <1>1 DEF ScopesGrow
    <2>4. \A l \in scopes[k] : Imports!Final(Imports!Final(l)) = Imports!Final(l)
      BY <2>2, WorldIs DEF Locator
    <2>5. \A l \in scopes'[k] \ scopes[k] : Imports!Final(Imports!Final(l)) \in Imports!ToSet(used)
      BY <2>2, <2>3
    <2>6. \A l \in scopes'[k] \ scopes[k] : Imports!Final(l) \in Imports!ToSet(used)
      <3> TAKE l \in scopes'[k] \ scopes[k]
      <3>1. l \in Imports!Sources
        BY <1>3
      <3>2. Imports!Final(Imports!Final(l)) = Imports!Final(l)
        BY <3>1, WorldIs DEF Locator
      <3> QED
        BY <2>5, <3>2
    <2> QED
      BY <2>1, <2>2, <2>3, <2>6
  <1>8. ASSUME NEW k \in 1 .. Index(m), NEW s \in scopes'[k], Imports!Final(s) = s
        PROVE  Covered(k, s)' /\ (Pending(k, s)' \/ Imports!TopImports[s] \subseteq scopes'[k])
    <2>1. s \in scopes[k] /\ k \in 1 .. Len(scopes)
      BY <1>7, <1>8
    <2>2. Covered(k, s) /\ (Pending(k, s) \/ Imports!TopImports[s] \subseteq scopes[k])
      BY <1>1, <1>8, <2>1 DEF ScopesInv
    <2>3. scopes[k] \subseteq scopes'[k]
      BY <1>7
    <2> QED
      BY <1>5, <1>6, <2>2, <2>3
  <1>9. Len(scopes') = Index(Len(stack))'
    <2>1. Index(m)' = Index(m)
      BY <1>1, <1>2
    <2> QED
      BY <1>1, <1>3, <2>1 DEF Index, Imports!Level
  <1> QED
    BY <1>1, <1>3, <1>7, <1>8, <1>9, WorldStays DEF ScopesInv

LEMMA UsedContract ==
  ASSUME Expanding, NEW m, Contracts(m)
  PROVE  UsedInv'
  <1>1. /\ world' = world /\ used' = used /\ Leaves(m) /\ UsedInv /\ ActiveInv
    BY DEF Expanding, Contracts, Trimmed
  <1>2. Imports!ToSet(active') \subseteq Imports!ToSet(active)
    <2>1. /\ active' \in Seq(Imports!Sources) /\ active \in Seq(Imports!Sources)
          /\ Len(active') = Imports!Level(m) /\ Len(active) = Imports!Level(Len(stack))
          /\ \A j \in 1 .. Imports!Level(m) : active'[j] = active[j]
      BY <1>1 DEF Leaves, ActiveInv
    <2>2. Imports!Level(m) \in Nat /\ Imports!Level(Len(stack)) \in Nat
          /\ Imports!Level(m) <= Imports!Level(Len(stack))
      <3>1. StackInv /\ m \in 1 .. Len(stack) /\ Len(stack) \in 1 .. Len(stack)
        BY StackIs DEF Expanding, Contracts, Trimmed
      <3>2. m = Len(stack) \/ m < Len(stack)
        BY <3>1, StackIs
      <3> QED
        BY <3>1, <3>2, StackIs DEF StackInv, Ordered
    <2>3. ASSUME NEW s \in Imports!ToSet(active') PROVE s \in Imports!ToSet(active)
      <3>1. PICK j \in 1 .. Len(active') : s = active'[j]
        BY <2>1, ElementsOf
      <3>2. j \in 1 .. Len(active) /\ s = active[j]
        BY <2>1, <2>2, <3>1
      <3> QED
        BY <2>1, <3>2, ElementsOf
    <2> QED
      BY <2>3
  <1>3. \A s \in Imports!ToSet(active) \ Imports!ToSet(active') :
           Imports!AllImports[s] \subseteq Imports!ToSet(used) /\ (Direct => Acyclic(s))
    BY <1>1 DEF Leaves
  <1> QED
    BY <1>1, <1>2, <1>3, WorldStays DEF UsedInv

LEMMA ActiveContract ==
  ASSUME Expanding, NEW m, Contracts(m)
  PROVE  ActiveInv'
  <1>1. /\ Trimmed(m) /\ StackInv /\ world' = world /\ Leaves(m) /\ ActiveInv
        /\ m \in 1 .. Len(stack) /\ Len(stack') = m /\ m \in Nat \ {0} /\ Len(stack) \in Nat
        /\ \A i \in 1 .. m : stack'[i].file = stack[i].file
    <2>1. /\ Trimmed(m) /\ StackInv /\ world' = world /\ Leaves(m) /\ ActiveInv
          /\ m \in 1 .. Len(stack) /\ Len(stack') = m /\ m \in Nat \ {0} /\ Len(stack) \in Nat
          /\ \A i \in 1 .. m - 1 : stack'[i] = stack[i]
          /\ stack'[m].file = stack[m].file
      BY StackIs DEF Expanding, Contracts, Trimmed
    <2>2. \A i \in 1 .. m : i \in 1 .. m - 1 \/ i = m
      BY <2>1
    <2> QED
      BY <2>1, <2>2
  <1>2. /\ active' \in Seq(Imports!Sources) /\ active \in Seq(Imports!Sources)
        /\ Len(active') = Imports!Level(m) /\ Len(active) = Imports!Level(Len(stack))
        /\ \A j \in 1 .. Imports!Level(m) : active'[j] = active[j]
        /\ edges' \in Seq(Imports!Sources \X Imports!Sources) /\ Len(edges') + 1 = Len(active')
        /\ \A j \in 1 .. Len(edges') : edges'[j] = edges[j]
        /\ Len(edges) + 1 = Len(active) /\ Len(edges) \in Nat /\ Len(edges') \in Nat
    BY <1>1 DEF Leaves, ActiveInv
  <1>3. \A i \in 1 .. m : Imports!Level(i) \in Nat \ {0} /\ Imports!Level(i) <= Imports!Level(m)
    <2>1. \A i \in 1 .. m : (i = m \/ i < m) /\ i \in 1 .. Len(stack)
      BY <1>1
    <2>2. \A i \in 1 .. m : Imports!Level(i) \in 1 .. i
      BY <1>1, <2>1, StackIs
    <2> QED
      BY <1>1, <2>1, <2>2 DEF StackInv, Ordered
  <1>4. Imports!Level(m) <= Imports!Level(Len(stack))
    <2>1. Len(stack) \in 1 .. Len(stack) /\ (m = Len(stack) \/ m < Len(stack))
      BY <1>1
    <2> QED
      BY <1>1, <1>3, <2>1 DEF StackInv, Ordered
  <1>5. Imports!IsInjective(active')
    <2>1. \A i, j \in 1 .. Len(active) : active[i] = active[j] => i = j
      BY <1>1, <1>2, InjectiveIs DEF ActiveInv
    <2>2. m \in 1 .. m /\ Len(stack) \in 1 .. Len(stack)
      BY <1>1
    <2>3. Imports!Level(m) \in Nat /\ Imports!Level(Len(stack)) \in Nat
      BY <1>1, <1>3, <2>2, StackIs
    <2>4. \A i \in 1 .. Len(active') : i \in 1 .. Len(active) /\ active'[i] = active[i]
      BY <1>2, <1>4, <2>3
    <2>5. \A i, j \in 1 .. Len(active') : active'[i] = active'[j] => i = j
      BY <2>1, <2>4
    <2> QED
      BY <1>2, <2>5, InjectiveIs
  <1>6. \A i \in 1 .. m : Imports!Level(i)' = Imports!Level(i)
    BY <1>1, TrimmedStays DEF Placed
  <1>7. \A i \in 1 .. m : active'[Imports!Level(i)] = stack'[i].file
    <2> TAKE i \in 1 .. m
    <2>1. active[Imports!Level(i)] = stack[i].file /\ stack'[i].file = stack[i].file
      BY <1>1 DEF ActiveInv
    <2>2. Imports!Level(i) \in 1 .. Imports!Level(m)
      <3>1. m \in 1 .. m
        BY <1>1
      <3> QED
        BY <1>3, <3>1
    <2> QED
      BY <1>2, <2>1, <2>2
  <1>8. ASSUME NEW i \in 1 .. Len(edges')
        PROVE  edges'[i] = <<active'[i], active'[i + 1]>> /\ active'[i + 1] \in Imports!AllImports[active'[i]]
    <2>1. i \in 1 .. Len(edges) /\ i \in 1 .. Imports!Level(m) /\ i + 1 \in 1 .. Imports!Level(m)
      <3>1. m \in 1 .. m /\ Imports!Level(m) \in Nat /\ Len(stack) \in 1 .. Len(stack)
        BY <1>1, <1>3
      <3>2. Imports!Level(Len(stack)) \in Nat
        BY <1>1, <3>1, StackIs
      <3> QED
        BY <1>2, <1>4, <3>1, <3>2
    <2>2. edges[i] = <<active[i], active[i + 1]>> /\ active[i + 1] \in Imports!AllImports[active[i]]
      BY <1>1, <2>1 DEF ActiveInv
    <2> QED
      BY <1>2, <2>1, <2>2
  <1>9. Len(active') = Imports!Level(Len(stack))'
    <2>1. Imports!Level(m)' = Imports!Level(m)
      BY <1>1, <1>6
    <2> QED
      BY <1>1, <1>2, <2>1 DEF Imports!Level
  <1> QED
    BY <1>1, <1>2, <1>5, <1>6, <1>7, <1>8, <1>9, WorldStays DEF ActiveInv

LEMMA Contracted ==
  ASSUME world \in Worlds, Expanding, NEW m, Contracts(m), CacheInv'
  PROVE  Expanding'
  <1>1. StackInv'
    BY TrimmedStays DEF Expanding, Contracts
  <1> QED
    BY <1>1, FramesContract, DisjointContract, ScopesContract, UsedContract, ActiveContract DEF Expanding

-----------------------------------------------------------------------------
(* The definition that a step treats, and what its reading asks for.           *)
LEMMA TopIs ==
  ASSUME Expanding, NEW n, n = Len(stack)
  PROVE  /\ n \in Nat \ {0} /\ n \in 1 .. n /\ Imports!Top = stack[n] /\ stack[n] \in Frames
         /\ Imports!Item = Head(stack[n].rest)
         /\ Imports!Final(stack[n].file) = stack[n].file
         /\ Len(active) \in 1 .. Len(active) /\ active[Len(active)] = stack[n].file
         /\ \A i \in 1 .. n : stack[i].file \in Imports!ToSet(active)
         /\ Imports!Entry \in Imports!ToSet(active)
         /\ Len(scopes) = Index(n) /\ Index(n) \in 1 .. n /\ Imports!Last(scopes) = ScopeOf(n)
         /\ scopes \in Seq(SUBSET Imports!Sources) /\ scopes # <<>>
         /\ Expands(stack[n], ListOf(n), ScopeOf(n), Imports!ToSet(used))
         /\ Imports!ToSet(active) \subseteq Imports!ToSet(used)
         /\ \A s \in Imports!ToSet(used) : s \in Imports!Sources /\ Imports!Final(s) = s
  <1>1. StackInv /\ FramesInv /\ ScopesInv /\ ActiveInv /\ UsedInv
    BY DEF Expanding
  <1>2. /\ n \in Nat \ {0} /\ n \in 1 .. n /\ Imports!Top = stack[n] /\ stack[n] \in Frames
        /\ stack \in Seq(Frames)
    BY <1>1, StackIs
  <1>3. FrameAt(n) /\ Index(n) \in 1 .. n /\ Imports!Level(n) \in 1 .. n
    BY <1>1, <1>2, StackIs DEF StackInv
  <1>4. active \in Seq(Imports!Sources) /\ Len(active) = Imports!Level(n)
        /\ \A i \in 1 .. n : active[Imports!Level(i)] = stack[i].file
    BY <1>1 DEF ActiveInv
  <1>5. \A i \in 1 .. n : stack[i].file \in Imports!ToSet(active)
    <2> TAKE i \in 1 .. n
    <2>1. Imports!Level(i) \in 1 .. i /\ (i = n \/ i < n)
      BY <1>1, <1>2, StackIs
    <2>2. Imports!Level(i) <= Imports!Level(n)
      BY <1>1, <1>2, <1>3, <2>1 DEF StackInv, Ordered
    <2>3. Imports!Level(i) \in 1 .. Len(active)
      BY <1>3, <1>4, <2>1, <2>2
    <2> QED
      BY <1>4, <2>3, ElementsOf
  <1>6. Imports!Entry \in Imports!ToSet(active)
    <2>1. 1 \in 1 .. n /\ stack[1].file = Imports!Entry
      BY <1>1, <1>2 DEF StackInv
    <2> QED
      BY <1>5, <2>1
  <1>7. /\ scopes \in Seq(SUBSET Imports!Sources) /\ Len(scopes) = Index(n) /\ scopes # <<>>
        /\ Imports!Last(scopes) = ScopeOf(n)
    <2>1. scopes \in Seq(SUBSET Imports!Sources) /\ Len(scopes) = Index(n)
      BY <1>1 DEF ScopesInv
    <2>2. scopes # <<>>
      BY <1>3, <2>1
    <2> QED
      BY <2>1, <2>2, FrontIs DEF ScopeOf
  <1>8. Expands(stack[n], ListOf(n), ScopeOf(n), Imports!ToSet(used))
    BY <1>1, <1>2 DEF FramesInv
  <1>9. /\ Imports!ToSet(active) \subseteq Imports!ToSet(used)
        /\ \A s \in Imports!ToSet(used) : s \in Imports!Sources /\ Imports!Final(s) = s
    <2>1. Imports!ToSet(used) \subseteq Imports!Sources
      BY <1>1, ElementsOf DEF UsedInv
    <2> QED
      BY <1>1, <2>1 DEF UsedInv
  <1>10. Len(active) \in 1 .. Len(active) /\ active[Len(active)] = stack[n].file
    BY <1>2, <1>3, <1>4
  <1> QED
    BY <1>2, <1>3, <1>5, <1>6, <1>7, <1>8, <1>9, <1>10 DEF FrameAt, Imports!Item

LEMMA ItemIs ==
  ASSUME world \in Worlds, Expanding, NEW n, n = Len(stack), stack[n].rest # <<>>
  PROVE  LET d == Imports!Item IN
         /\ d \in Imports!Definitions(Imports!Sources) /\ d \in Imports!ToSet(ListOf(n))
         /\ d.kind # "import" => stack[n].kind # "local"
         /\ d.kind = "import" /\ d.to # Nowhere =>
               /\ d.to \in Imports!Sources
               /\ Imports!Final(d.to) \in Imports!AllImports[stack[n].file]
               /\ Imports!Final(d.to) \in Imports!Imported(ListOf(n))
  <1> DEFINE d == Imports!Item
  <1>1. /\ n \in 1 .. n /\ n \in Nat \ {0} /\ d = Head(stack[n].rest) /\ stack[n] \in Frames
        /\ Expands(stack[n], ListOf(n), ScopeOf(n), Imports!ToSet(used)) /\ StackInv
    BY TopIs DEF Expanding
  <1>2. /\ d \in Imports!Definitions(Imports!Sources) /\ d \in Imports!ToSet(stack[n].rest)
    <2>1. stack[n].rest \in Seq(Imports!Definitions(Imports!Sources))
      BY <1>1 DEF Frames
    <2> QED
      BY <1>1, <2>1, HeadIs
  <1>3. d \in Imports!ToSet(ListOf(n))
    BY <1>1, <1>2 DEF Expands
  <1>4. /\ ListOf(n) \in Seq(Imports!Definitions(Imports!Sources))
        /\ stack[n].kind # "local" => ListOf(n) = world.content[stack[n].file]
        /\ stack[n].kind = "local" =>
              /\ ListOf(n) \in Seq(Imports!Directives(Imports!Sources))
              /\ n \in 2 .. n /\ stack[n - 1].kind # "local"
              /\ stack[n].file = stack[n - 1].file /\ stack[n - 1].rest # <<>>
              /\ Head(stack[n - 1].rest).kind = "local"
              /\ ListOf(n) = Head(stack[n - 1].rest).defs
    BY <1>1, ListIs
  <1>5. d.kind # "import" => stack[n].kind # "local"
    <2> SUFFICES ASSUME stack[n].kind = "local" PROVE d.kind = "import"
      OBVIOUS
    <2>1. d \in Imports!Directives(Imports!Sources)
      <3> HIDE DEF d
      <3> QED
        BY <1>3, <1>4, ElementsOf
    <2> QED
      BY <2>1, DirectiveIs
  <1>6. ASSUME d.kind = "import", d.to # Nowhere
        PROVE  /\ d.to \in Imports!Sources
               /\ Imports!Final(d.to) \in Imports!Imported(ListOf(n))
    BY <1>2, <1>3, <1>6, DefinitionIs, ImportedHas
  <1>7. Imports!Imported(ListOf(n)) \subseteq Imports!AllImports[stack[n].file]
    <2>1. stack[n].file \in Imports!Sources
      BY <1>1 DEF Frames
    <2>2. CASE stack[n].kind # "local"
      BY <1>4, <2>1, <2>2, ImportsAre
    <2>3. CASE stack[n].kind = "local"
      <3>1. /\ n - 1 \in 1 .. Len(stack) /\ stack[n - 1] \in Frames
            /\ Expands(stack[n - 1], ListOf(n - 1), ScopeOf(n - 1), Imports!ToSet(used))
        <4>1. PICK p : p = n - 1
          OBVIOUS
        <4>2. p \in 1 .. Len(stack)
          BY <1>1, <1>4, <2>3, <4>1
        <4>3. stack[p] \in Frames
          BY <1>1, <4>2, StackIs
        <4>4. Expands(stack[p], ListOf(p), ScopeOf(p), Imports!ToSet(used))
          BY <4>2 DEF Expanding, FramesInv
        <4> QED
          BY <4>1, <4>2, <4>3, <4>4
      <3>2. stack[n - 1].rest \in Seq(Imports!Definitions(Imports!Sources)) /\ stack[n - 1].rest # <<>>
        BY <1>4, <2>3, <3>1 DEF Frames
      <3>3. PICK e : e = Head(stack[n - 1].rest)
        OBVIOUS
      <3>4. e \in Imports!ToSet(stack[n - 1].rest)
        BY <3>2, <3>3, HeadIs
      <3>5. e \in Imports!ToSet(ListOf(n - 1))
        BY <3>1, <3>4 DEF Expands
      <3>6. ListOf(n - 1) = world.content[stack[n].file]
        BY <1>1, <1>4, <2>3, <3>1, ListIs
      <3> QED
        BY <1>4, <2>1, <2>3, <3>3, <3>5, <3>6, ImportsAre
    <2> QED
      BY <2>2, <2>3
  <1> QED
    BY <1>2, <1>3, <1>5, <1>6, <1>7

LEMMA TopIsCached ==
  ASSUME world \in Worlds, Expanding, fetched \in Seq(Urls)
  PROVE  /\ fetched \o Imports!Asked(Imports!Top.file) = fetched
         /\ cached \cup Imports!CacheEntries(Imports!Top.file) = cached
  <1>1. PICK n : n = Len(stack)
    OBVIOUS
  <1>2. n \in 1 .. n /\ Imports!Top = stack[n] /\ Imports!Final(stack[n].file) = stack[n].file
    BY <1>1, TopIs
  <1>3. stack[n].file \in Urls => stack[n].file \in cached
    BY <1>1, <1>2 DEF Expanding, CacheInv
  <1>4. Imports!Asked(Imports!Top.file) = <<>>
    BY <1>2, <1>3 DEF Imports!Asked
  <1>5. Imports!CacheEntries(Imports!Top.file) \subseteq cached
    BY <1>2, <1>3 DEF Imports!CacheEntries
  <1>6. fetched \o <<>> = fetched
    OBVIOUS
  <1> QED
    BY <1>4, <1>5, <1>6

LEMMA ReadIs ==
  ASSUME world \in Worlds, Expanding, fetched \in Seq(Urls), Imports!Reads
  PROVE  /\ fetched' = fetched \o Imports!Asked(Imports!Item.to)
         /\ Imports!Item.to \in Imports!Sources /\ world' = world
  <1>1. PICK n : n = Len(stack)
    OBVIOUS
  <1>2. n \in 1 .. n /\ Imports!Top = stack[n] /\ stack[n].file \in Imports!ToSet(active)
    BY <1>1, TopIs
  <1>3. /\ stack[n].rest # <<>> /\ Imports!Item.kind = "import" /\ Imports!Item.to # Nowhere
        /\ Imports!Item.to \notin Imports!ToSet(active) /\ world' = world
        /\ fetched' = fetched \o Imports!Asked(Imports!Top.file)
              \o IF Imports!Item.to = Imports!Top.file THEN <<>> ELSE Imports!Asked(Imports!Item.to)
    BY <1>2 DEF Imports!Reads, Imports!Resolved, Imports!At, Imports!IsActive
  <1>4. Imports!Item.to # Imports!Top.file
    BY <1>2, <1>3
  <1>5. fetched \o Imports!Asked(Imports!Top.file) = fetched
    BY TopIsCached
  <1>6. Imports!Item.to \in Imports!Sources
    BY <1>1, <1>3, ItemIs
  <1> QED
    BY <1>3, <1>4, <1>5, <1>6, Zenon

-----------------------------------------------------------------------------
(* What has been asked for and what has answered is in the reader's cache.     *)
Answered ==
    /\ cached \subseteq Urls /\ \A l \in cached : l \in Imports!Sources /\ Imports!Final(l) \in cached
    /\ \A i \in 1 .. Len(fetched) : fetched[i] \in cached

LEMMA AskedOnce ==
  ASSUME world' = world, Answered, fetched \in Seq(Urls), Imports!FetchedOnce,
         NEW l, fetched' = fetched \o Imports!Asked(l)
  PROVE  fetched' \in Seq(Urls) /\ Imports!FetchedOnce'
  <1>1. CASE l \in Urls \ cached
    <2>1. fetched' = Append(fetched, l)
      BY <1>1 DEF Imports!Asked
    <2>2. Len(fetched') = Len(fetched) + 1 /\ fetched'[Len(fetched) + 1] = l /\ Len(fetched) \in Nat
          /\ (\A i \in 1 .. Len(fetched) : fetched'[i] = fetched[i]) /\ fetched' \in Seq(Urls)
      BY <1>1, <2>1
    <2>3. ASSUME NEW i \in 1 .. Len(fetched'), NEW j \in 1 .. Len(fetched'), i < j
          PROVE  fetched'[j] \notin {fetched'[i], Imports!Final(fetched'[i])}
      <3>1. i \in 1 .. Len(fetched) /\ fetched'[i] = fetched[i]
        BY <2>2, <2>3
      <3>2. CASE j \in 1 .. Len(fetched)
        BY <2>2, <2>3, <3>1, <3>2 DEF Imports!FetchedOnce
      <3>3. CASE j = Len(fetched) + 1
        BY <1>1, <2>2, <3>1, <3>3 DEF Answered
      <3> QED
        BY <2>2, <3>2, <3>3
    <2>4. \A k : Imports!Final(k)' = Imports!Final(k)
      BY WorldStays
    <2>5. Imports!FetchedOnce'
      BY <2>3, <2>4 DEF Imports!FetchedOnce
    <2> QED
      BY <2>2, <2>5
  <1>2. CASE l \notin Urls \ cached
    <2>1. fetched' = fetched
      BY <1>2 DEF Imports!Asked
    <2>2. Imports!FetchedOnce'
      BY <2>1, WorldStays DEF Imports!FetchedOnce
    <2> QED
      BY <2>1, <2>2
  <1> QED
    BY <1>1, <1>2

LEMMA CacheGrows ==
  ASSUME world \in Worlds, world' = world, Answered, fetched \in Seq(Urls), Imports!FetchedOnce,
         NEW l \in Imports!Sources,
         cached' = cached \cup Imports!CacheEntries(l), fetched' = fetched \o Imports!Asked(l)
  PROVE  Answered' /\ fetched' \in Seq(Urls) /\ Imports!FetchedOnce'
  <1>1. Locator(l)
    BY WorldIs
  <1>2. Answered'
    <2>1. /\ cached' \subseteq Urls
          /\ \A k \in cached' : k \in Imports!Sources /\ Imports!Final(k) \in cached'
      BY <1>1 DEF Answered, Imports!CacheEntries, Locator
    <2>2. \A i \in 1 .. Len(fetched') : fetched'[i] \in cached'
      <3>1. CASE l \in Urls \ cached
        <4>1. fetched' = Append(fetched, l)
          BY <3>1 DEF Imports!Asked
        <4>2. Len(fetched') = Len(fetched) + 1 /\ fetched'[Len(fetched) + 1] = l /\ Len(fetched) \in Nat
              /\ \A i \in 1 .. Len(fetched) : fetched'[i] = fetched[i]
          BY <3>1, <4>1
        <4>3. l \in cached'
          BY <3>1 DEF Imports!CacheEntries
        <4>4. \A i \in 1 .. Len(fetched') : i \in 1 .. Len(fetched) \/ i = Len(fetched) + 1
          BY <4>2
        <4> QED
          BY <4>2, <4>3, <4>4 DEF Answered
      <3>2. CASE l \notin Urls \ cached
        <4>1. fetched' = fetched
          BY <3>2 DEF Imports!Asked
        <4> QED
          BY <4>1 DEF Answered
      <3> QED
        BY <3>1, <3>2
    <2> QED
      BY <2>1, <2>2, WorldStays DEF Answered
  <1> QED
    BY <1>2, AskedOnce

LEMMA CacheRests ==
  ASSUME world' = world, Answered, Imports!FetchedOnce, cached' = cached, fetched' = fetched
  PROVE  Answered' /\ Imports!FetchedOnce'
  BY WorldStays DEF Answered, Imports!FetchedOnce

(* The files of the frames stay cached.                                        *)
LEMMA FilesContract ==
  ASSUME Expanding, NEW m, Trimmed(m), Answered', cached \subseteq cached'
  PROVE  CacheInv'
  <1>1. /\ m \in 1 .. Len(stack) /\ Len(stack') = m /\ m \in Nat /\ Len(stack) \in Nat
        /\ \A i \in 1 .. m - 1 : stack'[i] = stack[i]
        /\ stack'[m].file = stack[m].file
    BY StackIs DEF Trimmed, Expanding
  <1>2. \A i \in 1 .. m : i \in 1 .. Len(stack) /\ stack'[i].file = stack[i].file
    <2>1. \A i \in 1 .. m : i = m \/ i \in 1 .. m - 1
      BY <1>1
    <2> QED
      BY <1>1, <2>1
  <1>3. \A i \in 1 .. Len(stack) : stack[i].file \in Urls => stack[i].file \in cached
    BY DEF Expanding, CacheInv
  <1>4. \A i \in 1 .. Len(stack') : stack'[i].file \in Urls => stack'[i].file \in cached'
    BY <1>1, <1>2, <1>3
  <1> QED
    BY <1>4 DEF CacheInv, Answered

-----------------------------------------------------------------------------
(* The steps that treat a definition without leaving or entering a list.       *)
LEMMA ExpandsOwn ==
  ASSUME NEW f \in Frames, NEW list, NEW scope, NEW seen, Expands(f, list, scope, seen),
         f.kind # "local", f.rest # <<>>, Head(f.rest) = Imports!Own, NEW g \in Frames,
         g.file = f.file, g.kind = f.kind, g.rest = Tail(f.rest), g.out = Append(f.out, f.file)
  PROVE  Expands(g, list, scope, seen) /\ Emits(g) = Emits(f)
  <1>1. PICK r \in Seq(Imports!Definitions(Imports!Sources)) :
           r = f.rest /\ r # <<>> /\ Head(r) = Imports!Own /\ g.rest = Tail(r)
    BY DEF Frames
  <1>2. PICK o \in Seq(Imports!Sources) : o = f.out /\ g.out = Append(o, f.file) /\ f.file \in Imports!Sources
    BY DEF Frames
  <1>3. /\ Head(r) \in Imports!ToSet(r) /\ Head(r) = r[1]
        /\ Imports!ToSet(Tail(r)) \subseteq Imports!ToSet(r)
        /\ Imports!ToSet(r) \subseteq {Head(r)} \cup Imports!ToSet(Tail(r))
        /\ \A i \in 1 .. Len(r) - 1 : Tail(r)[i] = r[i + 1]
        /\ Tail(r) \in Seq(Imports!Definitions(Imports!Sources)) /\ Len(Tail(r)) = Len(r) - 1
        /\ Len(r) \in Nat \ {0}
    BY <1>1, HeadIs
  <1>4. Imports!ToSet(g.out) = Imports!ToSet(o) \cup {f.file}
    BY <1>2, AppendHas
  <1>5. f.file \notin Imports!ToSet(o)
    BY <1>1, <1>2, <1>3 DEF Expands
  <1>6. Imports!IsInjective(g.out)
    BY <1>2, <1>5, AppendedOnce DEF Expands
  <1>7. Emits(g) = Emits(f) /\ Start(g, list) = Start(f, list)
    BY <1>2, <1>4 DEF Emits, Start
  <1>8. /\ Imports!ToSet(Tail(r)) \subseteq Imports!ToSet(list)
        /\ \A d \in Imports!ToSet(list) : d \in Imports!ToSet(Tail(r)) \/ Treated(d, scope, seen)
    <2>1. Treated(Imports!Own, scope, seen)
      BY DEF Treated, Imports!Own
    <2> QED
      BY <1>1, <1>3, <2>1 DEF Expands
  <1>9. \A i \in DOMAIN Tail(r) : Tail(r)[i] # Imports!Own
    <2>1. \A i, j \in 1 .. Len(r) : r[i] = Imports!Own /\ r[j] = Imports!Own => i = j
      BY <1>1 DEF Expands
    <2>2. \A i \in DOMAIN Tail(r) :
             i \in Nat \ {0} /\ i + 1 \in 1 .. Len(r) /\ Tail(r)[i] = r[i + 1] /\ i + 1 # 1
      BY <1>3
    <2>3. 1 \in 1 .. Len(r) /\ r[1] = Imports!Own
      BY <1>1, <1>3
    <2> QED
      BY <2>1, <2>2, <2>3
  <1>10. Imports!Own \notin Imports!ToSet(Tail(r))
    <2>1. PICK t \in Seq(Imports!Definitions(Imports!Sources)) : t = Tail(r)
      BY <1>3
    <2>2. \A i \in 1 .. Len(t) : t[i] # Imports!Own
      BY <1>9, <2>1
    <2>3. Imports!Own \notin Imports!ToSet(t)
      BY <2>2, ElementsOf
    <2> QED
      BY <2>1, <2>3
  <1>11. \A i, j \in DOMAIN g.rest : g.rest[i] = Imports!Own /\ g.rest[j] = Imports!Own => i = j
    BY <1>1, <1>9
  <1>12. Imports!Own \in Imports!ToSet(g.rest) <=> g.file \notin Imports!ToSet(g.out)
    BY <1>1, <1>4, <1>10
  <1>13. /\ Imports!ToSet(g.rest) \subseteq Imports!ToSet(list)
         /\ \A d \in Imports!ToSet(list) : d \in Imports!ToSet(g.rest) \/ Treated(d, scope, seen)
    BY <1>1, <1>8
  <1>14. /\ \A s \in Emits(g) : s \in scope \/ (s = Imports!Entry /\ g.kind = "entry")
         /\ Emits(g) \subseteq Imports!Closure(Start(g, list), Imports!TopImports)
    BY <1>7 DEF Expands
  <1> QED
    BY <1>6, <1>7, <1>11, <1>12, <1>13, <1>14, Zenon DEF Expands

LEMMA Advances ==
  ASSUME Expanding, NEW n, n = Len(stack), NEW g \in Frames,
         world' = world, stack' = Imports!OnTop(g), used' = used, active' = active, edges' = edges,
         g.file = stack[n].file, g.kind = stack[n].kind, Emits(g) = Emits(stack[n]),
         ScopesGrow(n), Expands(g, ListOf(n), scopes'[Index(n)], Imports!ToSet(used))
  PROVE  Contracts(n)
  <1>1. n \in Nat \ {0} /\ n \in 1 .. n /\ stack \in Seq(Frames) /\ stack # <<>>
    BY TopIs, StackIs DEF Expanding
  <1>2. /\ stack' \in Seq(Frames) /\ Len(stack') = n /\ stack'[n] = g
        /\ \A i \in 1 .. n - 1 : stack'[i] = stack[i]
    <2>1. stack' = Append(Imports!Front(stack), g)
      BY DEF Imports!OnTop
    <2>2. Replaces(Frames, stack, g, stack')
      BY <1>1, <2>1, ReplacedTop
    <2> QED
      BY <2>2 DEF Replaces
  <1>3. Trimmed(n)
    BY <1>1, <1>2 DEF Trimmed
  <1>4. Gathers(n)
    <2>1. \A i \in n .. Len(stack) : i = n
      BY <1>1
    <2>2. n \in n .. Len(stack)
      BY <1>1
    <2> QED
      BY <1>2, <2>1, <2>2 DEF Gathers
  <1>5. Settled(n)
    <2>1. n + 1 .. Len(stack) = {}
      BY <1>1
    <2> QED
      BY <2>1 DEF Settled
  <1>6. Leaves(n)
    BY DEF Leaves, Expanding, ActiveInv
  <1> QED
    BY <1>2, <1>3, <1>4, <1>5, <1>6 DEF Contracts

LEMMA ScopesRest ==
  ASSUME Expanding, NEW n, n = Len(stack), scopes' = scopes
  PROVE  ScopesGrow(n)
  BY TopIs DEF ScopesGrow

LEMMA KeepExpands ==
  ASSUME world \in Worlds, Expanding, Imports!FetchedOnce, Imports!Keep
  PROVE  Expanding' /\ Imports!FetchedOnce'
  <1>1. PICK n : n = Len(stack)
    OBVIOUS
  <1>2. /\ stack[n] \in Frames /\ Imports!Top = stack[n] /\ Imports!Item = Head(stack[n].rest)
        /\ Expands(stack[n], ListOf(n), ScopeOf(n), Imports!ToSet(used))
    BY <1>1, TopIs
  <1>3. /\ stack[n].rest # <<>> /\ Imports!Item.kind = "own"
        /\ stack' = Imports!OnTop([Imports!Advanced EXCEPT !.out = Append(@, stack[n].file)])
        /\ world' = world /\ scopes' = scopes /\ active' = active /\ edges' = edges
        /\ used' = used /\ cached' = cached /\ fetched' = fetched
    BY <1>2 DEF Imports!Keep, Imports!At
  <1>4. Imports!Item = Imports!Own /\ stack[n].kind # "local"
    BY <1>1, <1>3, ItemIs, DefinitionIs
  <1>5. PICK g : g = [Imports!Advanced EXCEPT !.out = Append(@, stack[n].file)]
    OBVIOUS
  <1>6. /\ g \in Frames /\ g.file = stack[n].file /\ g.kind = stack[n].kind
        /\ g.rest = Tail(stack[n].rest) /\ g.out = Append(stack[n].out, stack[n].file)
    <2>1. PICK r \in Seq(Imports!Definitions(Imports!Sources)) : r = stack[n].rest /\ r # <<>>
      BY <1>2, <1>3 DEF Frames
    <2>2. PICK o \in Seq(Imports!Sources) : o = stack[n].out /\ stack[n].file \in Imports!Sources
      BY <1>2 DEF Frames
    <2>3. PICK h : h = Imports!Advanced
      OBVIOUS
    <2>4. h = [stack[n] EXCEPT !.rest = Tail(@)]
      BY <1>2, <2>3 DEF Imports!Advanced
    <2>5. h = [file |-> stack[n].file, kind |-> stack[n].kind, rest |-> Tail(r), out |-> o]
      BY <1>2, <2>1, <2>2, <2>4 DEF Frames
    <2>6. g = [h EXCEPT !.out = Append(@, stack[n].file)]
      BY <1>5, <2>3
    <2>7. g = [file |-> stack[n].file, kind |-> stack[n].kind, rest |-> Tail(r),
               out |-> Append(o, stack[n].file)]
      BY <2>5, <2>6
    <2>8. Tail(r) \in Seq(Imports!Definitions(Imports!Sources))
      BY <2>1, HeadIs
    <2>9. Append(o, stack[n].file) \in Seq(Imports!Sources)
      BY <2>2
    <2> QED
      BY <1>2, <2>1, <2>2, <2>7, <2>8, <2>9 DEF Frames
  <1>7. Expands(g, ListOf(n), scopes'[Index(n)], Imports!ToSet(used)) /\ Emits(g) = Emits(stack[n])
    BY <1>2, <1>3, <1>4, <1>6, ExpandsOwn DEF ScopeOf
  <1>8. Contracts(n)
    BY <1>1, <1>3, <1>5, <1>6, <1>7, Advances, ScopesRest
  <1>9. Answered' /\ Imports!FetchedOnce'
    BY <1>3, CacheRests DEF Expanding, CacheInv, Answered
  <1>10. CacheInv'
    BY <1>3, <1>8, <1>9, FilesContract DEF Contracts
  <1> QED
    BY <1>8, <1>9, <1>10, Contracted

LEMMA AdvancedIs ==
  ASSUME NEW f \in Frames, f.rest # <<>>, NEW g, g = [f EXCEPT !.rest = Tail(@)]
  PROVE  g \in Frames /\ g.file = f.file /\ g.kind = f.kind /\ g.out = f.out /\ g.rest = Tail(f.rest)
  <1>1. PICK r \in Seq(Imports!Definitions(Imports!Sources)) : r = f.rest /\ r # <<>>
    BY DEF Frames
  <1>2. Tail(r) \in Seq(Imports!Definitions(Imports!Sources))
    BY <1>1, HeadIs
  <1>3. g = [file |-> f.file, kind |-> f.kind, rest |-> Tail(r), out |-> f.out]
    BY <1>1 DEF Frames
  <1> QED
    BY <1>1, <1>2, <1>3 DEF Frames

LEMMA TreatedImport ==
  ASSUME world \in Worlds, Expanding, NEW n, n = Len(stack), stack[n].rest # <<>>,
         Imports!Item.kind = "import", Imports!Item.to # Nowhere,
         Imports!Item.to \notin Imports!ToSet(active), Imports!Final(Imports!Item.to) \in ScopeOf(n)
  PROVE  Treated(Imports!Item, ScopeOf(n), Imports!ToSet(used)) /\ Imports!Item # Imports!Own
  <1>1. Imports!Item.to \in Imports!Sources
    BY ItemIs
  <1>2. ASSUME Direct PROVE Acyclic(Imports!Final(Imports!Item.to))
    <2>1. Imports!Final(Imports!Item.to) = Imports!Item.to
      BY <1>1, <1>2 DEF Direct
    <2>2. Index(n) \in 1 .. Len(scopes) /\ Imports!Item.to \in scopes[Index(n)]
      BY <2>1, TopIs DEF ScopeOf
    <2>3. Imports!Item.to \in Imports!ToSet(used)
      BY <2>1, <2>2 DEF Expanding, ScopesInv
    <2> QED
      BY <1>2, <2>1, <2>3 DEF Expanding, UsedInv
  <1>3. Imports!Item # Imports!Own
    BY DEF Imports!Own
  <1> QED
    BY <1>1, <1>2, <1>3 DEF Treated

(* A step that goes on after an import of a source that the scope has.         *)
LEMMA ImportIsKnown ==
  ASSUME world \in Worlds, Expanding, NEW n, n = Len(stack), Imports!Resolved,
         Imports!Final(Imports!Item.to) \in ScopeOf(n), ScopesGrow(n),
         world' = world, stack' = Imports!OnTop(Imports!Advanced),
         used' = used, active' = active, edges' = edges
  PROVE  Contracts(n)
  <1>1. /\ n \in 1 .. n /\ stack[n] \in Frames /\ Imports!Top = stack[n] /\ Imports!Item = Head(stack[n].rest)
        /\ Expands(stack[n], ListOf(n), ScopeOf(n), Imports!ToSet(used)) /\ Index(n) \in 1 .. n
    BY TopIs
  <1>2. /\ stack[n].rest # <<>> /\ Imports!Item.kind = "import" /\ Imports!Item.to # Nowhere
        /\ Imports!Item.to \notin Imports!ToSet(active)
    BY <1>1 DEF Imports!Resolved, Imports!At, Imports!IsActive
  <1>3. Treated(Imports!Item, ScopeOf(n), Imports!ToSet(used)) /\ Imports!Item # Imports!Own
    BY <1>2, TreatedImport
  <1>4. PICK g : g = [stack[n] EXCEPT !.rest = Tail(@)]
    OBVIOUS
  <1>5. /\ g \in Frames /\ g.file = stack[n].file /\ g.kind = stack[n].kind
        /\ g.out = stack[n].out /\ g.rest = Tail(stack[n].rest)
    <2>1. stack[n] \in Frames /\ stack[n].rest # <<>>
      BY <1>1, <1>2
    <2> QED
      BY ONLY <1>4, <2>1, AdvancedIs, Zenon
  <1>6. Imports!Advanced = g
    BY <1>1, <1>4 DEF Imports!Advanced
  <1>7. Expands(g, ListOf(n), ScopeOf(n), Imports!ToSet(used)) /\ Emits(g) = Emits(stack[n])
    BY <1>1, <1>2, <1>3, <1>5, ExpandsOn
  <1>8. ScopeOf(n) \subseteq scopes'[Index(n)]
    BY <1>1 DEF ScopesGrow, ScopeOf
  <1>9. Expands(g, ListOf(n), scopes'[Index(n)], Imports!ToSet(used))
    BY <1>7, <1>8, ExpandsGrows
  <1> QED
    BY <1>5, <1>6, <1>7, <1>9, Advances

LEMMA RepeatedExpands ==
  ASSUME world \in Worlds, Expanding, fetched \in Seq(Urls), Imports!FetchedOnce, Imports!Repeated
  PROVE  Expanding' /\ Imports!FetchedOnce' /\ fetched' = fetched
  <1>1. PICK n : n = Len(stack)
    OBVIOUS
  <1>2. /\ Imports!Resolved /\ Imports!Item.to \in Imports!Last(scopes)
        /\ stack' = Imports!OnTop(Imports!Advanced) /\ cached' = cached /\ fetched' = fetched
        /\ world' = world /\ scopes' = scopes /\ active' = active /\ edges' = edges /\ used' = used
    BY TopIsCached DEF Imports!Repeated
  <1>3. Imports!Final(Imports!Item.to) \in ScopeOf(n)
    <2>1. Index(n) \in 1 .. Len(scopes) /\ Imports!Item.to \in scopes[Index(n)]
      BY <1>1, <1>2, TopIs DEF ScopeOf
    <2> QED
      BY <2>1 DEF Expanding, ScopesInv, ScopeOf
  <1>4. Contracts(n)
    BY <1>1, <1>2, <1>3, ImportIsKnown, ScopesRest
  <1>5. Answered' /\ Imports!FetchedOnce'
    BY <1>2, CacheRests DEF Expanding, CacheInv, Answered
  <1>6. CacheInv'
    BY <1>2, <1>4, <1>5, FilesContract DEF Contracts
  <1> QED
    BY <1>2, <1>4, <1>5, <1>6, Contracted

(* What the steps that read a source ask for.                                  *)
LEMMA ReadsWellIs ==
  ASSUME world \in Worlds, Expanding, fetched \in Seq(Urls), Imports!FetchedOnce, Imports!ReadsWell,
         NEW n, n = Len(stack)
  PROVE  /\ Answered' /\ fetched' \in Seq(Urls) /\ Imports!FetchedOnce' /\ world' = world
         /\ cached' = cached \cup Imports!CacheEntries(Imports!Item.to)
         /\ Imports!Resolved /\ Imports!Item.to \in Imports!Sources
         /\ Imports!Item.to \notin Imports!Last(scopes) /\ stack[n].rest # <<>>
         /\ Imports!Item.kind = "import" /\ Imports!Item.to # Nowhere
         /\ Imports!Item.to \notin Imports!ToSet(active)
  <1>1. /\ Imports!Reads
        /\ cached' = cached \cup Imports!CacheEntries(Imports!Top.file)
                            \cup Imports!CacheEntries(Imports!Item.to)
    BY DEF Imports!ReadsWell
  <1>2. /\ fetched' = fetched \o Imports!Asked(Imports!Item.to)
        /\ Imports!Item.to \in Imports!Sources /\ world' = world
    BY <1>1, ReadIs
  <1>3. cached' = cached \cup Imports!CacheEntries(Imports!Item.to)
    BY <1>1, TopIsCached
  <1>4. Answered
    BY DEF Expanding, CacheInv, Answered
  <1>5. Answered' /\ fetched' \in Seq(Urls) /\ Imports!FetchedOnce'
    BY <1>2, <1>3, <1>4, CacheGrows
  <1>6. Imports!Top = stack[n]
    BY TopIs
  <1>7. /\ Imports!Resolved /\ Imports!Item.to \notin Imports!Last(scopes) /\ stack[n].rest # <<>>
        /\ Imports!Item.kind = "import" /\ Imports!Item.to # Nowhere
        /\ Imports!Item.to \notin Imports!ToSet(active)
    BY <1>1, <1>6 DEF Imports!Reads, Imports!Resolved, Imports!At, Imports!IsActive
  <1> QED
    BY <1>2, <1>3, <1>5, <1>7

LEMMA AliasExpands ==
  ASSUME world \in Worlds, Expanding, fetched \in Seq(Urls), Imports!FetchedOnce, Imports!Alias
  PROVE  Expanding' /\ Imports!FetchedOnce' /\ fetched' \in Seq(Urls)
  <1>1. PICK n : n = Len(stack)
    OBVIOUS
  <1> DEFINE l == Imports!Item.to
  <1>2. /\ Imports!ReadsWell /\ Imports!Final(l) # l /\ Imports!Final(l) \in Imports!Last(scopes)
        /\ scopes' = Append(Imports!Front(scopes), Imports!Last(scopes) \cup {l, Imports!Final(l)})
        /\ stack' = Imports!OnTop(Imports!Advanced)
        /\ active' = active /\ edges' = edges /\ used' = used
    BY DEF Imports!Alias, Imports!KnownUnderFinal, Imports!Reserved
  <1>3. /\ Answered' /\ fetched' \in Seq(Urls) /\ Imports!FetchedOnce' /\ world' = world
        /\ cached \subseteq cached' /\ Imports!Resolved /\ l \in Imports!Sources
        /\ l \notin Imports!Last(scopes)
    BY <1>1, <1>2, ReadsWellIs
  <1>4. /\ scopes \in Seq(SUBSET Imports!Sources) /\ scopes # <<>> /\ Len(scopes) = Index(n)
        /\ Imports!Last(scopes) = ScopeOf(n) /\ Index(n) \in 1 .. n /\ n \in Nat
    BY <1>1, TopIs
  <1>5. PICK x \in SUBSET Imports!Sources : x = Imports!Last(scopes) \cup {l, Imports!Final(l)}
    <2>1. Index(n) \in 1 .. Len(scopes)
      BY <1>4
    <2>2. Imports!Last(scopes) \subseteq Imports!Sources
      BY <1>4, <2>1 DEF ScopeOf
    <2>3. Imports!Final(l) \in Imports!Sources
      BY <1>3, WorldIs DEF Locator
    <2> QED
      BY <1>3, <2>2, <2>3
  <1>6. /\ scopes' \in Seq(SUBSET Imports!Sources) /\ Len(scopes') = Index(n) /\ scopes'[Index(n)] = x
        /\ \A k \in 1 .. Index(n) - 1 : scopes'[k] = scopes[k]
    <2>1. scopes' = Append(Imports!Front(scopes), x)
      BY <1>2, <1>5
    <2>2. Replaces(SUBSET Imports!Sources, scopes, x, scopes')
      BY <1>4, <2>1, ReplacedTop
    <2> QED
      BY <1>4, <2>2 DEF Replaces
  <1>7. ScopesGrow(n)
    <2>1. l # Imports!Entry
      BY <1>2, WorldIs
    <2>2. \A k \in 1 .. Index(n) : k = Index(n) \/ k \in 1 .. Index(n) - 1
      BY <1>4
    <2>3. x = scopes[Index(n)] \cup {l, Imports!Final(l)} /\ Imports!Final(l) \in scopes[Index(n)]
      BY <1>2, <1>4, <1>5 DEF ScopeOf
    <2> QED
      BY <1>2, <1>6, <2>1, <2>2, <2>3 DEF ScopesGrow
  <1>8. Contracts(n)
    BY <1>1, <1>2, <1>3, <1>4, <1>7, ImportIsKnown
  <1>9. CacheInv'
    BY <1>3, <1>8, FilesContract DEF Contracts
  <1> QED
    BY <1>3, <1>8, <1>9, Contracted

-----------------------------------------------------------------------------
(* A list that has come to its end.                                            *)
LEMMA DoneIs ==
  ASSUME world \in Worlds, Expanding, NEW n, n = Len(stack), stack[n].rest = <<>>
  PROVE  /\ \A s \in Imports!Imported(ListOf(n)) :
               /\ s \in ScopeOf(n) /\ s \in Imports!ToSet(used) /\ Imports!Final(s) = s
               /\ s \in Imports!Sources /\ (Direct => Acyclic(s))
         /\ stack[n].kind # "local" =>
               /\ stack[n].file \in Imports!ToSet(stack[n].out)
               /\ Imports!TopImports[stack[n].file] \subseteq ScopeOf(n)
               /\ Imports!AllImports[stack[n].file] \subseteq Imports!ToSet(used)
               /\ Direct => Acyclic(stack[n].file)
  <1>1. /\ n \in 1 .. n /\ n \in Nat \ {0} /\ stack[n] \in Frames /\ StackInv
        /\ Expands(stack[n], ListOf(n), ScopeOf(n), Imports!ToSet(used))
        /\ Index(n) \in 1 .. Len(scopes) /\ Imports!ToSet(stack[n].rest) = {}
    BY TopIs, EmptyHasNone DEF Expanding
  <1>2. \A d \in Imports!ToSet(ListOf(n)) : Treated(d, ScopeOf(n), Imports!ToSet(used))
    BY <1>1 DEF Expands
  <1>3. ListOf(n) \in Seq(Imports!Definitions(Imports!Sources))
    BY <1>1, ListIs
  <1>4. ASSUME NEW s \in Imports!Imported(ListOf(n))
        PROVE  /\ s \in ScopeOf(n) /\ s \in Imports!ToSet(used) /\ Imports!Final(s) = s
               /\ s \in Imports!Sources /\ (Direct => Acyclic(s))
    <2>1. PICK d \in Imports!ToSet(ListOf(n)) :
             d.kind = "import" /\ d.to # Nowhere /\ s = Imports!Final(d.to)
      BY ImportedFrom
    <2>2. s \in ScopeOf(n) /\ (Direct => Acyclic(s))
      BY <1>2, <2>1 DEF Treated
    <2>3. s \in Imports!Sources /\ Imports!Final(s) = s
      BY <1>3, ImportedIs
    <2>4. s \in Imports!ToSet(used)
      BY <1>1, <2>2, <2>3 DEF Expanding, ScopesInv, ScopeOf
    <2> QED
      BY <2>2, <2>3, <2>4
  <1>5. ASSUME stack[n].kind # "local"
        PROVE  /\ stack[n].file \in Imports!ToSet(stack[n].out)
               /\ Imports!TopImports[stack[n].file] \subseteq ScopeOf(n)
               /\ Imports!AllImports[stack[n].file] \subseteq Imports!ToSet(used)
               /\ Direct => Acyclic(stack[n].file)
    <2>1. stack[n].file \in Imports!ToSet(stack[n].out)
      BY <1>1, <1>5 DEF Expands
    <2>2. stack[n].file \in Imports!Sources /\ ListOf(n) = world.content[stack[n].file]
      BY <1>1, <1>5, ListIs DEF Frames
    <2>3. Imports!TopImports[stack[n].file] \subseteq ScopeOf(n)
      BY <1>4, <2>2, ImportsAre
    <2>4. ASSUME NEW s \in Imports!AllImports[stack[n].file]
          PROVE  s \in Imports!ToSet(used) /\ (Direct => Acyclic(s))
      <3>1. CASE s \in Imports!TopImports[stack[n].file]
        BY <1>4, <2>2, <3>1, ImportsAre
      <3>2. CASE \E d \in Imports!ToSet(world.content[stack[n].file]) :
                    d.kind = "local" /\ s \in Imports!Imported(d.defs)
        BY <1>2, <2>2, <3>2 DEF Treated
      <3> QED
        BY <2>2, <3>1, <3>2, ImportsAre
    <2>5. Direct => Acyclic(stack[n].file)
      BY <2>2, <2>4, AcyclicFrom
    <2> QED
      BY <2>1, <2>3, <2>4, <2>5
  <1> QED
    BY <1>4, <1>5

(* What a list has given when its scope holds nothing that another gave.       *)
LEMMA ScopeIsClosed ==
  ASSUME world \in Worlds, Expanding, NEW n, n = Len(stack), stack[n].rest = <<>>,
         \A i \in 1 .. n : Index(i) = Index(n) => i = n,
         NEW s \in Emits(stack[n])
  PROVE  Imports!Final(s) = s /\ Imports!TopImports[s] \subseteq Emits(stack[n])
  <1>1. /\ n \in 1 .. n /\ stack[n] \in Frames /\ StackInv /\ ScopesInv
        /\ Expands(stack[n], ListOf(n), ScopeOf(n), Imports!ToSet(used))
        /\ Index(n) \in 1 .. Len(scopes)
    BY TopIs DEF Expanding
  <1>2. /\ Start(stack[n], ListOf(n)) \in SUBSET Imports!Sources
        /\ \A t \in Start(stack[n], ListOf(n)) : Imports!Final(t) = t
    BY <1>1, DoneIs, TopIs DEF Start, Frames
  <1>3. s \in Imports!Sources /\ Imports!Final(s) = s
    <2>1. s \in Imports!Closure(Start(stack[n], ListOf(n)), Imports!TopImports)
      BY <1>1 DEF Expands
    <2> QED
      BY <1>2, <2>1, ClosureIsFinal
  <1>4. ASSUME NEW t \in ScopeOf(n), Imports!Final(t) = t PROVE t \in Emits(stack[n])
    <2>1. Covered(Index(n), t)
      BY <1>1, <1>4 DEF ScopesInv, ScopeOf
    <2> QED
      BY <2>1 DEF Covered
  <1>5. Imports!TopImports[s] \subseteq ScopeOf(n)
    <2>1. CASE s \in ScopeOf(n)
      <3>1. Pending(Index(n), s) \/ Imports!TopImports[s] \subseteq ScopeOf(n)
        BY <1>1, <1>3, <2>1 DEF ScopesInv, ScopeOf
      <3>2. Pending(Index(n), s) => stack[n].kind # "local" /\ stack[n].file = s
        BY DEF Pending
      <3> QED
        BY <3>1, <3>2, DoneIs
    <2>2. CASE s = Imports!Entry /\ stack[n].kind = "entry"
      <3>1. n = 1 /\ stack[1].file = Imports!Entry
        BY <1>1, <2>2 DEF StackInv, FrameAt
      <3> QED
        BY <2>2, <3>1, DoneIs
    <2> QED
      BY <1>1, <2>1, <2>2 DEF Expands
  <1>6. \A t \in Imports!TopImports[s] : Imports!Final(t) = t
    BY <1>3, ImportsAre
  <1> QED
    BY <1>3, <1>4, <1>5, <1>6

LEMMA EnvironmentIsDone ==
  ASSUME world \in Worlds, Expanding, NEW n, n = Len(stack),
         stack[n].rest = <<>>, stack[n].kind = "local"
  PROVE  Imports!IsExpansion(stack[n].out,
                             Imports!Closure(Imports!Imported(ListOf(n)), Imports!TopImports))
  <1>1. /\ n \in 1 .. n /\ n \in Nat \ {0} /\ stack[n] \in Frames /\ StackInv
        /\ Expands(stack[n], ListOf(n), ScopeOf(n), Imports!ToSet(used))
        /\ Index(n) \in 1 .. Len(scopes)
    BY TopIs DEF Expanding
  <1>2. \A i \in 1 .. n : Index(i) = Index(n) => i = n
    <2>1. n \in 2 .. n /\ n - 1 \in 1 .. Len(stack) - 1 /\ n - 1 \in 1 .. Len(stack) /\ (n - 1) + 1 = n
      BY <1>1, ListIs
    <2>2. Index(n) = Index(n - 1) + 1 /\ Index(n - 1) \in Nat
      <3>1. PICK p : p = n - 1
        OBVIOUS
      <3>2. /\ p \in 1 .. Len(stack) - 1 /\ p \in 1 .. Len(stack) /\ stack[p + 1].kind = "local"
            /\ p + 1 = n
        BY <2>1, <3>1
      <3>3. Index(p + 1) = Index(p) + 1 /\ Index(p) \in Nat
        BY <1>1, <3>2, StackIs
      <3> QED
        BY <3>1, <3>2, <3>3
    <2> SUFFICES ASSUME NEW i \in 1 .. n, i # n PROVE Index(i) # Index(n)
      OBVIOUS
    <2>3. i = n - 1 \/ i < n - 1
      BY <1>1
    <2>4. Index(i) <= Index(n - 1) /\ Index(i) \in Nat
      <3>1. PICK p \in 1 .. Len(stack) : p = n - 1
        BY <2>1
      <3>2. i \in 1 .. Len(stack) /\ (i = p \/ i < p)
        BY <2>3, <3>1
      <3>3. Index(i) \in Nat
        BY <1>1, <3>2, StackIs
      <3>4. Ordered(i, p)
        BY <1>1, <3>2 DEF StackInv
      <3> QED
        BY <2>2, <3>1, <3>2, <3>3, <3>4 DEF Ordered
    <2> QED
      BY <2>2, <2>4
  <1>3. Emits(stack[n]) = Imports!ToSet(stack[n].out)
    BY DEF Emits
  <1>4. \A s \in Imports!ToSet(stack[n].out) :
           Imports!TopImports[s] \subseteq Imports!ToSet(stack[n].out)
    BY <1>2, <1>3, ScopeIsClosed
  <1>5. Imports!Imported(ListOf(n)) \subseteq Imports!ToSet(stack[n].out)
    <2> SUFFICES ASSUME NEW s \in Imports!Imported(ListOf(n)) PROVE s \in Imports!ToSet(stack[n].out)
      OBVIOUS
    <2>1. s \in scopes[Index(n)] /\ Imports!Final(s) = s
      BY DoneIs DEF ScopeOf
    <2>2. Covered(Index(n), s)
      BY <1>1, <2>1 DEF Expanding, ScopesInv
    <2> QED
      BY <1>2, <1>3, <2>2 DEF Covered
  <1>6. Imports!ToSet(stack[n].out) \in SUBSET Imports!Sources
    BY <1>1, ElementsOf DEF Frames
  <1>7. Imports!Closure(Imports!Imported(ListOf(n)), Imports!TopImports)
           \subseteq Imports!ToSet(stack[n].out)
    <2>1. PICK T : T = Imports!ToSet(stack[n].out)
      OBVIOUS
    <2> QED
      BY <1>4, <1>5, <1>6, <2>1, ClosureIsLeast
  <1>8. /\ Imports!IsInjective(stack[n].out)
        /\ Imports!ToSet(stack[n].out)
              \subseteq Imports!Closure(Imports!Imported(ListOf(n)), Imports!TopImports)
    BY <1>1, <1>3 DEF Expands, Start
  <1> QED
    BY <1>7, <1>8 DEF Imports!IsExpansion

-----------------------------------------------------------------------------
(* The end of a list that is not the program's.                                *)
LEMMA OuterIs ==
  ASSUME Expanding, NEW n, n = Len(stack), stack[n].kind # "entry", NEW m, m = n - 1
  PROVE  /\ n \in Nat /\ n >= 2 /\ m \in 1 .. n /\ m \in Nat \ {0} /\ m + 1 = n
         /\ stack[m] \in Frames /\ stack[m].rest # <<>> /\ Head(stack[m].rest) \in Imports!ToSet(stack[m].rest)
         /\ Expands(stack[m], ListOf(m), ScopeOf(m), Imports!ToSet(used))
         /\ Index(m) \in Nat \ {0} /\ Imports!Level(m) \in Nat \ {0}
         /\ Imports!Level(n) = Imports!Level(m) + IF stack[n].kind = "local" THEN 0 ELSE 1
         /\ Index(n) = Index(m) + IF stack[n].kind = "local" THEN 1 ELSE 0
         /\ Below(n)
  <1>1. n \in Nat \ {0} /\ StackInv /\ stack \in Seq(Frames)
    BY StackIs DEF Expanding
  <1>2. n >= 2 /\ m \in 1 .. n /\ m \in 1 .. n - 1 /\ m + 1 = n /\ n \in 1 .. n /\ n \in 2 .. n
    BY <1>1 DEF StackInv, FrameAt
  <1>3. Below(n) /\ stack[m].rest # <<>> /\ stack[m] \in Frames
    BY <1>1, <1>2, StackIs DEF StackInv, Below
  <1>4. Expands(stack[m], ListOf(m), ScopeOf(m), Imports!ToSet(used))
    BY <1>2 DEF Expanding, FramesInv
  <1>5. Head(stack[m].rest) \in Imports!ToSet(stack[m].rest)
    <2>1. stack[m].rest \in Seq(Imports!Definitions(Imports!Sources))
      BY <1>3 DEF Frames
    <2> QED
      BY <1>3, <2>1, HeadIs
  <1>6. /\ Imports!Level(m + 1) = Imports!Level(m) + IF stack[m + 1].kind = "local" THEN 0 ELSE 1
        /\ Index(m + 1) = Index(m) + IF stack[m + 1].kind = "local" THEN 1 ELSE 0
        /\ Imports!Level(m) \in 1 .. m /\ Index(m) \in 1 .. m
    BY <1>1, <1>2, StackIs
  <1> QED
    BY <1>1, <1>2, <1>3, <1>4, <1>5, <1>6

LEMMA Closes ==
  ASSUME Expanding, NEW n, n = Len(stack), stack[n].kind # "entry", NEW m, m = n - 1,
         NEW g \in Frames, world' = world,
         stack' = Append(Imports!Front(Imports!Front(stack)), g),
         g.file = stack[m].file, g.kind = stack[m].kind
  PROVE  Trimmed(m) /\ stack'[m] = g
  <1>1. n \in Nat /\ n >= 2 /\ m \in 1 .. n /\ m \in Nat \ {0} /\ stack \in Seq(Frames)
    BY OuterIs, StackIs DEF Expanding
  <1>2. Merges(Frames, stack, g, stack')
    BY <1>1, ReplacedBelow
  <1>3. \A i \in 1 .. m - 1 : i \in 1 .. n - 2
    BY <1>1
  <1> QED
    BY <1>1, <1>2, <1>3 DEF Merges, Trimmed

LEMMA LeaveExpands ==
  ASSUME world \in Worlds, Expanding, Imports!FetchedOnce, EnvironmentsInv, Imports!LeaveEnvironment
  PROVE  Expanding' /\ Imports!FetchedOnce' /\ EnvironmentsInv'
  <1>1. PICK n : n = Len(stack)
    OBVIOUS
  <1>2. PICK m : m = n - 1
    OBVIOUS
  <1>3. Imports!Top = stack[n] /\ Len(stack) - 1 = m
    BY <1>1, <1>2, TopIs
  <1>4. /\ stack[n].kind = "local" /\ stack[n].rest = <<>>
        /\ stack' = Append(Imports!Front(Imports!Front(stack)), [stack[m] EXCEPT !.rest = Tail(@)])
        /\ scopes' = Imports!Front(scopes)
        /\ environments' = environments \cup
              {[file |-> stack[n].file, defs |-> Head(stack[m].rest).defs, out |-> stack[n].out]}
        /\ world' = world /\ active' = active /\ edges' = edges /\ used' = used
        /\ cached' = cached /\ fetched' = fetched
    BY <1>3, Zenon DEF Imports!LeaveEnvironment
  <1>5. /\ n \in Nat /\ n >= 2 /\ m \in 1 .. n /\ m \in Nat \ {0} /\ m + 1 = n
        /\ stack[m] \in Frames /\ stack[m].rest # <<>>
        /\ Expands(stack[m], ListOf(m), ScopeOf(m), Imports!ToSet(used))
        /\ Index(m) \in Nat \ {0} /\ Imports!Level(m) \in Nat \ {0}
        /\ Imports!Level(n) = Imports!Level(m) /\ Index(n) = Index(m) + 1
        /\ Below(n)
    BY <1>1, <1>2, <1>4, OuterIs
  <1>6. PICK h : h = Head(stack[m].rest)
    OBVIOUS
  <1>7. h.kind = "local" /\ ListOf(n) = h.defs
    BY <1>2, <1>4, <1>5, <1>6 DEF Below, ListOf
  <1>8. Treated(h, ScopeOf(m), Imports!ToSet(used)) /\ h # Imports!Own
    <2>1. \A s \in Imports!Imported(h.defs) : s \in Imports!ToSet(used) /\ (Direct => Acyclic(s))
      BY <1>1, <1>4, <1>7, DoneIs
    <2> QED
      BY <1>7, <2>1 DEF Treated, Imports!Own
  <1>9. PICK g : g = [stack[m] EXCEPT !.rest = Tail(@)]
    OBVIOUS
  <1>10. /\ g \in Frames /\ g.file = stack[m].file /\ g.kind = stack[m].kind
         /\ g.out = stack[m].out /\ g.rest = Tail(stack[m].rest)
    <2>1. stack[m] \in Frames /\ stack[m].rest # <<>>
      BY <1>5
    <2> QED
      BY ONLY <1>9, <2>1, AdvancedIs, Zenon
  <1>11. Expands(g, ListOf(m), ScopeOf(m), Imports!ToSet(used)) /\ Emits(g) = Emits(stack[m])
    BY <1>5, <1>6, <1>8, <1>10, ExpandsOn
  <1>12. Trimmed(m) /\ stack'[m] = g
    <2>1. stack' = Append(Imports!Front(Imports!Front(stack)), g)
      BY <1>4, <1>9, Zenon
    <2>2. stack[n].kind # "entry" /\ world' = world
      BY <1>4
    <2> QED
      BY <1>1, <1>2, <1>10, <2>1, <2>2, Closes
  <1>13. /\ scopes' \in Seq(SUBSET Imports!Sources) /\ Len(scopes') = Index(m)
         /\ \A k \in 1 .. Index(m) : scopes'[k] = scopes[k]
    <2>1. scopes \in Seq(SUBSET Imports!Sources) /\ scopes # <<>> /\ Len(scopes) = Index(n)
      BY <1>1, TopIs
    <2>2. PICK f : f = Imports!Front(scopes)
      OBVIOUS
    <2>3. /\ f \in Seq(SUBSET Imports!Sources) /\ Len(f) = Len(scopes) - 1
          /\ \A i \in 1 .. Len(scopes) - 1 : f[i] = scopes[i]
      BY <2>1, <2>2, FrontIs
    <2> QED
      BY <1>4, <1>5, <2>1, <2>2, <2>3
  <1>14. ScopesGrow(m)
    BY <1>13 DEF ScopesGrow
  <1>15. \A i \in m .. Len(stack) : i = m \/ (i = n /\ Index(i) # Index(m))
    BY <1>1, <1>5
  <1>16. Gathers(m)
    <2>1. m \in m .. Len(stack)
      BY <1>1, <1>5
    <2> QED
      BY <1>11, <1>12, <1>15, <2>1 DEF Gathers
  <1>17. Settled(m)
    <2>1. \A i \in m + 1 .. Len(stack) : i \in m .. Len(stack) /\ i # m
      BY <1>5
    <2> QED
      BY <1>15, <2>1 DEF Settled
  <1>18. Leaves(m)
    <2>1. Len(active) = Imports!Level(n)
      BY <1>1 DEF Expanding, ActiveInv
    <2> QED
      BY <1>4, <1>5, <2>1 DEF Leaves, Expanding, ActiveInv
  <1>19. Expands(stack'[m], ListOf(m), scopes'[Index(m)], Imports!ToSet(used))
    <2>1. Index(m) \in 1 .. Index(m)
      BY <1>5
    <2> QED
      BY <1>11, <1>12, <1>13, <2>1 DEF ScopeOf
  <1>20. Contracts(m)
    BY <1>4, <1>12, <1>14, <1>16, <1>17, <1>18, <1>19 DEF Contracts
  <1>21. Answered' /\ Imports!FetchedOnce'
    BY <1>4, CacheRests DEF Expanding, CacheInv, Answered
  <1>22. CacheInv'
    BY <1>4, <1>12, <1>21, FilesContract
  <1>23. EnvironmentsInv'
    <2>1. PICK e : e = [file |-> stack[n].file, defs |-> h.defs, out |-> stack[n].out]
      OBVIOUS
    <2>2. environments' = environments \cup {e} /\ e.out = stack[n].out /\ e.defs = ListOf(n)
      BY <1>4, <1>6, <1>7, <2>1
    <2>3. Imports!IsExpansion(e.out, Imports!Closure(Imports!Imported(e.defs), Imports!TopImports))
      BY <1>1, <1>4, <2>2, EnvironmentIsDone
    <2>4. \A x \in environments' :
             Imports!IsExpansion(x.out, Imports!Closure(Imports!Imported(x.defs), Imports!TopImports))
      BY <2>2, <2>3 DEF EnvironmentsInv
    <2>5. \A x, y : Imports!IsExpansion(x, y)' <=> Imports!IsExpansion(x, y)
      BY DEF Imports!IsExpansion
    <2> QED
      BY <1>4, <2>4, <2>5, WorldStays DEF EnvironmentsInv
  <1> QED
    BY <1>20, <1>21, <1>22, <1>23, Contracted

(* The frame below takes the definitions of the source that it imports.        *)
LEMMA ExpandsMerged ==
  ASSUME world \in Worlds, NEW f \in Frames, NEW list, NEW scope, NEW seen,
         Expands(f, list, scope, seen), f.rest # <<>>,
         Head(f.rest) # Imports!Own, Treated(Head(f.rest), scope, seen), NEW o \in Seq(Imports!Sources),
         Imports!IsInjective(o), Imports!ToSet(o) \cap Emits(f) = {}, Imports!ToSet(o) \subseteq scope,
         Imports!ToSet(o) \subseteq Imports!Closure(Start(f, list), Imports!TopImports),
         NEW g \in Frames, g.file = f.file, g.kind = f.kind, g.rest = Tail(f.rest), g.out = f.out \o o
  PROVE  Expands(g, list, scope, seen) /\ Emits(g) = Emits(f) \cup Imports!ToSet(o)
  <1>1. PICK h : h = [file |-> f.file, kind |-> f.kind, rest |-> Tail(f.rest), out |-> f.out]
    OBVIOUS
  <1>2. h \in Frames /\ h.file = f.file /\ h.kind = f.kind /\ h.rest = Tail(f.rest) /\ h.out = f.out
    BY <1>1 DEF Frames
  <1>3. Expands(h, list, scope, seen) /\ Emits(h) = Emits(f)
    BY <1>2, ExpandsOn
  <1>4. PICK q \in Seq(Imports!Sources) : q = f.out /\ q = h.out /\ g.out = q \o o
    BY <1>2 DEF Frames
  <1>5. Imports!ToSet(g.out) = Imports!ToSet(q) \cup Imports!ToSet(o)
    BY <1>4, ConcatIs
  <1>6. Imports!ToSet(q) \subseteq Emits(h) /\ (h.kind # "local" => h.file \in Emits(h))
    BY <1>4 DEF Emits
  <1>7. Imports!IsInjective(g.out)
    <2>1. Imports!IsInjective(q) /\ Imports!ToSet(q) \cap Imports!ToSet(o) = {}
      BY <1>3, <1>4, <1>6 DEF Expands
    <2> QED
      BY <1>4, <2>1, ConcatIs
  <1>8. Emits(g) = Emits(h) \cup Imports!ToSet(o) /\ Start(g, list) = Start(f, list) /\ Start(h, list) = Start(f, list)
    BY <1>2, <1>4, <1>5 DEF Emits, Start
  <1>9. g.kind # "local" => (Imports!Own \in Imports!ToSet(g.rest) <=> g.file \notin Imports!ToSet(g.out))
    BY <1>2, <1>3, <1>4, <1>5, <1>6 DEF Expands
  <1>10. /\ Imports!ToSet(g.rest) \subseteq Imports!ToSet(list)
         /\ \A d \in Imports!ToSet(list) : d \in Imports!ToSet(g.rest) \/ Treated(d, scope, seen)
         /\ \A i, j \in DOMAIN g.rest : g.rest[i] = Imports!Own /\ g.rest[j] = Imports!Own => i = j
    BY <1>2, <1>3 DEF Expands
  <1>11. /\ \A s \in Emits(g) : s \in scope \/ (s = Imports!Entry /\ g.kind = "entry")
         /\ Emits(g) \subseteq Imports!Closure(Start(g, list), Imports!TopImports)
    BY <1>2, <1>3, <1>8 DEF Expands
  <1> QED
    BY <1>3, <1>7, <1>8, <1>9, <1>10, <1>11, Zenon DEF Expands

LEMMA MergedIs ==
  ASSUME NEW f \in Frames, f.rest # <<>>, NEW o \in Seq(Imports!Sources),
         NEW g, g = [f EXCEPT !.rest = Tail(@), !.out = @ \o o]
  PROVE  g \in Frames /\ g.file = f.file /\ g.kind = f.kind /\ g.rest = Tail(f.rest) /\ g.out = f.out \o o
  <1>1. f \in [file : Imports!Sources, kind : {"entry", "import", "local"},
               rest : Seq(Imports!Definitions(Imports!Sources)), out : Seq(Imports!Sources)]
    BY DEF Frames
  <1>2. g = [file |-> f.file, kind |-> f.kind, rest |-> Tail(f.rest), out |-> f.out \o o]
    BY ONLY <1>1, g = [f EXCEPT !.rest = Tail(@), !.out = @ \o o]
  <1>3. Tail(f.rest) \in Seq(Imports!Definitions(Imports!Sources))
    BY <1>1, HeadIs
  <1>4. f.out \o o \in Seq(Imports!Sources)
    BY <1>1, ConcatIs
  <1> QED
    BY <1>1, <1>2, <1>3, <1>4 DEF Frames

LEMMA ReturnExpands ==
  ASSUME world \in Worlds, Expanding, Imports!FetchedOnce, Imports!Return
  PROVE  Expanding' /\ Imports!FetchedOnce'
  <1>1. PICK n : n = Len(stack)
    OBVIOUS
  <1>2. PICK m : m = n - 1
    OBVIOUS
  <1>3. /\ Imports!Top = stack[n] /\ Len(stack) - 1 = m /\ n \in 1 .. n /\ stack[n] \in Frames
        /\ Expands(stack[n], ListOf(n), ScopeOf(n), Imports!ToSet(used))
    BY <1>1, <1>2, TopIs
  <1>4. /\ stack[n].kind = "import" /\ stack[n].rest = <<>>
        /\ stack' = Append(Imports!Front(Imports!Front(stack)),
                           [stack[m] EXCEPT !.rest = Tail(@), !.out = @ \o stack[n].out])
        /\ active' = Imports!Front(active) /\ edges' = Imports!Front(edges)
        /\ world' = world /\ scopes' = scopes /\ used' = used
        /\ cached' = cached /\ fetched' = fetched
    BY <1>3, Zenon DEF Imports!Return
  <1>5. /\ n \in Nat /\ n >= 2 /\ m \in 1 .. n /\ m \in Nat \ {0} /\ m + 1 = n
        /\ stack[m] \in Frames /\ stack[m].rest # <<>>
        /\ Head(stack[m].rest) \in Imports!ToSet(stack[m].rest)
        /\ Expands(stack[m], ListOf(m), ScopeOf(m), Imports!ToSet(used))
        /\ Index(m) \in Nat \ {0} /\ Imports!Level(m) \in Nat \ {0}
        /\ Imports!Level(n) = Imports!Level(m) + 1 /\ Index(n) = Index(m)
        /\ Below(n)
    BY <1>1, <1>2, <1>4, OuterIs
  <1>6. PICK h : h = Head(stack[m].rest)
    OBVIOUS
  <1>7. PICK u : u = stack[n].file
    OBVIOUS
  <1>8. /\ h.kind = "import" /\ h.to \in Imports!Sources /\ Imports!Final(h.to) = u
        /\ h.to # Nowhere /\ h \in Imports!ToSet(ListOf(m)) /\ u \in Imports!Sources
    <2>1. h \in Imports!ToSet(ListOf(m))
      BY <1>5, <1>6 DEF Expands
    <2> QED
      BY <1>2, <1>3, <1>4, <1>5, <1>6, <1>7, <2>1, WorldIs DEF Below, Frames
  <1>9. PICK o \in Seq(Imports!Sources) : o = stack[n].out
    BY <1>3 DEF Frames
  <1>10. /\ u \in Imports!ToSet(o) /\ Imports!TopImports[u] \subseteq ScopeOf(n)
         /\ Imports!AllImports[u] \subseteq Imports!ToSet(used) /\ (Direct => Acyclic(u))
         /\ Emits(stack[n]) = Imports!ToSet(o) /\ Imports!ToSet(o) \subseteq ScopeOf(n)
         /\ Imports!ToSet(o) \subseteq Imports!Closure({u}, Imports!TopImports) /\ Imports!IsInjective(o)
    <2>1. /\ u \in Imports!ToSet(o) /\ Imports!TopImports[u] \subseteq ScopeOf(n)
          /\ Imports!AllImports[u] \subseteq Imports!ToSet(used) /\ (Direct => Acyclic(u))
      BY <1>1, <1>4, <1>7, <1>9, DoneIs
    <2>2. Emits(stack[n]) = Imports!ToSet(o)
      BY <1>4, <1>7, <1>9, <2>1 DEF Emits
    <2>3. Start(stack[n], ListOf(n)) = {u}
      BY <1>4, <1>7 DEF Start
    <2> QED
      BY <1>3, <1>4, <1>9, <2>1, <2>2, <2>3 DEF Expands
  <1>11. ScopeOf(n) = ScopeOf(m)
    BY <1>5 DEF ScopeOf
  <1>12. Treated(h, ScopeOf(m), Imports!ToSet(used)) /\ h # Imports!Own
    BY <1>8, <1>10, <1>11 DEF Treated, Imports!Own
  <1>13. Imports!ToSet(o) \cap Emits(stack[m]) = {}
    <2>1. m # n /\ n \in 1 .. Len(stack) /\ m \in 1 .. Len(stack)
      BY <1>1, <1>5
    <2> QED
      BY <1>5, <1>10, <2>1 DEF Expanding, DisjointInv
  <1>14. Imports!ToSet(o) \subseteq Imports!Closure(Start(stack[m], ListOf(m)), Imports!TopImports)
    <2>1. /\ ListOf(m) \in Seq(Imports!Definitions(Imports!Sources))
          /\ stack[m].kind # "local" => ListOf(m) = world.content[stack[m].file]
      BY <1>1, <1>5, ListIs DEF Expanding
    <2>2. u \in Imports!Imported(ListOf(m))
      BY <1>8, ImportedHas
    <2>3. stack[m].file \in Imports!Sources
      BY <1>5 DEF Frames
    <2>4. Start(stack[m], ListOf(m)) \in SUBSET Imports!Sources
      BY <2>1, <2>3, ImportedIs DEF Start
    <2>5. PICK C : C = Imports!Closure(Start(stack[m], ListOf(m)), Imports!TopImports)
      OBVIOUS
    <2>6. Start(stack[m], ListOf(m)) \subseteq C /\ \A t \in C : Imports!TopImports[t] \subseteq C
      BY <2>4, <2>5, ClosureIs, ImportsAre
    <2>7. u \in C
      <3>1. CASE stack[m].kind = "local"
        BY <2>2, <2>6, <3>1 DEF Start
      <3>2. CASE stack[m].kind # "local"
        <4>1. stack[m].file \in C
          BY <2>6, <3>2 DEF Start
        <4>2. u \in Imports!TopImports[stack[m].file]
          BY <2>1, <2>2, <2>3, <3>2, ImportsAre
        <4> QED
          BY <2>6, <4>1, <4>2
      <3> QED
        BY <3>1, <3>2
    <2>8. Imports!Closure({u}, Imports!TopImports) \subseteq C
      BY <2>4, <2>5, <2>7, ClosureGrows, ImportsAre
    <2> QED
      BY <1>10, <2>5, <2>8
  <1>15. PICK f \in Frames : f = stack[m]
    BY <1>5
  <1>16. PICK g : g = [f EXCEPT !.rest = Tail(@), !.out = @ \o o]
    OBVIOUS
  <1>17. /\ g \in Frames /\ g.file = f.file /\ g.kind = f.kind
         /\ g.rest = Tail(f.rest) /\ g.out = f.out \o o
    <2>1. f.rest # <<>>
      BY <1>5, <1>15
    <2> QED
      BY ONLY <1>16, <2>1, MergedIs, Zenon
  <1>18. /\ Expands(g, ListOf(m), ScopeOf(m), Imports!ToSet(used))
         /\ Emits(g) = Emits(stack[m]) \cup Imports!ToSet(o)
    <2>1. PICK list, scope, seen :
             list = ListOf(m) /\ scope = ScopeOf(m) /\ seen = Imports!ToSet(used)
      OBVIOUS
    <2>2. /\ Expands(f, list, scope, seen) /\ f.rest # <<>>
          /\ Head(f.rest) # Imports!Own /\ Treated(Head(f.rest), scope, seen)
      BY <1>5, <1>6, <1>12, <1>15, <2>1
    <2>3. /\ Imports!IsInjective(o) /\ Imports!ToSet(o) \cap Emits(f) = {}
          /\ Imports!ToSet(o) \subseteq scope
          /\ Imports!ToSet(o) \subseteq Imports!Closure(Start(f, list), Imports!TopImports)
      BY <1>10, <1>11, <1>13, <1>14, <1>15, <2>1
    <2>4. Expands(g, list, scope, seen) /\ Emits(g) = Emits(f) \cup Imports!ToSet(o)
      BY ONLY <1>17, <2>2, <2>3, ExpandsMerged, world \in Worlds, g \in Frames, o \in Seq(Imports!Sources)
    <2> QED
      BY <1>15, <2>1, <2>4
  <1>19. Trimmed(m) /\ stack'[m] = g
    <2>1. stack' = Append(Imports!Front(Imports!Front(stack)), g)
      BY <1>4, <1>9, <1>15, <1>16, Zenon
    <2>2. stack[n].kind # "entry" /\ world' = world /\ g.file = stack[m].file /\ g.kind = stack[m].kind
      BY <1>4, <1>15, <1>17
    <2> QED
      BY <1>1, <1>2, <1>17, <2>1, <2>2, Closes
  <1>20. ScopesGrow(m)
    <2>1. Len(scopes) = Index(n) /\ scopes \in Seq(SUBSET Imports!Sources)
      BY <1>1, TopIs
    <2> QED
      BY <1>4, <1>5, <2>1 DEF ScopesGrow
  <1>21. \A i \in m .. Len(stack) : i = m \/ i = n
    BY <1>1, <1>5
  <1>22. Gathers(m)
    <2>1. m \in m .. Len(stack) /\ n \in m .. Len(stack)
      BY <1>1, <1>5
    <2> QED
      BY <1>5, <1>10, <1>18, <1>19, <1>21, <2>1 DEF Gathers
  <1>23. Settled(m)
    <2>1. \A i \in m + 1 .. Len(stack) : i \in m .. Len(stack) /\ i # m
      BY <1>5
    <2> QED
      BY <1>5, <1>7, <1>10, <1>11, <1>21, <2>1 DEF Settled, ScopeOf
  <1>24. Leaves(m)
    <2>1. /\ active \in Seq(Imports!Sources) /\ Len(active) = Imports!Level(m) + 1
          /\ edges \in Seq(Imports!Sources \X Imports!Sources) /\ Len(edges) + 1 = Len(active)
          /\ active[Len(active)] = u
      BY <1>1, <1>5, <1>7, TopIs DEF Expanding, ActiveInv
    <2>2. active # <<>> /\ edges # <<>>
      BY <1>5, <2>1
    <2>3. PICK a : a = active'
      OBVIOUS
    <2>4. PICK e : e = edges'
      OBVIOUS
    <2>5. /\ a \in Seq(Imports!Sources) /\ Len(a) = Imports!Level(m)
          /\ \A j \in 1 .. Imports!Level(m) : a[j] = active[j]
      <3>0. a = Imports!Front(active) /\ active \in Seq(Imports!Sources) /\ active # <<>>
        BY <1>4, <2>1, <2>2, <2>3
      <3>1. /\ a \in Seq(Imports!Sources) /\ Len(a) = Len(active) - 1
            /\ \A j \in 1 .. Len(active) - 1 : a[j] = active[j]
        BY ONLY <3>0, FrontIs
      <3>2. Len(active) - 1 = Imports!Level(m)
        BY <1>5, <2>1
      <3> QED
        BY ONLY <3>1, <3>2
    <2>6. /\ e \in Seq(Imports!Sources \X Imports!Sources) /\ Len(e) = Imports!Level(m) - 1
          /\ \A j \in 1 .. Len(e) : e[j] = edges[j]
      <3>0. e = Imports!Front(edges) /\ edges \in Seq(Imports!Sources \X Imports!Sources) /\ edges # <<>>
        BY <1>4, <2>1, <2>2, <2>4
      <3>1. /\ e \in Seq(Imports!Sources \X Imports!Sources) /\ Len(e) = Len(edges) - 1
            /\ \A j \in 1 .. Len(edges) - 1 : e[j] = edges[j]
        BY ONLY <3>0, FrontIs
      <3>2. Len(edges) \in Nat
        BY <2>1
      <3> QED
        BY <1>5, <2>1, <3>1, <3>2
    <2>7. \A s \in Imports!ToSet(active) : s = u \/ s \in Imports!ToSet(a)
      <3> SUFFICES ASSUME NEW s \in Imports!ToSet(active), s # u PROVE s \in Imports!ToSet(a)
        OBVIOUS
      <3>1. PICK j \in 1 .. Len(active) : s = active[j]
        BY <2>1, ElementsOf
      <3>2. j \in 1 .. Len(a) /\ s = a[j]
        BY <1>5, <2>1, <2>5, <3>1
      <3> QED
        BY <2>5, <3>2, ElementsOf
    <2>8. Len(e) + 1 = Len(a)
      BY <1>5, <2>5, <2>6
    <2> QED
      BY <1>10, <2>3, <2>4, <2>5, <2>6, <2>7, <2>8 DEF Leaves
  <1>25. Expands(stack'[m], ListOf(m), scopes'[Index(m)], Imports!ToSet(used))
    BY <1>4, <1>18, <1>19 DEF ScopeOf
  <1>26. Contracts(m)
    BY <1>4, <1>19, <1>20, <1>22, <1>23, <1>24, <1>25 DEF Contracts
  <1>27. Answered' /\ Imports!FetchedOnce'
    BY <1>4, CacheRests DEF Expanding, CacheInv, Answered
  <1>28. CacheInv'
    BY <1>4, <1>19, <1>27, FilesContract
  <1> QED
    BY <1>26, <1>27, <1>28, Contracted

-----------------------------------------------------------------------------
(* A step that begins a list keeps the invariant when the new frame gives to   *)
(* its scope nothing that the other frames gave, and all that the scope gains. *)
Begins(n, f, x) ==
    /\ world' = world /\ n = Len(stack) /\ n \in Nat \ {0}
    /\ stack' \in Seq(Frames) /\ Len(stack') = n + 1 /\ stack'[n + 1] = f
    /\ \A i \in 1 .. n : stack'[i] = stack[i]
    /\ \A i \in 1 .. n : Placed(i)
    /\ x = Index(n + 1)' /\ x \in Nat \ {0}
    /\ Imports!ToSet(used) \subseteq Imports!ToSet(used')

Widens(f, x) ==
    /\ scopes' \in Seq(SUBSET Imports!Sources) /\ Len(scopes') = x /\ Len(scopes) <= x
    /\ \A k \in 1 .. Len(scopes) : scopes[k] \subseteq scopes'[k]
    /\ \A k \in 1 .. x : \A l \in scopes'[k] :
          \/ k \in 1 .. Len(scopes) /\ l \in scopes[k]
          \/ /\ k = x /\ l # Imports!Entry /\ Imports!Final(l) \in scopes'[k]
             /\ Imports!Final(l) \in Imports!ToSet(used')
             /\ Imports!Final(l) = l => f.kind # "local" /\ f.file = l

Fresh(f, list, scope) ==
    /\ list \in Seq(Imports!Definitions(Imports!Sources)) /\ f.rest = list /\ f.out = <<>>
    /\ f.kind = "local" => list \in Seq(Imports!Directives(Imports!Sources))
    /\ f.kind # "local" =>
          /\ f.file \in Imports!Sources /\ list = world.content[f.file]
          /\ f.file \in scope \/ (f.kind = "entry" /\ f.file = Imports!Entry)

LEMMA FreshExpands ==
  ASSUME world \in Worlds, NEW f, NEW list, NEW scope, Fresh(f, list, scope), NEW seen
  PROVE  /\ Expands(f, list, scope, seen)
         /\ Emits(f) = IF f.kind = "local" THEN {} ELSE {f.file}
  <1>1. /\ list \in Seq(Imports!Definitions(Imports!Sources)) /\ f.rest = list /\ f.out = <<>>
        /\ f.kind = "local" => list \in Seq(Imports!Directives(Imports!Sources))
        /\ f.kind # "local" => f.file \in Imports!Sources /\ list = world.content[f.file]
    BY DEF Fresh
  <1>2. Emits(f) = IF f.kind = "local" THEN {} ELSE {f.file}
    BY <1>1, EmptyHasNone DEF Emits
  <1>3. \A i, j \in DOMAIN f.rest : f.rest[i] = Imports!Own /\ f.rest[j] = Imports!Own => i = j
    <2>1. CASE f.kind = "local"
      BY <1>1, <2>1, DirectivesAre
    <2>2. CASE f.kind # "local"
      BY <1>1, <2>2, WorldIs DEF Text
    <2> QED
      BY <2>1, <2>2
  <1>4. f.kind # "local" => Imports!Own \in Imports!ToSet(f.rest)
    BY <1>1, WorldIs DEF Text
  <1>5. Imports!IsInjective(f.out)
    BY <1>1 DEF Imports!IsInjective
  <1>6. Emits(f) \subseteq Imports!Closure(Start(f, list), Imports!TopImports)
    <2>1. CASE f.kind = "local"
      BY <1>2, <2>1
    <2>2. CASE f.kind # "local"
      <3>1. PICK S \in SUBSET Imports!Sources : S = {f.file} /\ S = Start(f, list)
        BY <1>1, <2>2 DEF Start
      <3> QED
        BY <1>2, <2>2, <3>1, ClosureIs, ImportsAre
    <2> QED
      BY <2>1, <2>2
  <1>7. \A s \in Emits(f) : s \in scope \/ (s = Imports!Entry /\ f.kind = "entry")
    BY <1>2 DEF Fresh
  <1> QED
    BY <1>1, <1>2, <1>3, <1>4, <1>5, <1>6, <1>7, EmptyHasNone DEF Expands

LEMMA FramesBegin ==
  ASSUME world \in Worlds, Expanding, NEW n, NEW f, NEW x, Begins(n, f, x), Widens(f, x),
         NEW list, list = ListOf(n + 1)', Fresh(f, list, scopes'[x])
  PROVE  FramesInv'
  <1>1. /\ world' = world /\ n = Len(stack) /\ n \in Nat \ {0} /\ Len(stack') = n + 1
        /\ stack'[n + 1] = f /\ \A i \in 1 .. n : stack'[i] = stack[i]
        /\ \A i \in 1 .. n : Index(i)' = Index(i) /\ ListOf(i)' = ListOf(i)
        /\ x = Index(n + 1)' /\ Imports!ToSet(used) \subseteq Imports!ToSet(used)'
    BY DEF Begins, Placed, Imports!ToSet
  <1>2. Expands(f, list, scopes'[x], Imports!ToSet(used'))
    BY FreshExpands
  <1>3. ASSUME NEW i \in 1 .. n
        PROVE  Expands(stack[i], ListOf(i), scopes'[Index(i)], Imports!ToSet(used'))
    <2>1. Expands(stack[i], ListOf(i), scopes[Index(i)], Imports!ToSet(used))
      BY <1>1 DEF Expanding, FramesInv, ScopeOf
    <2>2. Index(i) \in 1 .. Len(scopes)
      <3>1. /\ Index(i) \in Nat \ {0} /\ Index(n) \in Nat /\ Len(scopes) = Index(n)
            /\ (i = n \/ i < n) /\ n \in 1 .. Len(stack) /\ i \in 1 .. Len(stack)
        BY <1>1, TopIs, StackIs DEF Expanding
      <3>2. Index(i) <= Index(n)
        BY <3>1 DEF Expanding, StackInv, Ordered
      <3> QED
        BY <3>1, <3>2
    <2>3. scopes[Index(i)] \subseteq scopes'[Index(i)] /\ Imports!ToSet(used) \subseteq Imports!ToSet(used')
      BY <2>2 DEF Widens, Begins
    <2> QED
      BY <2>1, <2>3, ExpandsGrows
  <1>4. ASSUME NEW i \in 1 .. n + 1
        PROVE  Expands(stack[i], ListOf(i), ScopeOf(i), Imports!ToSet(used))'
    <2>1. CASE i \in 1 .. n
      <3>1. ScopeOf(i)' = scopes'[Index(i)] /\ ListOf(i)' = ListOf(i) /\ stack'[i] = stack[i]
        BY <1>1, <2>1 DEF ScopeOf
      <3> QED
        BY <1>1, <1>3, <2>1, <3>1, ExpandsStays
    <2>2. CASE i = n + 1
      <3>1. ScopeOf(n + 1)' = scopes'[x]
        BY <1>1 DEF ScopeOf
      <3>2. Expands(stack[n + 1], ListOf(n + 1), ScopeOf(n + 1), Imports!ToSet(used))'
        BY <1>1, <1>2, <3>1, ExpandsStays
      <3> QED
        BY <2>2, <3>2
    <2> QED
      BY <1>1, <2>1, <2>2
  <1> QED
    BY <1>1, <1>4 DEF FramesInv

LEMMA DisjointBegin ==
  ASSUME Expanding, NEW n, NEW f, NEW x, Begins(n, f, x),
         \A i \in 1 .. n : Index(i) = x => Emits(f) \cap Emits(stack[i]) = {}
  PROVE  DisjointInv'
  <1>1. /\ world' = world /\ n = Len(stack) /\ n \in Nat \ {0} /\ Len(stack') = n + 1
        /\ stack'[n + 1] = f /\ \A i \in 1 .. n : stack'[i] = stack[i]
        /\ \A i \in 1 .. n : Index(i)' = Index(i)
        /\ x = Index(n + 1)'
    BY DEF Begins, Placed
  <1>2. \A g : Emits(g)' = Emits(g)
    BY <1>1, ExpandsStays
  <1>3. \A i \in 1 .. n + 1 : i \in 1 .. n \/ i = n + 1
    BY <1>1
  <1>4. ASSUME NEW i \in 1 .. n + 1, NEW j \in 1 .. n + 1, i # j, Index(i)' = Index(j)'
        PROVE  Emits(stack'[i]) \cap Emits(stack'[j]) = {}
    <2>1. CASE i \in 1 .. n /\ j \in 1 .. n
      BY <1>1, <1>4, <2>1 DEF Expanding, DisjointInv
    <2>2. CASE i \in 1 .. n /\ j = n + 1
      <3>1. Index(i) = x /\ stack'[i] = stack[i] /\ stack'[j] = f
        BY <1>1, <1>4, <2>2
      <3> QED
        BY <2>2, <3>1
    <2>3. CASE i = n + 1 /\ j \in 1 .. n
      <3>1. Index(j) = x /\ stack'[j] = stack[j] /\ stack'[i] = f
        BY <1>1, <1>4, <2>3
      <3> QED
        BY <2>3, <3>1
    <2> QED
      BY <1>3, <1>4, <2>1, <2>2, <2>3
  <1> QED
    BY <1>1, <1>2, <1>4 DEF DisjointInv

LEMMA ScopesBegin ==
  ASSUME world \in Worlds, Expanding, NEW n, NEW f, NEW x, Begins(n, f, x), Widens(f, x)
  PROVE  ScopesInv'
  <1>1. /\ world' = world /\ n = Len(stack) /\ n \in Nat \ {0} /\ Len(stack') = n + 1
        /\ stack'[n + 1] = f /\ \A i \in 1 .. n : stack'[i] = stack[i]
        /\ \A i \in 1 .. n : Index(i)' = Index(i)
        /\ x = Index(n + 1)' /\ Imports!ToSet(used) \subseteq Imports!ToSet(used')
    BY DEF Begins, Placed
  <1>2. \A i \in 1 .. n : i \in 1 .. n + 1
    BY <1>1
  <1>3. ASSUME NEW k, NEW s
        PROVE  (Covered(k, s) => Covered(k, s)') /\ (Pending(k, s) => Pending(k, s)')
    <2>1. ASSUME NEW i \in 1 .. n, Index(i) = k, s \in Emits(stack[i]) PROVE Covered(k, s)'
      <3>1. i \in 1 .. Len(stack') /\ Index(i)' = k /\ s \in Emits(stack[i])'
        BY <1>1, <1>2, <2>1, ExpandsStays
      <3> QED
        BY <3>1 DEF Covered
    <2>2. ASSUME NEW i \in 1 .. n, Index(i) = k, stack[i].kind # "local", stack[i].file = s
          PROVE  Pending(k, s)'
      <3>1. i \in 1 .. Len(stack') /\ Index(i)' = k /\ stack'[i].kind # "local" /\ stack'[i].file = s
        BY <1>1, <1>2, <2>2
      <3> QED
        BY <3>1 DEF Pending
    <2> QED
      BY <1>1, <2>1, <2>2 DEF Covered, Pending
  <1>4. ASSUME f.kind # "local" PROVE Covered(x, f.file)' /\ Pending(x, f.file)'
    <2>1. n + 1 \in 1 .. Len(stack') /\ Index(n + 1)' = x /\ stack'[n + 1] = f
      BY <1>1
    <2>2. f.file \in Emits(stack[n + 1])'
      BY <1>4, <2>1 DEF Emits
    <2> QED
      BY <1>4, <2>1, <2>2 DEF Covered, Pending
  <1>5. /\ scopes' \in Seq(SUBSET Imports!Sources) /\ Len(scopes') = x /\ Len(scopes) <= x
        /\ \A k \in 1 .. Len(scopes) : scopes[k] \subseteq scopes'[k]
    BY DEF Widens
  <1>6. ASSUME NEW k \in 1 .. x, NEW l \in scopes'[k]
        PROVE  \/ k \in 1 .. Len(scopes) /\ l \in scopes[k]
               \/ /\ k = x /\ l # Imports!Entry /\ Imports!Final(l) \in scopes'[k]
                  /\ Imports!Final(l) \in Imports!ToSet(used')
                  /\ Imports!Final(l) = l => f.kind # "local" /\ f.file = l
    BY DEF Widens
  <1>7. ASSUME NEW k \in 1 .. x, NEW l \in scopes'[k]
        PROVE  /\ l # Imports!Entry /\ Imports!Final(l) \in scopes'[k]
               /\ Imports!Final(l) \in Imports!ToSet(used')
               /\ Imports!Final(l) = l =>
                     /\ Covered(k, l)'
                     /\ Pending(k, l)' \/ Imports!TopImports[l] \subseteq scopes'[k]
    <2>1. CASE k \in 1 .. Len(scopes) /\ l \in scopes[k]
      <3>1. /\ l # Imports!Entry /\ Imports!Final(l) \in scopes[k]
            /\ Imports!Final(l) \in Imports!ToSet(used)
            /\ Imports!Final(l) = l =>
                  Covered(k, l) /\ (Pending(k, l) \/ Imports!TopImports[l] \subseteq scopes[k])
        BY <2>1 DEF Expanding, ScopesInv
      <3> QED
        BY <1>1, <1>3, <1>5, <2>1, <3>1
    <2>2. CASE ~ (k \in 1 .. Len(scopes) /\ l \in scopes[k])
      BY <1>4, <1>6, <2>2
    <2> QED
      BY <2>1, <2>2
  <1>8. Len(scopes') = Index(Len(stack))'
    BY <1>1, <1>5 DEF Index, Imports!Level
  <1>9. Imports!ToSet(used)' = Imports!ToSet(used')
    BY DEF Imports!ToSet
  <1> QED
    BY <1>1, <1>5, <1>7, <1>8, <1>9, WorldStays DEF ScopesInv

LEMMA CacheBegin ==
  ASSUME Expanding, NEW n, NEW f, NEW x, Begins(n, f, x), Answered', cached \subseteq cached',
         f.file \in Urls => f.file \in cached'
  PROVE  CacheInv'
  <1>1. /\ n = Len(stack) /\ n \in Nat \ {0} /\ Len(stack') = n + 1
        /\ stack'[n + 1] = f /\ \A i \in 1 .. n : stack'[i] = stack[i]
    BY DEF Begins
  <1>2. \A i \in 1 .. n + 1 : i \in 1 .. n \/ i = n + 1
    BY <1>1
  <1>3. \A i \in 1 .. n + 1 : stack'[i].file \in Urls => stack'[i].file \in cached'
    BY <1>1, <1>2 DEF Expanding, CacheInv
  <1> QED
    BY <1>1, <1>3 DEF CacheInv, Answered

LEMMA EnterEnvironmentExpands ==
  ASSUME world \in Worlds, Expanding, Imports!FetchedOnce, Imports!EnterEnvironment
  PROVE  Expanding' /\ Imports!FetchedOnce'
  <1>1. PICK n : n = Len(stack)
    OBVIOUS
  <1>2. /\ n \in Nat \ {0} /\ n \in 1 .. n /\ Imports!Top = stack[n] /\ stack[n] \in Frames
        /\ Imports!Item = Head(stack[n].rest) /\ Imports!Final(stack[n].file) = stack[n].file
        /\ Len(scopes) = Index(n) /\ Index(n) \in 1 .. n /\ scopes \in Seq(SUBSET Imports!Sources)
        /\ Len(active) \in 1 .. Len(active) /\ active[Len(active)] = stack[n].file
    BY <1>1, TopIs
  <1>3. PICK d : d = Imports!Item.defs
    OBVIOUS
  <1>4. PICK f : f = [file |-> stack[n].file, kind |-> "local", rest |-> d, out |-> <<>>]
    OBVIOUS
  <1>5. /\ stack[n].rest # <<>> /\ Imports!Item.kind = "local"
        /\ stack' = Append(stack, f) /\ scopes' = Append(scopes, {})
        /\ world' = world /\ active' = active /\ edges' = edges
        /\ used' = used /\ cached' = cached /\ fetched' = fetched
    BY <1>2, <1>3, <1>4 DEF Imports!EnterEnvironment, Imports!At, Imports!Frame, Imports!LocalScope
  <1>6. /\ d \in Seq(Imports!Directives(Imports!Sources)) /\ d \in Seq(Imports!Definitions(Imports!Sources))
        /\ stack[n].kind # "local"
    BY <1>1, <1>3, <1>5, ItemIs, DefinitionIs, DirectivesAre
  <1>7. f \in Frames /\ f.kind = "local" /\ f.file = stack[n].file /\ f.rest = d /\ f.out = <<>>
    BY <1>2, <1>4, <1>6 DEF Frames
  <1>8. Adds(Frames, stack, f, stack')
    BY <1>5, <1>7, PushedTop, StackIs DEF Expanding
  <1>9. Pushed(f)
    BY <1>8 DEF Adds, Pushed
  <1>10. /\ StackInv' /\ \A i \in 1 .. n : Placed(i)
         /\ Imports!Level(n + 1)' = Imports!Level(n) /\ Index(n + 1)' = Index(n) + 1
         /\ ListOf(n + 1)' = d
    <2>1. /\ f.kind \in {"import", "local"} /\ Imports!Final(f.file) = f.file /\ Imports!Top.rest # <<>>
          /\ f.kind = "local" =>
                Imports!Item.kind = "local" /\ Imports!Top.kind # "local" /\ f.file = Imports!Top.file
          /\ f.kind = "import" =>
                /\ Imports!Item.kind = "import" /\ Imports!Item.to \in Imports!Sources
                /\ Imports!Final(Imports!Item.to) = f.file
      BY <1>2, <1>5, <1>6, <1>7
    <2>2. /\ StackInv' /\ \A i \in 1 .. n : Placed(i)
          /\ Imports!Level(n + 1)' = Imports!Level(n) + IF f.kind = "local" THEN 0 ELSE 1
          /\ Index(n + 1)' = Index(n) + IF f.kind = "local" THEN 1 ELSE 0
          /\ ListOf(n + 1)' = IF f.kind = "local" THEN Imports!Item.defs ELSE world.content[f.file]
      BY <1>1, <1>5, <1>9, <2>1, PushedStays DEF Expanding
    <2>3. Imports!Level(n) \in Nat
      BY <1>1, <1>2, StackIs DEF Expanding
    <2> QED
      BY <1>3, <1>7, <2>2, <2>3
  <1>11. PICK x : x = Index(n) + 1 /\ x \in Nat \ {0}
    BY <1>2
  <1>12. Begins(n, f, x)
    BY <1>1, <1>2, <1>5, <1>9, <1>10, <1>11 DEF Begins, Pushed
  <1>13. Adds(SUBSET Imports!Sources, scopes, {}, scopes')
    BY <1>2, <1>5, PushedTop
  <1>14. /\ scopes' \in Seq(SUBSET Imports!Sources) /\ Len(scopes') = x /\ scopes'[x] = {}
         /\ \A k \in 1 .. Index(n) : scopes'[k] = scopes[k]
    BY <1>2, <1>11, <1>13 DEF Adds
  <1>15. Widens(f, x)
    <2>1. \A k \in 1 .. x : k \in 1 .. Index(n) \/ k = x
      BY <1>2, <1>11
    <2> QED
      BY <1>2, <1>11, <1>14, <2>1 DEF Widens
  <1>16. Fresh(f, d, scopes'[x])
    BY <1>6, <1>7 DEF Fresh
  <1>17. FramesInv' /\ ScopesInv'
    BY <1>10, <1>12, <1>15, <1>16, FramesBegin, ScopesBegin
  <1>18. Emits(f) = {}
    BY <1>7, <1>16, FreshExpands
  <1>19. DisjointInv'
    BY <1>12, <1>18, DisjointBegin
  <1>20. Answered' /\ Imports!FetchedOnce'
    BY <1>5, CacheRests DEF Expanding, CacheInv, Answered
  <1>21. CacheInv'
    <2>1. f.file \in Urls => f.file \in cached'
      BY <1>1, <1>2, <1>5, <1>7 DEF Expanding, CacheInv
    <2> QED
      BY <1>5, <1>12, <1>20, <2>1, CacheBegin
  <1>22. UsedInv'
    BY <1>5, WorldStays DEF Expanding, UsedInv
  <1>23. ActiveInv'
    <2>1. Len(active) = Imports!Level(n) /\ Len(stack') = n + 1 /\ stack'[n + 1] = f
      BY <1>1, <1>12 DEF Begins, Expanding, ActiveInv
    <2>2. \A i \in 1 .. n : active[Imports!Level(i)] = stack[i].file
      BY <1>1 DEF Expanding, ActiveInv
    <2>3. \A i \in 1 .. n : Imports!Level(i)' = Imports!Level(i) /\ stack'[i] = stack[i]
      BY <1>12 DEF Begins, Placed
    <2>4. \A i \in 1 .. n + 1 : i \in 1 .. n \/ i = n + 1
      BY <1>2
    <2>5. \A i \in 1 .. n + 1 : active'[Imports!Level(i)'] = stack'[i].file
      BY <1>2, <1>5, <1>7, <1>10, <2>1, <2>2, <2>3, <2>4
    <2>6. Len(active') = Imports!Level(Len(stack))'
      BY <1>5, <1>10, <2>1 DEF Imports!Level
    <2> QED
      BY <1>5, <2>1, <2>5, <2>6, WorldStays DEF Expanding, ActiveInv
  <1> QED
    BY <1>10, <1>17, <1>19, <1>20, <1>21, <1>22, <1>23 DEF Expanding

LEMMA EnterExpands ==
  ASSUME world \in Worlds, Expanding, fetched \in Seq(Urls), Imports!FetchedOnce, Imports!Enter
  PROVE  Expanding' /\ Imports!FetchedOnce' /\ fetched' \in Seq(Urls)
  <1>1. PICK n : n = Len(stack)
    OBVIOUS
  <1>2. /\ n \in Nat \ {0} /\ n \in 1 .. n /\ Imports!Top = stack[n] /\ stack[n] \in Frames
        /\ Len(scopes) = Index(n) /\ Index(n) \in 1 .. n /\ scopes \in Seq(SUBSET Imports!Sources)
        /\ scopes # <<>> /\ Imports!Last(scopes) = ScopeOf(n)
        /\ Len(active) \in 1 .. Len(active) /\ active[Len(active)] = stack[n].file
        /\ Imports!Entry \in Imports!ToSet(active)
        /\ stack[n].file \in Imports!ToSet(active)
        /\ Imports!ToSet(active) \subseteq Imports!ToSet(used)
    BY <1>1, TopIs
  <1>3. PICK l : l = Imports!Item.to
    OBVIOUS
  <1>4. PICK s : s = Imports!Final(l)
    OBVIOUS
  <1>5. PICK f : f = [file |-> s, kind |-> "import", rest |-> world.content[s], out |-> <<>>]
    OBVIOUS
  <1>6. /\ Imports!ReadsWell /\ (s = l \/ s \notin Imports!Last(scopes)) /\ s \notin Imports!ToSet(active)
        /\ stack' = Append(stack, f)
        /\ scopes' = Append(Imports!Front(scopes), Imports!Last(scopes) \cup {l, s})
        /\ active' = Append(active, s) /\ edges' = Append(edges, <<stack[n].file, s>>)
        /\ used' = IF s \in Imports!ToSet(used) THEN used ELSE Append(used, s)
    BY <1>2, <1>3, <1>4, <1>5
       DEF Imports!Enter, Imports!KnownUnderFinal, Imports!IsActive, Imports!Reserved,
           Imports!FirstVisit, Imports!Frame
  <1>7. /\ Answered' /\ fetched' \in Seq(Urls) /\ Imports!FetchedOnce' /\ world' = world
        /\ cached' = cached \cup Imports!CacheEntries(l) /\ l \in Imports!Sources
        /\ l \notin Imports!Last(scopes) /\ stack[n].rest # <<>> /\ Imports!Item.kind = "import"
        /\ l # Nowhere /\ l \notin Imports!ToSet(active)
    BY <1>1, <1>3, <1>6, ReadsWellIs
  <1>8. /\ s \in Imports!Sources /\ Imports!Final(s) = s
        /\ l \in Urls => s \in Urls
        /\ l \notin Urls => s = l
    BY <1>4, <1>7, WorldIs DEF Locator
  <1>9. s \in Imports!AllImports[stack[n].file]
    BY <1>1, <1>3, <1>4, <1>7, ItemIs
  <1>10. l # Imports!Entry /\ s # Imports!Entry /\ s \notin ScopeOf(n) /\ l \notin ScopeOf(n)
    BY <1>2, <1>6, <1>7
  <1>11. f \in Frames /\ f.kind = "import" /\ f.file = s /\ f.rest = world.content[s] /\ f.out = <<>>
    <2>1. world.content[s] \in Seq(Imports!Definitions(Imports!Sources))
      BY <1>8, WorldIs DEF Text
    <2> QED
      BY <1>5, <1>8, <2>1 DEF Frames
  <1>12. Pushed(f)
    <2>1. Adds(Frames, stack, f, stack')
      BY <1>6, <1>11, PushedTop, StackIs DEF Expanding
    <2> QED
      BY <2>1 DEF Adds, Pushed
  <1>13. /\ StackInv' /\ \A i \in 1 .. n : Placed(i)
         /\ Imports!Level(n + 1)' = Imports!Level(n) + 1 /\ Index(n + 1)' = Index(n)
         /\ ListOf(n + 1)' = world.content[s]
    <2>1. /\ f.kind \in {"import", "local"} /\ Imports!Final(f.file) = f.file /\ Imports!Top.rest # <<>>
          /\ f.kind = "local" =>
                Imports!Item.kind = "local" /\ Imports!Top.kind # "local" /\ f.file = Imports!Top.file
          /\ f.kind = "import" =>
                /\ Imports!Item.kind = "import" /\ Imports!Item.to \in Imports!Sources
                /\ Imports!Final(Imports!Item.to) = f.file
      BY <1>2, <1>3, <1>4, <1>7, <1>8, <1>11
    <2>2. /\ StackInv' /\ \A i \in 1 .. n : Placed(i)
          /\ Imports!Level(n + 1)' = Imports!Level(n) + IF f.kind = "local" THEN 0 ELSE 1
          /\ Index(n + 1)' = Index(n) + IF f.kind = "local" THEN 1 ELSE 0
          /\ ListOf(n + 1)' = IF f.kind = "local" THEN Imports!Item.defs ELSE world.content[f.file]
      BY <1>1, <1>7, <1>12, <2>1, PushedStays DEF Expanding
    <2> QED
      BY <1>2, <1>11, <2>2
  <1>14. PICK x : x = Index(n) /\ x \in Nat \ {0}
    BY <1>2
  <1>15. /\ used' \in Seq(Imports!Sources) /\ Imports!IsInjective(used')
         /\ Imports!ToSet(used') = Imports!ToSet(used) \cup {s}
    BY <1>6, <1>8, AppendHas, AppendedOnce DEF Expanding, UsedInv
  <1>16. Begins(n, f, x)
    BY <1>1, <1>2, <1>7, <1>12, <1>13, <1>14, <1>15 DEF Begins, Pushed
  <1>17. PICK y \in SUBSET Imports!Sources : y = Imports!Last(scopes) \cup {l, s}
    <2>1. Imports!Last(scopes) \subseteq Imports!Sources
      BY <1>2 DEF ScopeOf
    <2> QED
      BY <1>7, <1>8, <2>1
  <1>18. /\ scopes' \in Seq(SUBSET Imports!Sources) /\ Len(scopes') = x /\ scopes'[x] = y
         /\ \A k \in 1 .. x - 1 : scopes'[k] = scopes[k]
    <2>1. Replaces(SUBSET Imports!Sources, scopes, y, scopes')
      BY <1>2, <1>6, <1>17, ReplacedTop
    <2> QED
      BY <1>2, <1>14, <2>1 DEF Replaces
  <1>19. Widens(f, x)
    <2>1. \A k \in 1 .. x : k = x \/ k \in 1 .. x - 1
      BY <1>14
    <2>2. y = scopes[x] \cup {l, s}
      BY <1>2, <1>14, <1>17 DEF ScopeOf
    <2>3. \A k \in 1 .. x : scopes[k] \subseteq scopes'[k]
      BY <1>18, <2>1, <2>2
    <2>4. ASSUME NEW k \in 1 .. x, NEW t \in scopes'[k], t \notin scopes[k]
          PROVE  /\ k = x /\ t # Imports!Entry /\ Imports!Final(t) \in scopes'[k]
                 /\ Imports!Final(t) \in Imports!ToSet(used')
                 /\ Imports!Final(t) = t => f.kind # "local" /\ f.file = t
      <3>1. k = x
        BY <1>18, <2>1, <2>4
      <3>2. t = l \/ t = s
        BY <1>18, <2>2, <2>4, <3>1
      <3>3. Imports!Final(t) = s
        BY <1>4, <1>8, <3>2
      <3>4. s \in scopes'[k] /\ s \in Imports!ToSet(used')
        BY <1>15, <1>18, <2>2, <3>1
      <3> QED
        BY <1>10, <1>11, <3>1, <3>2, <3>3, <3>4
    <2> QED
      BY <1>2, <1>14, <1>18, <2>3, <2>4 DEF Widens
  <1>20. Fresh(f, world.content[s], scopes'[x])
    <2>1. world.content[s] \in Seq(Imports!Definitions(Imports!Sources))
      BY <1>8, WorldIs DEF Text
    <2> QED
      BY <1>8, <1>11, <1>17, <1>18, <2>1 DEF Fresh
  <1>21. FramesInv' /\ ScopesInv'
    BY <1>13, <1>16, <1>19, <1>20, FramesBegin, ScopesBegin
  <1>22. Emits(f) = {s}
    BY <1>11, <1>20, FreshExpands
  <1>23. DisjointInv'
    <2>1. ASSUME NEW i \in 1 .. n, Index(i) = x PROVE s \notin Emits(stack[i])
      <3>1. Expands(stack[i], ListOf(i), ScopeOf(i), Imports!ToSet(used)) /\ ScopeOf(i) = ScopeOf(n)
        BY <1>1, <1>14, <2>1 DEF Expanding, FramesInv, ScopeOf
      <3> QED
        BY <1>10, <3>1 DEF Expands
    <2> QED
      BY <1>16, <1>22, <2>1, DisjointBegin
  <1>24. CacheInv'
    <2>1. s \in Urls => s \in cached'
      BY <1>4, <1>7, <1>8 DEF Imports!CacheEntries
    <2> QED
      BY <1>7, <1>11, <1>16, <2>1, CacheBegin
  <1>25. Imports!ToSet(active') = Imports!ToSet(active) \cup {s}
    BY <1>6, <1>8, AppendHas DEF Expanding, ActiveInv
  <1>26. UsedInv'
    <2>1. PICK R \in SUBSET Imports!Sources :
             /\ R = Imports!Reachable /\ \A t \in R : Imports!AllImports[t] \subseteq R
      <3>1. {Imports!Entry} \in SUBSET Imports!Sources
        BY WorldIs
      <3> QED
        BY <3>1, ClosureIs, ImportsAre DEF Imports!Reachable
    <2>2. s \in R
      BY <1>2, <1>9, <2>1 DEF Expanding, UsedInv
    <2>3. /\ Imports!ToSet(used) \subseteq R /\ Imports!ToSet(active) \subseteq Imports!ToSet(used)
          /\ \A t \in Imports!ToSet(used) :
                /\ Imports!Final(t) = t
                /\ \/ t \in Imports!ToSet(active)
                   \/ Imports!AllImports[t] \subseteq Imports!ToSet(used) /\ (Direct => Acyclic(t))
      BY <2>1 DEF Expanding, UsedInv
    <2>4. /\ Imports!ToSet(used') \subseteq R /\ Imports!ToSet(active') \subseteq Imports!ToSet(used')
          /\ \A t \in Imports!ToSet(used') :
                /\ Imports!Final(t) = t
                /\ \/ t \in Imports!ToSet(active')
                   \/ Imports!AllImports[t] \subseteq Imports!ToSet(used') /\ (Direct => Acyclic(t))
      BY <1>8, <1>15, <1>25, <2>2, <2>3
    <2>5. Imports!ToSet(used)' = Imports!ToSet(used') /\ Imports!ToSet(active)' = Imports!ToSet(active')
      BY DEF Imports!ToSet
    <2> QED
      BY <1>7, <1>15, <2>1, <2>4, <2>5, WorldStays DEF UsedInv
  <1>27. ActiveInv'
    <2>1. PICK c : c = Len(active)
      OBVIOUS
    <2>2. /\ c = Imports!Level(n) /\ c \in Nat \ {0} /\ Len(edges) = c - 1 /\ Len(edges) \in Nat
          /\ \A i \in 1 .. n : active[Imports!Level(i)] = stack[i].file /\ Imports!Level(i) \in 1 .. c
      <3>1. /\ c = Imports!Level(n) /\ Len(edges) + 1 = c /\ Len(edges) \in Nat
            /\ \A i \in 1 .. n : active[Imports!Level(i)] = stack[i].file
        BY <1>1, <2>1 DEF Expanding, ActiveInv
      <3>2. \A i \in 1 .. n : Imports!Level(i) \in 1 .. c
        <4> TAKE i \in 1 .. n
        <4>1. Imports!Level(i) \in 1 .. i /\ Imports!Level(n) \in 1 .. n /\ (i = n \/ i < n)
          BY <1>1, <1>2, StackIs DEF Expanding
        <4>2. Imports!Level(i) <= Imports!Level(n)
          BY <1>1, <1>2, <4>1 DEF Expanding, StackInv, Ordered
        <4> QED
          BY <3>1, <4>1, <4>2
      <3>3. c \in Nat \ {0} /\ Len(edges) = c - 1
        BY <1>2, <2>1, <3>1
      <3> QED
        BY <3>1, <3>2, <3>3
    <2>3. Adds(Imports!Sources, active, s, active') /\ Imports!IsInjective(active')
      BY <1>6, <1>8, PushedTop, AppendedOnce DEF Expanding, ActiveInv
    <2>4. /\ active' \in Seq(Imports!Sources) /\ Len(active') = c + 1 /\ active'[c + 1] = s
          /\ \A i \in 1 .. c : active'[i] = active[i]
      BY <2>1, <2>3 DEF Adds
    <2>5. <<stack[n].file, s>> \in Imports!Sources \X Imports!Sources
      BY <1>2, <1>8 DEF Frames
    <2>6. Adds(Imports!Sources \X Imports!Sources, edges, <<stack[n].file, s>>, edges')
      BY <1>6, <2>5, PushedTop DEF Expanding, ActiveInv
    <2>7. /\ edges' \in Seq(Imports!Sources \X Imports!Sources) /\ Len(edges') = c
          /\ edges'[c] = <<stack[n].file, s>>
          /\ \A i \in 1 .. c - 1 : edges'[i] = edges[i]
      BY <2>2, <2>6 DEF Adds
    <2>8. \A i \in 1 .. n + 1 : active'[Imports!Level(i)'] = stack'[i].file
      <3>1. \A i \in 1 .. n : Imports!Level(i)' = Imports!Level(i) /\ stack'[i] = stack[i]
        BY <1>16 DEF Begins, Placed
      <3>2. stack'[n + 1] = f /\ Imports!Level(n + 1)' = c + 1
        BY <1>13, <1>16, <2>2 DEF Begins
      <3>3. \A i \in 1 .. n + 1 : i \in 1 .. n \/ i = n + 1
        BY <1>2
      <3>4. \A i \in 1 .. n : active'[Imports!Level(i)] = stack[i].file
        BY <2>2, <2>4
      <3> QED
        BY <1>11, <2>4, <3>1, <3>2, <3>3, <3>4
    <2>9. ASSUME NEW i \in 1 .. c
          PROVE  edges'[i] = <<active'[i], active'[i + 1]>> /\ active'[i + 1] \in Imports!AllImports[active'[i]]
      <3>1. CASE i = c
        BY <1>2, <1>9, <2>1, <2>2, <2>4, <2>7, <3>1
      <3>2. CASE i # c
        <4>1. i \in 1 .. c - 1 /\ i \in 1 .. c /\ i + 1 \in 1 .. c
          BY <2>2, <3>2
        <4>2. edges[i] = <<active[i], active[i + 1]>> /\ active[i + 1] \in Imports!AllImports[active[i]]
          BY <2>2, <4>1 DEF Expanding, ActiveInv
        <4> QED
          BY <2>4, <2>7, <4>1, <4>2
      <3> QED
        BY <3>1, <3>2
    <2>10. Len(active') = Imports!Level(Len(stack))' /\ Len(stack') = n + 1
      <3>1. Len(stack') = n + 1
        BY <1>16 DEF Begins
      <3> QED
        BY <1>13, <2>2, <2>4, <3>1 DEF Imports!Level
    <2> QED
      BY <1>7, <2>2, <2>3, <2>4, <2>7, <2>8, <2>9, <2>10, WorldStays DEF ActiveInv
  <1> QED
    BY <1>7, <1>13, <1>21, <1>23, <1>24, <1>26, <1>27 DEF Expanding

-----------------------------------------------------------------------------
(* The first state.                                                            *)
LEMMA SingleIs ==
  ASSUME NEW S, NEW e \in S
  PROVE  /\ <<e>> \in Seq(S) /\ Len(<<e>>) = 1 /\ <<e>>[1] = e
         /\ Imports!ToSet(<<e>>) = {e} /\ Imports!IsInjective(<<e>>)
  <1>0. <<e>> \in Seq(S)
    OBVIOUS
  <1>1. PICK q \in Seq(S) : q = <<e>>
    BY <1>0
  <1>2. Len(q) = 1 /\ q[1] = e
    BY <1>1
  <1>3. Imports!ToSet(q) = {e}
    <2>1. \A x \in Imports!ToSet(q) : x = e
      BY <1>2, ElementsOf
    <2>2. e \in Imports!ToSet(q)
      BY <1>2, ElementsOf
    <2> QED
      BY <2>1, <2>2
  <1>4. Imports!IsInjective(q)
    BY <1>2, InjectiveIs
  <1> QED
    BY <1>1, <1>2, <1>3, <1>4

LEMMA InitExpands ==
  ASSUME Imports!Init
  PROVE  Expanding /\ fetched \in Seq(Urls) /\ Imports!FetchedOnce
  <1>1. PICK s : s = Imports!Entry
    OBVIOUS
  <1>2. PICK f : f = [file |-> s, kind |-> "entry", rest |-> world.content[s], out |-> <<>>]
    OBVIOUS
  <1>3. /\ world \in Worlds /\ stack = <<f>> /\ scopes = <<{}>> /\ active = <<s>> /\ used = <<s>>
        /\ edges = <<>> /\ cached = Imports!CacheEntries(world.entry)
        /\ fetched = IF world.entry \in Urls THEN <<world.entry>> ELSE <<>>
        /\ Imports!Final(world.entry) = s
    BY <1>1, <1>2 DEF Imports!Init, Imports!Frame, Imports!Entry
  <1>4. s \in Imports!Sources /\ Imports!Final(s) = s /\ Text(s)
    BY <1>1, <1>3, WorldIs
  <1>5. f \in Frames /\ f.kind = "entry" /\ f.file = s /\ f.rest = world.content[s] /\ f.out = <<>>
    BY <1>2, <1>4 DEF Frames, Text
  <1>6. stack \in Seq(Frames) /\ Len(stack) = 1 /\ stack[1] = f /\ stack # <<>>
    BY <1>3, <1>5
  <1>7. Imports!Level(1) = 1 /\ Index(1) = 1
    <2>1. LevelOf(stack, 0) = 0
      <3>1. {j \in 1 .. 0 : stack[j].kind # "local"} = {}
        OBVIOUS
      <3> QED
        BY <3>1, FS_EmptySet DEF LevelOf
    <2>2. LevelOf(stack, 0 + 1) = LevelOf(stack, 0) + IF stack[0 + 1].kind = "local" THEN 0 ELSE 1
      BY LevelOfStep
    <2>3. LevelOf(stack, 1) = 1
      BY <1>5, <1>6, <2>1, <2>2
    <2>4. Imports!Level(1) = 1
      BY <2>3, LevelIs
    <2> QED
      BY <2>4 DEF Index
  <1>8. \A i \in 1 .. Len(stack) : i = 1
    BY <1>6
  <1>9. StackInv
    <2>1. FrameAt(1)
      BY <1>4, <1>5, <1>6, <1>7 DEF FrameAt
    <2>2. \A i \in 2 .. Len(stack) : Below(i)
      BY <1>6
    <2>3. \A i, j \in 1 .. Len(stack) : Ordered(i, j)
      BY <1>8 DEF Ordered
    <2> QED
      BY <1>1, <1>5, <1>6, <1>8, <2>1, <2>2, <2>3 DEF StackInv
  <1>10. scopes \in Seq(SUBSET Imports!Sources) /\ Len(scopes) = 1 /\ scopes[1] = {}
    BY <1>3
  <1>11. Fresh(f, world.content[s], scopes[1])
    BY <1>1, <1>4, <1>5 DEF Fresh, Text
  <1>12. FramesInv
    <2>1. ListOf(1) = world.content[s] /\ ScopeOf(1) = scopes[1]
      BY <1>5, <1>6, <1>7 DEF ListOf, ScopeOf
    <2>2. Expands(stack[1], ListOf(1), ScopeOf(1), Imports!ToSet(used))
      BY <1>3, <1>6, <1>11, <2>1, FreshExpands
    <2> QED
      BY <1>8, <2>2 DEF FramesInv
  <1>13. DisjointInv
    BY <1>8 DEF DisjointInv
  <1>14. ScopesInv
    BY <1>6, <1>7, <1>10 DEF ScopesInv
  <1>15. active \in Seq(Imports!Sources) /\ Len(active) = 1 /\ active[1] = s /\ Imports!ToSet(active) = {s}
    BY <1>3, <1>4, SingleIs
  <1>16. used \in Seq(Imports!Sources) /\ Imports!ToSet(used) = {s} /\ Imports!IsInjective(used)
         /\ Imports!IsInjective(active)
    BY <1>3, <1>4, SingleIs
  <1>17. UsedInv
    <2>1. {s} \subseteq Imports!Reachable
      BY <1>1, <1>3, <1>4, ClosureIs, ImportsAre DEF Imports!Reachable
    <2> QED
      BY <1>4, <1>15, <1>16, <2>1 DEF UsedInv
  <1>18. ActiveInv
    BY <1>3, <1>5, <1>6, <1>7, <1>8, <1>15, <1>16 DEF ActiveInv
  <1>19. world.entry \in Imports!Sources /\ Locator(world.entry)
    <2>1. world.entry \in Imports!Sources
      BY <1>3, FrontEndAssumption, Zenon DEF Imports!WorldsAssumption, Imports!Sources
    <2> QED
      BY <1>3, <2>1, WorldIs
  <1>20. CacheInv
    <2>1. cached = IF world.entry \in Urls THEN {world.entry, s} ELSE {}
      BY <1>3 DEF Imports!CacheEntries
    <2>2. /\ world.entry \in Urls => s \in Urls
          /\ world.entry \notin Urls => s = world.entry
      BY <1>3, <1>19 DEF Locator
    <2>3. \A i \in 1 .. Len(fetched) : fetched[i] \in cached
      BY <1>3, <2>1
    <2> QED
      BY <1>3, <1>4, <1>5, <1>6, <1>8, <1>19, <2>1, <2>2, <2>3 DEF CacheInv
  <1>21. fetched \in Seq(Urls) /\ \A i, j \in 1 .. Len(fetched) : ~ (i < j)
    BY <1>3
  <1>22. Imports!FetchedOnce
    BY <1>21 DEF Imports!FetchedOnce
  <1> QED
    BY <1>9, <1>12, <1>13, <1>14, <1>17, <1>18, <1>20, <1>21, <1>22 DEF Expanding

(* The shape of a state of the expansion.                                      *)
LEMMA TypeIs == world \in Worlds /\ Expanding => Imports!TypeOK
  <1> SUFFICES ASSUME world \in Worlds, Expanding PROVE Imports!TypeOK
    OBVIOUS
  <1>1. PICK n : n = Len(stack)
    OBVIOUS
  <1>2. /\ n \in Nat \ {0} /\ n \in 1 .. n /\ Len(active) \in 1 .. Len(active)
        /\ Len(scopes) = Index(n) /\ scopes \in Seq(SUBSET Imports!Sources)
    BY <1>1, TopIs
  <1>3. \A i \in 1 .. n :
           /\ stack[i].kind \in {"entry", "import", "local"} /\ (stack[i].kind = "entry" <=> i = 1)
           /\ active[Imports!Level(i)] = stack[i].file
    BY <1>1, StackIs DEF Expanding, StackInv, FrameAt, ActiveInv, Frames
  <1>4. /\ active \in Seq(Imports!Sources) /\ Imports!IsInjective(active)
        /\ Len(active) = Imports!Level(n) /\ Len(edges) + 1 = Len(active) /\ cached \subseteq Urls
    BY <1>1 DEF Expanding, ActiveInv, CacheInv
  <1>5. Len(scopes) = 1 + (n - Imports!Level(n))
    BY <1>2 DEF Index
  <1>6. /\ IsFiniteSet(Locators) /\ Imports!Sources \subseteq Locators
    BY WorldIs
  <1>7. \A k \in 1 .. Len(scopes) : scopes[k] \subseteq Locators
    BY <1>2, <1>6
  <1>8. Len(active) <= Cardinality(Locators)
    <2>0. Cardinality(Locators) \in Nat
      BY <1>6, FS_CardinalityType
    <2>1. Cardinality(Locators) \in Nat /\ Len(active) \in Nat
      BY <1>4, <2>0
    <2>2. IsFiniteSet(1 .. Len(active)) /\ Cardinality(1 .. Len(active)) = Len(active)
      <3>1. PICK k \in Nat \ {0} : k = Len(active)
        BY <1>2, <2>1
      <3>2. IsFiniteSet(1 .. k) /\ Cardinality(1 .. k) = k
        BY FS_Interval
      <3> QED
        BY <3>1, <3>2
    <2>3. active \in [1 .. Len(active) -> Locators]
      BY <1>4, <1>6
    <2>4. \A i, j \in 1 .. Len(active) : active[i] = active[j] => i = j
      BY <1>4, InjectiveIs
    <2>5. ~ (Cardinality(Locators) < Len(active))
      <3> SUFFICES ASSUME Cardinality(Locators) < Cardinality(1 .. Len(active)) PROVE FALSE
        BY <2>2
      <3> QED
        BY <1>6, <2>2, <2>3, <2>4, FS_PigeonHole
    <2> QED
      BY <2>1, <2>5
  <1>9. n <= 2 * Imports!Level(n)
    <2>1. FrameAt(n)
      BY <1>1, <1>2 DEF Expanding, StackInv
    <2> QED
      BY <1>2, <2>1 DEF FrameAt
  <1>10. Imports!Cardinality(Locators) = Cardinality(Locators)
    BY Zenon DEF Imports!Cardinality, Cardinality
  <1>11. n <= 2 * Imports!Cardinality(Locators)
    <2>0. Cardinality(Locators) \in Nat
      BY <1>6, FS_CardinalityType
    <2>1. Len(active) \in Nat /\ Cardinality(Locators) \in Nat
      BY <1>4, <2>0
    <2> QED
      BY <1>2, <1>4, <1>8, <1>9, <1>10, <2>1
  <1> QED
    BY <1>1, <1>3, <1>4, <1>5, <1>7, <1>11 DEF Imports!TypeOK

-----------------------------------------------------------------------------
(* The steps that end the expansion.                                           *)
LEMMA OneMore ==
  ASSUME NEW S, NEW s \in Seq(S), NEW e \in S, NEW c, c = s \o <<e>>
  PROVE  /\ c \in Seq(S) /\ Len(c) = Len(s) + 1 /\ c[Len(s) + 1] = e
         /\ \A i \in 1 .. Len(s) : c[i] = s[i]
  OBVIOUS

LEMMA CycleIs ==
  ASSUME world \in Worlds, Expanding, NEW n, n = Len(stack), NEW r \in Imports!ToSet(active),
         r \in Imports!AllImports[stack[n].file],
         NEW c, c = Imports!CycleFrom(r, <<stack[n].file, r>>)
  PROVE  /\ c # <<>> /\ c[1][1] = Imports!Last(c)[2]
         /\ \A i \in 1 .. Len(c) :
               /\ c[i][1] \in Imports!Sources /\ c[i][2] \in Imports!AllImports[c[i][1]]
               /\ i < Len(c) => c[i][2] = c[i + 1][1]
  <1>1. PICK N : N = Len(active)
    OBVIOUS
  <1>2. /\ active \in Seq(Imports!Sources) /\ N \in Nat \ {0} /\ active[N] = stack[n].file
        /\ \A i, j \in 1 .. N : active[i] = active[j] => i = j
        /\ edges \in Seq(Imports!Sources \X Imports!Sources) /\ Len(edges) + 1 = N
        /\ \A i \in 1 .. Len(edges) :
              edges[i] = <<active[i], active[i + 1]>> /\ active[i + 1] \in Imports!AllImports[active[i]]
    BY <1>1, TopIs, InjectiveIs DEF Expanding, ActiveInv
  <1>3. Len(edges) = N - 1 /\ Len(edges) \in Nat /\ \A i \in 1 .. N : active[i] \in Imports!Sources
    BY <1>1, <1>2
  <1>4. PICK p \in 1 .. N : active[p] = r
    BY <1>1, <1>2, ElementsOf
  <1>5. Imports!SelectInSeq(active, LAMBDA x : x = r) = p
    <2>1. {i \in 1 .. Len(active) : active[i] = r} = {p}
      BY <1>1, <1>2, <1>4
    <2>2. Imports!Min({p}) = p
      BY <1>4 DEF Imports!Min
    <2> QED
      BY <2>1, <2>2 DEF Imports!SelectInSeq
  <1>6. PICK e : e = <<stack[n].file, r>>
    OBVIOUS
  <1>7. e \in Imports!Sources \X Imports!Sources /\ e[1] = active[N] /\ e[2] = r
    BY <1>1, <1>2, <1>3, <1>4, <1>6
  <1>8. PICK s : s = SubSeq(edges, p, Len(edges))
    OBVIOUS
  <1>9. /\ s \in Seq(Imports!Sources \X Imports!Sources) /\ Len(s) = N - p
        /\ \A i \in 1 .. N - p : s[i] = edges[(p + i) - 1]
    BY <1>2, <1>3, <1>4, <1>8
  <1>10. c = s \o <<e>>
    BY <1>5, <1>6, <1>8 DEF Imports!CycleFrom
  <1>11. PICK T : T = Imports!Sources \X Imports!Sources
    OBVIOUS
  <1>12. s \in Seq(T) /\ e \in T
    BY <1>7, <1>9, <1>11
  <1>13. /\ c \in Seq(T) /\ Len(c) = Len(s) + 1 /\ c[Len(s) + 1] = e
         /\ \A i \in 1 .. Len(s) : c[i] = s[i]
    BY ONLY <1>10, <1>12, OneMore
  <1>14. /\ c \in Seq(Imports!Sources \X Imports!Sources) /\ Len(c) = (N - p) + 1
         /\ c[(N - p) + 1] = e
         /\ \A i \in 1 .. N - p : c[i] = s[i]
    BY ONLY <1>9, <1>11, <1>13
  <1>15. PICK M : M = N - p /\ M \in Nat /\ N = p + M
    BY <1>2, <1>4
  <1>16. ASSUME NEW i \in 1 .. M
         PROVE  /\ c[i] = <<active[(p + i) - 1], active[p + i]>>
                /\ active[p + i] \in Imports!AllImports[active[(p + i) - 1]]
                /\ (p + i) - 1 \in 1 .. N
    <2>1. PICK k : k = (p + i) - 1
      OBVIOUS
    <2>2. k \in 1 .. Len(edges) /\ k + 1 = p + i /\ k \in 1 .. N
      BY <1>3, <1>4, <1>15, <2>1
    <2>3. edges[k] = <<active[k], active[k + 1]>> /\ active[k + 1] \in Imports!AllImports[active[k]]
      BY <1>2, <2>2
    <2>4. c[i] = edges[k]
      BY <1>9, <1>14, <1>15, <2>1
    <2> QED
      BY <2>1, <2>2, <2>3, <2>4
  <1>17. Len(c) = M + 1 /\ c[M + 1] = e
    BY <1>14, <1>15
  <1>18. ASSUME NEW i \in 1 .. M + 1 PROVE c[i][1] = active[(p + i) - 1] /\ (p + i) - 1 \in 1 .. N
    <2>1. CASE i \in 1 .. M
      <3>1. c[i] = <<active[(p + i) - 1], active[p + i]>> /\ (p + i) - 1 \in 1 .. N
        BY ONLY <1>16, <2>1
      <3> QED
        BY ONLY <3>1
    <2>2. CASE i = M + 1
      <3>1. (p + i) - 1 = N
        BY <1>4, <1>15, <2>2
      <3> QED
        BY <1>2, <1>7, <1>17, <2>2, <3>1
    <2> QED
      BY <1>15, <2>1, <2>2
  <1>19. ASSUME NEW i \in 1 .. M + 1 PROVE c[i][2] \in Imports!AllImports[c[i][1]]
    <2>1. CASE i \in 1 .. M
      BY <1>16, <2>1
    <2>2. CASE i = M + 1
      BY <1>2, <1>7, <1>17, <2>2
    <2> QED
      BY <1>15, <2>1, <2>2
  <1>20. ASSUME NEW i \in 1 .. M PROVE c[i][2] = c[i + 1][1]
    <2>1. c[i][2] = active[p + i]
      BY <1>16
    <2>2. i + 1 \in 1 .. M + 1 /\ (p + (i + 1)) - 1 = p + i
      BY <1>4, <1>15
    <2>3. PICK k : k = i + 1
      OBVIOUS
    <2>4. c[k][1] = active[(p + k) - 1]
      BY <1>18, <2>2, <2>3
    <2> QED
      BY <2>1, <2>2, <2>3, <2>4
  <1>21. c[1][1] = r
    <2>1. 1 \in 1 .. M + 1 /\ (p + 1) - 1 = p
      BY <1>4, <1>15
    <2> QED
      BY <1>4, <1>18, <2>1
  <1>22. c # <<>> /\ Imports!Last(c) = e
    <2>1. c # <<>>
      BY <1>15, <1>17
    <2> QED
      BY <1>14, <1>17, <2>1, FrontIs
  <1>23. \A i \in 1 .. M + 1 : c[i][1] \in Imports!Sources
    BY <1>3, <1>18
  <1>24. \A i \in 1 .. M + 1 : i < M + 1 => i \in 1 .. M
    BY <1>15
  <1> QED
    BY <1>7, <1>17, <1>19, <1>20, <1>21, <1>22, <1>23, <1>24

Succeeds ==
    /\ Imports!IsExpansion(result'.out, Imports!Closure({Imports!Entry}, Imports!TopImports))
    /\ Imports!ToSet(used) = Imports!Reachable
    /\ Direct => Acyclic(Imports!Entry)

LEMMA Stops ==
  ASSUME ImportsInv, Expanding, world' = world, stack' = stack, active' = active, edges' = edges,
         used' = used, environments' = environments, Len(scopes') = Len(scopes),
         \A k \in 1 .. Len(scopes) : scopes'[k] \subseteq Locators,
         cached' \subseteq Urls, fetched' \in Seq(Urls), Imports!FetchedOnce',
         result'.kind # "running", Imports!ReportedCycleIsOne', result'.kind = "ok" => Succeeds
  PROVE  ImportsInv'
  <1>1. world \in Worlds /\ EnvironmentsInv /\ Imports!TypeOK /\ Imports!UsedSourcesAreReached
    BY DEF ImportsInv
  <1>2. Imports!TypeOK'
    <2>1. \A i : Imports!Level(i)' = Imports!Level(i)
      BY DEF Imports!Level
    <2> QED
      BY <1>1, <2>1 DEF Imports!TypeOK
  <1>3. \A x, y : Imports!IsExpansion(x, y)' <=> Imports!IsExpansion(x, y)
    BY DEF Imports!IsExpansion
  <1>4. EnvironmentsInv'
    BY <1>1, <1>3, WorldStays DEF EnvironmentsInv
  <1>5. Imports!EachSourceOnce'
    BY <1>3, <1>4, WorldStays DEF Imports!EachSourceOnce, EnvironmentsInv, Succeeds
  <1>6. Imports!UsedSourcesAreReached'
    BY <1>1, WorldStays DEF Imports!UsedSourcesAreReached, Succeeds
  <1>7. Imports!CyclesAreRefused'
    <2>1. Succeeds => (Direct => \A f \in Imports!Reachable : ~ Imports!OnCycle(f))
      BY DEF Succeeds, Acyclic, Imports!Reachable
    <2> QED
      BY <2>1, WorldStays DEF Imports!CyclesAreRefused, Direct
  <1> QED
    BY <1>1, <1>2, <1>4, <1>5, <1>6, <1>7 DEF ImportsInv

(* The steps that the expansion goes on after.                                 *)
LEMMA GoesOn ==
  ASSUME ImportsInv, world' = world, result' = result, result.kind = "running", Expanding',
         EnvironmentsInv', fetched' \in Seq(Urls), Imports!FetchedOnce'
  PROVE  ImportsInv'
  <1>1. world' \in Worlds /\ Imports!TypeOK'
    <2>1. world' \in Worlds
      BY DEF ImportsInv
    <2>2. (world \in Worlds /\ Expanding => Imports!TypeOK)'
      BY TypeIs, PTL
    <2> QED
      BY <2>1, <2>2
  <1>2. Imports!EachSourceOnce'
    BY DEF Imports!EachSourceOnce, EnvironmentsInv
  <1>3. Imports!UsedSourcesAreReached'
    BY DEF Expanding, UsedInv, Imports!UsedSourcesAreReached
  <1>4. Imports!ReportedCycleIsOne' /\ Imports!CyclesAreRefused'
    BY DEF Imports!ReportedCycleIsOne, Imports!CyclesAreRefused
  <1> QED
    BY <1>1, <1>2, <1>3, <1>4 DEF ImportsInv

LEMMA UnresolvedStops ==
  ASSUME ImportsInv, Expanding, Imports!Unresolved PROVE ImportsInv'
  <1>1. /\ world \in Worlds /\ fetched \in Seq(Urls) /\ Imports!FetchedOnce
        /\ \A k \in 1 .. Len(scopes) : scopes[k] \subseteq Locators
        /\ cached \subseteq Urls
    BY DEF ImportsInv, Imports!TypeOK
  <1>2. /\ world' = world /\ stack' = stack /\ active' = active /\ edges' = edges /\ used' = used
        /\ environments' = environments /\ scopes' = scopes
        /\ cached' = cached /\ fetched' = fetched
        /\ result'.kind = "unresolved"
    BY <1>1, TopIsCached DEF Imports!Unresolved, Imports!Failed
  <1>3. Imports!FetchedOnce' /\ Imports!ReportedCycleIsOne'
    BY <1>1, <1>2, WorldStays DEF Imports!FetchedOnce, Imports!ReportedCycleIsOne
  <1> QED
    BY <1>1, <1>2, <1>3, Stops

(* A cycle that is reported.                                                   *)
LEMMA Reports ==
  ASSUME world \in Worlds, Expanding, world' = world, NEW n, n = Len(stack),
         NEW r \in Imports!ToSet(active), r \in Imports!AllImports[stack[n].file],
         result' = Imports!Failed("cycle", Imports!CycleFrom(r, <<stack[n].file, r>>))
  PROVE  Imports!ReportedCycleIsOne' /\ result'.kind = "cycle"
  <1>1. PICK c : c = Imports!CycleFrom(r, <<stack[n].file, r>>)
    OBVIOUS
  <1>2. result'.kind = "cycle" /\ result'.cycle = c
    BY <1>1 DEF Imports!Failed
  <1>3. /\ c # <<>> /\ c[1][1] = Imports!Last(c)[2]
        /\ \A i \in 1 .. Len(c) :
              /\ c[i][1] \in Imports!Sources /\ c[i][2] \in Imports!AllImports[c[i][1]]
              /\ i < Len(c) => c[i][2] = c[i + 1][1]
    BY <1>1, CycleIs
  <1>4. Imports!Last(result.cycle)' = Imports!Last(c)
    BY <1>2 DEF Imports!Last
  <1> QED
    BY <1>2, <1>3, <1>4, WorldStays DEF Imports!ReportedCycleIsOne

LEMMA CyclicStops ==
  ASSUME ImportsInv, Expanding, Imports!Cyclic PROVE ImportsInv'
  <1>1. PICK n : n = Len(stack)
    OBVIOUS
  <1>2. PICK r : r = Imports!Item.to
    OBVIOUS
  <1>3. /\ world \in Worlds /\ fetched \in Seq(Urls) /\ Imports!FetchedOnce
        /\ \A k \in 1 .. Len(scopes) : scopes[k] \subseteq Locators
        /\ cached \subseteq Urls
    BY DEF ImportsInv, Imports!TypeOK
  <1>4. /\ Imports!Top = stack[n] /\ Imports!ToSet(active) \subseteq Imports!Sources
        /\ \A s \in Imports!ToSet(active) : Imports!Final(s) = s
    BY <1>1, TopIs
  <1>5. /\ world' = world /\ stack' = stack /\ active' = active /\ edges' = edges /\ used' = used
        /\ environments' = environments /\ scopes' = scopes
        /\ cached' = cached /\ fetched' = fetched
        /\ stack[n].rest # <<>> /\ Imports!Item.kind = "import" /\ r \in Imports!ToSet(active)
        /\ result' = Imports!Failed("cycle", Imports!CycleFrom(r, <<stack[n].file, r>>))
    BY <1>2, <1>3, <1>4, TopIsCached DEF Imports!Cyclic, Imports!At, Imports!IsActive
  <1>6. r \in Imports!AllImports[stack[n].file]
    <2>1. r # Nowhere /\ Imports!Final(r) = r
      BY <1>3, <1>4, <1>5, WorldIs
    <2> QED
      BY <1>1, <1>2, <1>3, <1>5, <2>1, ItemIs
  <1>7. Imports!ReportedCycleIsOne' /\ result'.kind = "cycle"
    BY <1>1, <1>3, <1>5, <1>6, Reports
  <1>8. Imports!FetchedOnce'
    BY <1>3, <1>5, WorldStays DEF Imports!FetchedOnce
  <1> QED
    BY <1>3, <1>5, <1>7, <1>8, Stops

LEMMA FetchFailsStops ==
  ASSUME ImportsInv, Expanding, Imports!FetchFails PROVE ImportsInv'
  <1>1. /\ world \in Worlds /\ fetched \in Seq(Urls) /\ Imports!FetchedOnce
        /\ \A k \in 1 .. Len(scopes) : scopes[k] \subseteq Locators
        /\ cached \subseteq Urls
    BY DEF ImportsInv, Imports!TypeOK
  <1>2. /\ Imports!Reads /\ stack' = stack /\ active' = active /\ edges' = edges /\ used' = used
        /\ environments' = environments /\ scopes' = scopes /\ cached' = cached
        /\ result'.kind = "fetch"
    BY <1>1, TopIsCached DEF Imports!FetchFails, Imports!Failed
  <1>3. fetched' = fetched \o Imports!Asked(Imports!Item.to) /\ world' = world
    BY <1>1, <1>2, ReadIs
  <1>4. Answered
    BY DEF Expanding, CacheInv, Answered
  <1>5. fetched' \in Seq(Urls) /\ Imports!FetchedOnce'
    BY <1>1, <1>3, <1>4, AskedOnce
  <1>6. Imports!ReportedCycleIsOne'
    BY <1>2 DEF Imports!ReportedCycleIsOne
  <1> QED
    BY <1>1, <1>2, <1>3, <1>5, <1>6, Stops

LEMMA CyclicAliasStops ==
  ASSUME ImportsInv, Expanding, Imports!CyclicAlias PROVE ImportsInv'
  <1>1. PICK n : n = Len(stack)
    OBVIOUS
  <1>2. PICK l : l = Imports!Item.to
    OBVIOUS
  <1>3. PICK r : r = Imports!Final(l)
    OBVIOUS
  <1>4. world \in Worlds /\ fetched \in Seq(Urls) /\ Imports!FetchedOnce
    BY DEF ImportsInv
  <1>5. /\ Imports!Top = stack[n] /\ scopes \in Seq(SUBSET Imports!Sources) /\ scopes # <<>>
        /\ Len(scopes) = Index(n) /\ Index(n) \in 1 .. n /\ n \in Nat
        /\ Imports!Last(scopes) = ScopeOf(n)
    BY <1>1, TopIs
  <1>6. /\ Imports!ReadsWell /\ r \in Imports!ToSet(active)
        /\ result' = Imports!Failed("cycle", Imports!CycleFrom(r, <<stack[n].file, r>>))
        /\ scopes' = Append(Imports!Front(scopes), Imports!Last(scopes) \cup {l, r})
        /\ stack' = stack /\ active' = active /\ edges' = edges /\ used' = used
        /\ environments' = environments
    BY <1>2, <1>3, <1>5 DEF Imports!CyclicAlias, Imports!IsActive, Imports!Reserved
  <1>7. /\ Answered' /\ fetched' \in Seq(Urls) /\ Imports!FetchedOnce' /\ world' = world
        /\ l \in Imports!Sources /\ stack[n].rest # <<>> /\ Imports!Item.kind = "import"
        /\ l # Nowhere
    BY <1>1, <1>2, <1>4, <1>6, ReadsWellIs
  <1>8. r \in Imports!AllImports[stack[n].file] /\ r \in Imports!Sources
    BY <1>1, <1>2, <1>3, <1>4, <1>7, ItemIs, WorldIs DEF Locator
  <1>9. Imports!ReportedCycleIsOne' /\ result'.kind = "cycle"
    BY <1>1, <1>4, <1>6, <1>7, <1>8, Reports
  <1>10. PICK y \in SUBSET Imports!Sources : y = Imports!Last(scopes) \cup {l, r}
    <2>1. Imports!Last(scopes) \subseteq Imports!Sources
      BY <1>5 DEF ScopeOf
    <2> QED
      BY <1>7, <1>8, <2>1
  <1>11. scopes' \in Seq(SUBSET Imports!Sources) /\ Len(scopes') = Len(scopes)
    <2>1. Replaces(SUBSET Imports!Sources, scopes, y, scopes')
      BY <1>5, <1>6, <1>10, ReplacedTop
    <2> QED
      BY <2>1 DEF Replaces
  <1>12. \A k \in 1 .. Len(scopes) : scopes'[k] \subseteq Locators
    <2>1. Imports!Sources \subseteq Locators
      BY <1>4, WorldIs
    <2> QED
      BY <1>11, <2>1
  <1>13. cached' \subseteq Urls
    BY <1>7 DEF Answered
  <1> QED
    BY <1>6, <1>7, <1>9, <1>11, <1>12, <1>13, Stops

LEMMA FinishStops ==
  ASSUME ImportsInv, Expanding, Imports!Finish PROVE ImportsInv'
  <1>1. PICK n : n = Len(stack)
    OBVIOUS
  <1>2. PICK e : e = Imports!Entry
    OBVIOUS
  <1>3. /\ world \in Worlds /\ fetched \in Seq(Urls) /\ Imports!FetchedOnce
        /\ \A k \in 1 .. Len(scopes) : scopes[k] \subseteq Locators
        /\ cached \subseteq Urls
    BY DEF ImportsInv, Imports!TypeOK
  <1>4. /\ Imports!Top = stack[n] /\ n \in 1 .. n /\ n \in Nat \ {0} /\ stack[n] \in Frames
        /\ Expands(stack[n], ListOf(n), ScopeOf(n), Imports!ToSet(used))
        /\ Imports!ToSet(active) \subseteq Imports!ToSet(used)
        /\ e \in Imports!ToSet(active)
    BY <1>1, <1>2, TopIs
  <1>5. /\ world' = world /\ stack' = stack /\ active' = active /\ edges' = edges /\ used' = used
        /\ environments' = environments /\ scopes' = scopes /\ cached' = cached /\ fetched' = fetched
        /\ stack[n].kind = "entry" /\ stack[n].rest = <<>>
        /\ result' = [kind |-> "ok", cycle |-> <<>>, out |-> stack[n].out]
    BY <1>4 DEF Imports!Finish
  <1>6. n = 1 /\ stack[n].file = e
    BY <1>1, <1>2, <1>4, <1>5 DEF Expanding, StackInv, FrameAt
  <1>7. PICK O : O = Imports!ToSet(stack[n].out)
    OBVIOUS
  <1>8. /\ e \in O /\ Emits(stack[n]) = O /\ O \subseteq Imports!Sources
        /\ Imports!AllImports[e] \subseteq Imports!ToSet(used) /\ (Direct => Acyclic(e))
    <2>1. /\ e \in O /\ Imports!AllImports[e] \subseteq Imports!ToSet(used) /\ (Direct => Acyclic(e))
      BY <1>1, <1>3, <1>5, <1>6, <1>7, DoneIs
    <2>2. Emits(stack[n]) = O
      BY <1>5, <1>6, <1>7, <2>1 DEF Emits
    <2>3. O \subseteq Imports!Sources
      BY <1>4, <1>7, ElementsOf DEF Frames
    <2> QED
      BY <2>1, <2>2, <2>3
  <1>9. Imports!IsExpansion(stack[n].out, Imports!Closure({Imports!Entry}, Imports!TopImports))
    <2>1. \A i \in 1 .. n : Index(i) = Index(n) => i = n
      BY <1>6
    <2>2. \A s \in O : Imports!TopImports[s] \subseteq O
      BY <1>1, <1>3, <1>5, <1>8, <2>1, ScopeIsClosed
    <2>3. Imports!Closure({e}, Imports!TopImports) \subseteq O
      <3>1. PICK S : S = {e}
        OBVIOUS
      <3>2. S \subseteq O
        BY <1>8, <3>1
      <3> QED
        BY <1>8, <2>2, <3>1, <3>2, ClosureIsLeast
    <2>4. O \subseteq Imports!Closure({e}, Imports!TopImports) /\ Imports!IsInjective(stack[n].out)
      BY <1>4, <1>5, <1>6, <1>8 DEF Expands, Start
    <2> QED
      BY <1>2, <1>7, <2>3, <2>4 DEF Imports!IsExpansion
  <1>10. Imports!ToSet(used) = Imports!Reachable
    <2>1. PICK a : a = Imports!ToSet(active)
      OBVIOUS
    <2>2. a = {e}
      <3>1. active \in Seq(Imports!Sources) /\ Len(active) = Imports!Level(1) /\ active[Imports!Level(1)] = e
        BY <1>1, <1>4, <1>6 DEF Expanding, ActiveInv
      <3>2. Imports!Level(1) = 1
        BY <1>1, <1>4, <1>6, StackIs DEF Expanding
      <3>3. Len(active) = 1 /\ active[1] = e
        BY <3>1, <3>2
      <3>4. \A x \in Imports!ToSet(active) : x = e
        BY <3>1, <3>3, ElementsOf
      <3> QED
        BY <1>4, <2>1, <3>4
    <2>3. PICK U : U = Imports!ToSet(used)
      OBVIOUS
    <2>4. /\ U \subseteq Imports!Reachable /\ U \subseteq Imports!Sources /\ {e} \subseteq U
          /\ \A s \in U : s = e \/ Imports!AllImports[s] \subseteq U
      <3>1. used \in Seq(Imports!Sources)
        BY DEF Expanding, UsedInv
      <3> QED
        BY <1>4, <2>1, <2>2, <2>3, <3>1, ElementsOf DEF Expanding, UsedInv
    <2>5. \A s \in U : Imports!AllImports[s] \subseteq U
      BY <1>8, <2>3, <2>4
    <2>6. Imports!Closure({e}, Imports!AllImports) \subseteq U
      <3>1. PICK S : S = {e}
        OBVIOUS
      <3> QED
        BY <2>4, <2>5, <3>1, ClosureIsLeast
    <2>7. Imports!Reachable = Imports!Closure({e}, Imports!AllImports)
      BY <1>2 DEF Imports!Reachable
    <2> QED
      BY <2>3, <2>4, <2>6, <2>7
  <1>11. result'.kind = "ok" /\ result'.out = stack[n].out
    BY <1>5
  <1>12. Succeeds
    BY <1>2, <1>8, <1>9, <1>10, <1>11 DEF Succeeds
  <1>13. Imports!FetchedOnce' /\ Imports!ReportedCycleIsOne'
    BY <1>3, <1>5, <1>11, WorldStays DEF Imports!FetchedOnce, Imports!ReportedCycleIsOne
  <1> QED
    BY <1>3, <1>5, <1>11, <1>12, <1>13, Stops

-----------------------------------------------------------------------------
LEMMA ImportsInit == ASSUME Imports!Init PROVE ImportsInv
  <1>1. world \in Worlds /\ result.kind = "running" /\ environments = {}
    BY DEF Imports!Init, Imports!Running
  <1>2. Expanding /\ fetched \in Seq(Urls) /\ Imports!FetchedOnce
    BY InitExpands
  <1>3. Imports!TypeOK
    BY <1>1, <1>2, TypeIs
  <1>4. EnvironmentsInv /\ Imports!EachSourceOnce
    BY <1>1 DEF EnvironmentsInv, Imports!EachSourceOnce
  <1>5. Imports!UsedSourcesAreReached
    BY <1>1, <1>2 DEF Expanding, UsedInv, Imports!UsedSourcesAreReached
  <1>6. Imports!ReportedCycleIsOne /\ Imports!CyclesAreRefused
    BY <1>1 DEF Imports!ReportedCycleIsOne, Imports!CyclesAreRefused
  <1> QED
    BY <1>1, <1>2, <1>3, <1>4, <1>5, <1>6 DEF ImportsInv

LEMMA ImportsStep == ASSUME ImportsInv, Imports!Next PROVE ImportsInv'
  <1>1. world \in Worlds /\ fetched \in Seq(Urls) /\ Imports!FetchedOnce /\ EnvironmentsInv
    BY DEF ImportsInv
  <1>2. result.kind = "running" => Expanding
    BY DEF ImportsInv
  <1>3. environments' = environments /\ world' = world => EnvironmentsInv'
    <2>1. \A x, y : Imports!IsExpansion(x, y)' <=> Imports!IsExpansion(x, y)
      BY DEF Imports!IsExpansion
    <2> QED
      BY <1>1, <2>1, WorldStays DEF EnvironmentsInv
  <1>4. ASSUME Imports!Keep PROVE ImportsInv'
    <2>1. /\ result.kind = "running" /\ result' = result /\ world' = world
          /\ fetched' = fetched /\ environments' = environments
      BY <1>4 DEF Imports!Keep, Imports!At
    <2>2. Expanding' /\ Imports!FetchedOnce'
      BY <1>1, <1>2, <1>4, <2>1, KeepExpands
    <2> QED
      BY <1>1, <1>3, <2>1, <2>2, GoesOn
  <1>5. ASSUME Imports!EnterEnvironment PROVE ImportsInv'
    <2>1. /\ result.kind = "running" /\ result' = result /\ world' = world
          /\ fetched' = fetched /\ environments' = environments
      BY <1>5 DEF Imports!EnterEnvironment, Imports!At
    <2>2. Expanding' /\ Imports!FetchedOnce'
      BY <1>1, <1>2, <1>5, <2>1, EnterEnvironmentExpands
    <2> QED
      BY <1>1, <1>3, <2>1, <2>2, GoesOn
  <1>6. ASSUME Imports!LeaveEnvironment PROVE ImportsInv'
    <2>1. /\ result.kind = "running" /\ result' = result /\ world' = world
          /\ fetched' = fetched
      BY <1>6, Zenon DEF Imports!LeaveEnvironment
    <2>2. Expanding' /\ Imports!FetchedOnce' /\ EnvironmentsInv'
      BY <1>1, <1>2, <1>6, <2>1, LeaveExpands
    <2> QED
      BY <1>1, <2>1, <2>2, GoesOn
  <1>7. ASSUME Imports!Unresolved PROVE ImportsInv'
    <2>1. Expanding
      BY <1>2, <1>7 DEF Imports!Unresolved, Imports!At
    <2> QED
      BY <1>7, <2>1, UnresolvedStops
  <1>8. ASSUME Imports!Cyclic PROVE ImportsInv'
    <2>1. Expanding
      BY <1>2, <1>8 DEF Imports!Cyclic, Imports!At
    <2> QED
      BY <1>8, <2>1, CyclicStops
  <1>9. ASSUME Imports!Repeated PROVE ImportsInv'
    <2>1. /\ result.kind = "running" /\ result' = result /\ world' = world
          /\ environments' = environments
      BY <1>9 DEF Imports!Repeated, Imports!Resolved, Imports!At
    <2>2. Expanding' /\ Imports!FetchedOnce' /\ fetched' = fetched
      BY <1>1, <1>2, <1>9, <2>1, RepeatedExpands
    <2> QED
      BY <1>1, <1>3, <2>1, <2>2, GoesOn
  <1>10. ASSUME Imports!FetchFails PROVE ImportsInv'
    <2>1. Expanding
      BY <1>2, <1>10 DEF Imports!FetchFails, Imports!Reads, Imports!Resolved, Imports!At
    <2> QED
      BY <1>10, <2>1, FetchFailsStops
  <1>11. ASSUME Imports!Alias PROVE ImportsInv'
    <2>1. /\ result.kind = "running" /\ result' = result /\ world' = world
          /\ environments' = environments
      BY <1>11 DEF Imports!Alias, Imports!ReadsWell, Imports!Reads, Imports!Resolved, Imports!At
    <2>2. Expanding' /\ Imports!FetchedOnce' /\ fetched' \in Seq(Urls)
      BY <1>1, <1>2, <1>11, <2>1, AliasExpands
    <2> QED
      BY <1>1, <1>3, <2>1, <2>2, GoesOn
  <1>12. ASSUME Imports!CyclicAlias PROVE ImportsInv'
    <2>1. Expanding
      BY <1>2, <1>12 DEF Imports!CyclicAlias, Imports!ReadsWell, Imports!Reads, Imports!Resolved, Imports!At
    <2> QED
      BY <1>12, <2>1, CyclicAliasStops
  <1>13. ASSUME Imports!Enter PROVE ImportsInv'
    <2>1. /\ result.kind = "running" /\ result' = result /\ world' = world
          /\ environments' = environments
      BY <1>13 DEF Imports!Enter, Imports!ReadsWell, Imports!Reads, Imports!Resolved, Imports!At
    <2>2. Expanding' /\ Imports!FetchedOnce' /\ fetched' \in Seq(Urls)
      BY <1>1, <1>2, <1>13, <2>1, EnterExpands
    <2> QED
      BY <1>1, <1>3, <2>1, <2>2, GoesOn
  <1>14. ASSUME Imports!Return PROVE ImportsInv'
    <2>1. /\ result.kind = "running" /\ result' = result /\ world' = world
          /\ fetched' = fetched /\ environments' = environments
      BY <1>14, Zenon DEF Imports!Return
    <2>2. Expanding' /\ Imports!FetchedOnce'
      BY <1>1, <1>2, <1>14, <2>1, ReturnExpands
    <2> QED
      BY <1>1, <1>3, <2>1, <2>2, GoesOn
  <1>15. ASSUME Imports!Finish PROVE ImportsInv'
    <2>1. Expanding
      BY <1>2, <1>15 DEF Imports!Finish
    <2> QED
      BY <1>15, <2>1, FinishStops
  <1> QED
    BY <1>4, <1>5, <1>6, <1>7, <1>8, <1>9, <1>10, <1>11, <1>12, <1>13, <1>14, <1>15 DEF Imports!Next

LEMMA ExpandingRests ==
  ASSUME world \in Worlds, Expanding, world' = world, stack' = stack, scopes' = scopes,
         active' = active, edges' = edges, used' = used, cached' = cached, fetched' = fetched
  PROVE  Expanding'
  <1>1. PICK n : n = Len(stack)
    OBVIOUS
  <1>2. /\ n \in Nat \ {0} /\ n \in 1 .. n /\ stack \in Seq(Frames) /\ Index(n) \in 1 .. n
        /\ Expands(stack[n], ListOf(n), ScopeOf(n), Imports!ToSet(used))
    BY <1>1, TopIs, StackIs DEF Expanding
  <1>3. Trimmed(n)
    BY <1>1, <1>2 DEF Trimmed
  <1>4. Gathers(n)
    <2>1. (\A i \in n .. Len(stack) : i = n) /\ n \in n .. Len(stack)
      BY <1>1, <1>2
    <2> QED
      BY <1>1, <2>1 DEF Gathers
  <1>5. Settled(n)
    <2>1. n + 1 .. Len(stack) = {}
      BY <1>1, <1>2
    <2> QED
      BY <2>1 DEF Settled
  <1>6. Leaves(n)
    BY <1>1 DEF Leaves, Expanding, ActiveInv
  <1>7. Contracts(n)
    BY <1>1, <1>2, <1>3, <1>4, <1>5, <1>6, ScopesRest DEF Contracts, ScopeOf
  <1>8. CacheInv'
    BY WorldStays DEF Expanding, CacheInv
  <1> QED
    BY <1>7, <1>8, Contracted

LEMMA ImportsRest == ASSUME ImportsInv, UNCHANGED importVars PROVE ImportsInv'
  <1>1. /\ world' = world /\ stack' = stack /\ scopes' = scopes /\ active' = active /\ edges' = edges
        /\ used' = used /\ cached' = cached /\ fetched' = fetched
        /\ environments' = environments /\ result' = result
    BY DEF importVars
  <1>2. /\ world \in Worlds /\ fetched \in Seq(Urls) /\ EnvironmentsInv
        /\ result.kind = "running" => Expanding
        /\ Imports!TypeOK /\ Imports!EachSourceOnce /\ Imports!UsedSourcesAreReached
        /\ Imports!ReportedCycleIsOne /\ Imports!CyclesAreRefused /\ Imports!FetchedOnce
    BY DEF ImportsInv
  <1>3. result'.kind = "running" => Expanding'
    BY <1>1, <1>2, ExpandingRests
  <1>4. Imports!TypeOK'
    <2>1. \A i : Imports!Level(i)' = Imports!Level(i)
      BY <1>1 DEF Imports!Level
    <2> QED
      BY <1>1, <1>2, <2>1 DEF Imports!TypeOK
  <1>5. EnvironmentsInv' /\ Imports!EachSourceOnce'
    <2>1. \A x, y : Imports!IsExpansion(x, y)' <=> Imports!IsExpansion(x, y)
      BY DEF Imports!IsExpansion
    <2>2. EnvironmentsInv'
      BY <1>1, <1>2, <2>1, WorldStays DEF EnvironmentsInv
    <2> QED
      BY <1>1, <1>2, <2>1, <2>2, WorldStays DEF Imports!EachSourceOnce
  <1>6. Imports!UsedSourcesAreReached'
    BY <1>1, <1>2, WorldStays DEF Imports!UsedSourcesAreReached
  <1>7. Imports!ReportedCycleIsOne'
    BY <1>1, <1>2, WorldStays DEF Imports!ReportedCycleIsOne
  <1>8. Imports!CyclesAreRefused' /\ Imports!FetchedOnce'
    BY <1>1, <1>2, WorldStays DEF Imports!CyclesAreRefused, Imports!FetchedOnce
  <1> QED
    BY <1>1, <1>2, <1>3, <1>4, <1>5, <1>6, <1>7, <1>8 DEF ImportsInv

(* Whatever the sources import, an expansion that ends holds the definitions   *)
(* of every source it reaches, once; the sources it reports as used are those  *)
(* it reaches; a cycle it reports is one, and where no locator redirects none  *)
(* is missed; nothing is fetched twice (StructuralImportExpander and the       *)
(* reader's remote_cache in crates/parser/src/lib.rs).                         *)
THEOREM EachImportIsExpandedOnce == FrontEndSpec => []ImportsAreExpandedOnce
  <1> DEFINE Inv == part \in {"imports", "types"} /\ (part = "imports" => ImportsInv)
  <1>1. FrontEndInit => Inv
    BY ImportsInit DEF FrontEndInit
  <1>2. Inv /\ [FrontEndNext]_frontEndVars => Inv'
    <2> SUFFICES ASSUME Inv, [FrontEndNext]_frontEndVars PROVE Inv'
      OBVIOUS
    <2>1. CASE part = "imports" /\ Imports!Next /\ UNCHANGED <<part, typeVars>>
      BY <2>1, ImportsStep
    <2>2. CASE part = "types" /\ Pass /\ UNCHANGED <<part, importVars>>
      BY <2>2
    <2>3. CASE UNCHANGED frontEndVars
      <3>1. part' = part /\ UNCHANGED importVars
        BY <2>3 DEF frontEndVars
      <3> QED
        BY <3>1, ImportsRest
    <2> QED
      BY <2>1, <2>2, <2>3 DEF FrontEndNext
  <1>3. Inv => ImportsAreExpandedOnce
    BY DEF ImportsInv, ImportsAreExpandedOnce
  <1> QED
    BY <1>1, <1>2, <1>3, PTL DEF FrontEndSpec
=============================================================================
