--------------------------- MODULE HierarchicalGraph ---------------------------
(***************************************************************************)
(* build_hgraph: the partition of the prepared signals into one dependency *)
(* graph per clock domain, a graph of control signals apart.  The builder  *)
(* is a recursive visit whose calls are the frames of a stack; what it     *)
(* knows of a domain (which wrapper owns it) is written on the way down    *)
(* and read by the frames below, above and beside.                         *)
(*                                                                         *)
(* A graph is named by what keys it: "top", "control" or a wrapper.  The   *)
(* children of a signal are visited in every order.                        *)
(***************************************************************************)
EXTENDS Integers, Sequences

CONSTANTS
    Sigs,       \* the signals
    Domains,    \* the clocked domains
    Programs,   \* prepared forests
    Nil,        \* the audio-rate domain
    Nothing     \* no signal

Envs == Domains \cup {Nil}
Keys == Sigs \cup {"top", "control"}

\* env: the inferred domain of a signal; slow: slower than the sample; now and
\* held: what a signal needs this sample, what it reads out of state; clock, body
\* and inner: the block of a wrapper; above: the domains around a domain
Program == [env : [Sigs -> Envs], slow : SUBSET Sigs,
            now : [Sigs -> SUBSET Sigs], held : [Sigs -> SUBSET Sigs],
            clock : [Sigs -> Sigs \cup {Nothing}], inner : [Sigs -> Envs],
            above : [Envs -> SUBSET Envs], outputs : SUBSET Sigs]

Blocks(p) == {w \in Sigs : p.clock[w] # Nothing}

\* what clock inference leaves: a domain is the inside of one block, which belongs
\* to the domain around it; a block's results are of its inside, or literals; the
\* domain of any other signal is the innermost of those it reads, so that it may read
\* from any domain around its own; what a slow signal is made of is slow, and a block
\* is not
WellClocked(p) ==
    /\ \A w \in Blocks(p) :
          /\ p.inner[w] # Nil /\ p.above[p.inner[w]] = {p.env[w]} \cup p.above[p.env[w]]
          /\ p.clock[w] \in p.now[w] /\ w \notin p.slow
          /\ \A v \in Blocks(p) : p.inner[v] = p.inner[w] => v = w
          /\ \A d \in p.now[w] \cup p.held[w] : p.env[d] \in {p.inner[w], Nil}
    /\ \A s \in Sigs \ Blocks(p), d \in Sigs :
          d \in p.now[s] \cup p.held[s] => p.env[d] \in {p.env[s]} \cup p.above[p.env[s]]
    /\ \A s \in p.slow : p.now[s] \cup p.held[s] \subseteq p.slow
    /\ p.above[Nil] = {} /\ \A e \in Domains : Nil \in p.above[e] /\ e \notin p.above[e]
    /\ \A s \in p.outputs : p.env[s] = Nil

HierarchyAssumption ==
    /\ Nothing \notin Sigs /\ Nil \notin Domains
    /\ Nothing \notin Keys /\ {"top", "control"} \cap Sigs = {}
    /\ Programs \subseteq {p \in Program : WellClocked(p)}

VARIABLES
    prog,    \* the forest
    keyOf,   \* domain_key: the graph of each domain met so far
    owned,   \* the graph that owns a signal, Nothing before its visit
    edges,   \* <<graph, from, to, delayed>>
    stack,   \* calls of visit, the innermost first
    todo     \* outputs not visited yet

vars == <<prog, keyOf, owned, edges, stack, todo>>

IsWrapper(s) == prog.clock[s] # Nothing
Children(s) == prog.now[s] \cup prog.held[s]

\* key_for: an unknown domain counts as the top level
KeyFor(env, keys) == IF keys[env] = Nothing THEN "top" ELSE keys[env]

\* Mutant of EffectiveKey: a slow signal leaves its block too.
EffectiveKeyAnywhere(base, s) == IF s \in prog.slow THEN "control" ELSE base

EffectiveKey(base, s) ==
    IF base = "top" /\ s \in prog.slow THEN "control" ELSE base

Frame(s, base, own) == [sig |-> s, base |-> base, own |-> own,
                        left |-> Children(s), child |-> Nothing]

Init ==
    /\ prog \in Programs
    /\ keyOf = [e \in Envs |-> IF e = Nil THEN "top" ELSE Nothing]
    /\ owned = [s \in Sigs |-> Nothing]
    /\ edges = {} /\ stack = <<>> /\ todo = prog.outputs

\* Mutant of Registered: the wrapper does not say which domain it owns.
RegisteredNever(s) == keyOf

\* the wrapper's domain, known before anything of the block is visited
Registered(s) == IF IsWrapper(s) THEN [keyOf EXCEPT ![prog.inner[s]] = s] ELSE keyOf

\* the clock is a precondition of the block, outside it
ClockEdge(s, key) == IF IsWrapper(s) THEN {<<key, s, prog.clock[s], FALSE>>} ELSE {}

\* visit: nothing for a signal met before; else its node, and its children to come
Enter(s, frames) ==
    IF owned[s] # Nothing
    THEN stack' = frames /\ UNCHANGED <<owned, edges, keyOf>>
    ELSE LET base == KeyFor(prog.env[s], keyOf)
             own == IF IsWrapper(s) THEN base ELSE EffectiveKey(base, s) IN
         /\ owned' = [owned EXCEPT ![s] = own]
         /\ keyOf' = Registered(s)
         /\ edges' = edges \cup ClockEdge(s, own)
         /\ stack' = <<Frame(s, base, own)>> \o frames

VisitOutput(s) ==
    /\ stack = <<>> /\ s \in todo
    /\ todo' = todo \ {s}
    /\ Enter(s, <<>>)
    /\ UNCHANGED prog

top == Head(stack)

Descend(d) ==
    /\ stack # <<>> /\ top.child = Nothing /\ d \in top.left
    /\ IsWrapper(top.sig) /\ prog.clock[top.sig] \in top.left => d = prog.clock[top.sig]
    /\ Enter(d, <<[top EXCEPT !.left = @ \ {d}, !.child = d]>> \o Tail(stack))
    /\ UNCHANGED <<prog, todo>>

\* Mutant of Ordering: a value read out of state orders its reader too.
OrderingHeld(f, d) ==
    IF f.own # "control" /\ EffectiveKey(f.base, d) = "control" THEN {}
    ELSE {<<f.own, f.sig, d, FALSE>>}

\* the edges of signal f.sig to a child of its own domain
Ordering(f, d) ==
    IF f.own # "control" /\ EffectiveKey(f.base, d) = "control" THEN {}
    ELSE {<<f.own, f.sig, d, delayed>> :
             delayed \in {x \in BOOLEAN : d \in IF x THEN prog.held[f.sig]
                                                     ELSE prog.now[f.sig]}}

\* Mutant of Precondition: the edge goes in the graph of the signal.
PreconditionInside(f, d) ==
    IF f.own \in Sigs THEN {<<f.own, f.own, d, FALSE>>} ELSE {}

\* what a block needs of the domains around it: an edge from its wrapper, in the
\* graph that holds the wrapper
Precondition(f, d) ==
    IF f.own \in Sigs
    THEN {<<KeyFor(prog.env[f.own], keyOf), f.own, d, FALSE>>} ELSE {}

\* Mutant of Edges: only the signals of one domain are ordered.
EdgesWithin(f, d) ==
    IF IsWrapper(f.sig) \/ prog.env[d] # prog.env[f.sig] THEN {} ELSE Ordering(f, d)

Edges(f, d) ==
    IF IsWrapper(f.sig) THEN {}
    ELSE IF prog.env[d] \in prog.above[prog.env[f.sig]] THEN Precondition(f, d)
    ELSE IF prog.env[d] = prog.env[f.sig] THEN Ordering(f, d)
    ELSE {<<f.own, f.sig, d, d \notin prog.now[f.sig]>>}

\* the visit of the child has returned
Resume ==
    /\ stack # <<>> /\ top.child # Nothing
    /\ edges' = edges \cup Edges(top, top.child)
    /\ stack' = <<[top EXCEPT !.child = Nothing]>> \o Tail(stack)
    /\ UNCHANGED <<prog, keyOf, owned, todo>>

Return ==
    /\ stack # <<>> /\ top.child = Nothing /\ top.left = {}
    /\ stack' = Tail(stack)
    /\ UNCHANGED <<prog, keyOf, owned, edges, todo>>

Next == \/ \E s \in Sigs : VisitOutput(s) \/ Descend(s)
        \/ Resume
        \/ Return

Spec == Init /\ [][Next]_vars

-----------------------------------------------------------------------------
Done == stack = <<>> /\ todo = {}

\* The state is well formed.
TypeOK ==
    /\ prog \in Program
    /\ keyOf \in [Envs -> Keys \cup {Nothing}]
    /\ owned \in [Sigs -> Keys \cup {Nothing}]
    /\ edges \subseteq Keys \X Sigs \X Sigs \X BOOLEAN
    /\ todo \in SUBSET Sigs

WrapperOf(env) == CHOOSE w \in Sigs : IsWrapper(w) /\ prog.inner[w] = env

\* Every signal reached is owned by the graph of its own domain: the wrapper of the
\* domain, the control graph for a slow signal of the top level, or the top graph;
\* whichever path reached it first.
PlacedInItsDomain ==
    Done => \A s \in Sigs : owned[s] # Nothing =>
        owned[s] = IF prog.env[s] # Nil THEN WrapperOf(prog.env[s])
                   ELSE IF s \in prog.slow /\ ~IsWrapper(s) THEN "control" ELSE "top"

\* the graph's node that stands for signal s: s, or the wrapper s runs inside of
Hosts(s, key) ==
    {h \in Sigs : /\ owned[h] = key
                  /\ \/ h = s
                     \/ IsWrapper(h) /\ (prog.inner[h] = prog.env[s]
                                         \/ prog.inner[h] \in prog.above[prog.env[s]])}

\* the value comes from further out than the domain around the reader's
FarOut(s, d) ==
    prog.env[s] # Nil /\ prog.env[d] \notin {prog.env[s], prog.env[WrapperOf(prog.env[s])]}

\* A value needed this sample is ready: it is a control value, computed before every
\* graph, or an edge of the graph that owns it orders it before the reader or before
\* the block the reader runs in.  One case is apart: a sample-rate value read from two
\* or more levels out is noted with the innermost block, in the graph that holds this
\* block and not the value, and nothing orders it before the blocks further out.
NeededIsReady ==
    Done => \A s \in Sigs : \A d \in prog.now[s] :
        \/ owned[s] = Nothing \/ IsWrapper(s)
        \/ owned[d] = "control" /\ owned[s] # "control"
        \/ \E h \in Hosts(s, owned[d]) : <<owned[d], h, d, FALSE>> \in edges
        \/ FarOut(s, d) /\ \E w \in {WrapperOf(prog.env[s])} : <<owned[w], w, d, FALSE>> \in edges

\* what s reads of a domain around it is ordered, out of state too
Needs(s) == prog.now[s] \cup {d \in prog.held[s] : prog.env[d] # prog.env[s]}

\* An edge between two nodes of a graph stands for a need: of the signal, or of one
\* that runs inside its block.  So a value read out of state of the reader's own
\* domain closes no cycle; out of the state of a domain around it, it may.
EdgesAreNeeds ==
    \A e \in edges : ~e[4] /\ owned[e[2]] = e[1] /\ owned[e[3]] = e[1] =>
        \E s \in Sigs : e[3] \in Needs(s) /\ e[2] \in Hosts(s, e[1])
=============================================================================
