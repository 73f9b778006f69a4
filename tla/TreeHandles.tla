----------------------------- MODULE TreeHandles -----------------------------
(***************************************************************************)
(* The tree context behind the C box and signal APIs: hash-consed nodes    *)
(* numbered in order, opaque handles for them, and the registry of the     *)
(* controls that signal leaves name by number.  Every call holds the mutex *)
(* of the one context of the process, so a call is a step; what users of   *)
(* the API keep between their calls is here as held, with the tree each of *)
(* them was given and the life of the context it was given in.             *)
(***************************************************************************)
EXTENDS Naturals, FiniteSets, Sequences, SequencesExt

CONSTANTS
    Users,      \* independent users of the API in one process
    Leaves,     \* constants, inputs
    Labels,     \* labels of controls
    MaxNodes,   \* bound: nodes of a context
    MaxLives,   \* bound: contexts created
    MaxHeld     \* bound: handles a user keeps

HandlesAssumption == MaxNodes \in Nat /\ MaxLives \in Nat \ {0} /\ MaxHeld \in Nat

VARIABLES
    arena,      \* nodes in the order they were interned: <<tag, what>>
    handles,    \* the node behind each handle, in the order they were given
    controls,   \* <<label, init>> of each control, both nodes
    life,       \* contexts created so far
    held        \* per user, [handle, tree, life]

vars == <<arena, handles, controls, life, held>>

\* TreeArena::intern, TreeArena::symbol
Interned(nodes, node) == IF Contains(nodes, node) THEN nodes ELSE Append(nodes, node)
IdOf(nodes, node) == CHOOSE i \in DOMAIN nodes : nodes[i] = node

\* Mutant of Encoded: every result gets a handle of its own.
EncodedAfresh(given, id) == Append(given, id)

\* encode: the handle a node has, or the next one
Encoded(given, id) == IF Contains(given, id) THEN given ELSE Append(given, id)

Init ==
    /\ arena = <<<<"nil", "nil">>>> /\ handles = <<1>> /\ controls = <<>>
    /\ life = 1 /\ held = [u \in Users |-> {}]

Decodes(h) == h \in DOMAIN handles
Node(id) == IF id \in DOMAIN arena THEN arena[id] ELSE <<"none", "none">>
Control(i) == IF i \in DOMAIN controls THEN controls[i] ELSE <<0, 0>>

\* the call returns to u the node of this arena, which u takes for tree
Give(u, nodes, node, tree, since) ==
    LET id == IdOf(nodes, node)
        given == Encoded(handles, id)
        h == SelectLastInSeq(given, LAMBDA n : n = id) IN
    /\ Len(nodes) <= MaxNodes /\ Cardinality(held[u]) < MaxHeld
    /\ arena' = nodes /\ handles' = given
    /\ held' = [held EXCEPT ![u] = @ \cup {[handle |-> h, tree |-> tree, life |-> since]}]

Leaf(u, l) ==
    /\ Give(u, Interned(arena, <<"leaf", l>>), <<"leaf", l>>, <<"leaf", l>>, life)
    /\ UNCHANGED <<controls, life>>

Unary(u, x) ==
    /\ x \in held[u] /\ Decodes(x.handle)
    /\ LET node == <<"neg", handles[x.handle]>> IN
       Give(u, Interned(arena, node), node, <<"neg", x.tree>>, x.life)
    /\ UNCHANGED <<controls, life>>

\* Mutant of Key: controls of one label are one control.
KeyLabel(label, init) == <<label>>

\* FfiSignalControlKey::new
Key(label, init) == <<label, init>>

ControlOf(list, label, init) ==
    SelectInSeq(list, LAMBDA c : Key(c[1], c[2]) = Key(label, init))

\* register_signal_control
Registered(label, init) ==
    IF ControlOf(controls, label, init) # 0 THEN controls
    ELSE Append(controls, <<label, init>>)

Slider(u, name, x) ==
    /\ x \in held[u] /\ Decodes(x.handle)
    /\ LET init == handles[x.handle]
           nodes == Interned(arena, <<"sym", name>>)
           label == IdOf(nodes, <<"sym", name>>)
           list == Registered(label, init)
           node == <<"ui", ControlOf(list, label, init)>> IN
       /\ controls' = list
       /\ Give(u, Interned(nodes, node), node, <<"slider", name, x.tree>>, x.life)
    /\ UNCHANGED life

\* a matcher writes a handle of a child; the host knows which child it asked for
Match(u, x) ==
    /\ x \in held[u] /\ Decodes(x.handle)
    /\ LET node == Node(handles[x.handle])
           control == IF node[1] = "ui" THEN Control(node[2]) ELSE <<0, 0>>
           child == IF node[1] = "ui" THEN control[2] ELSE node[2] IN
       /\ <<node[1], x.tree[1]>> \in {<<"neg", "neg">>, <<"ui", "slider">>}
       /\ child \in DOMAIN arena
       /\ Give(u, arena, arena[child], Last(x.tree), x.life)
    /\ UNCHANGED <<controls, life>>

\* FfiTreeContext::new
Fresh == arena' = <<<<"nil", "nil">>>> /\ handles' = <<1>> /\ controls' = <<>>

\* createLibContext, destroyLibContext
Reset ==
    /\ life < MaxLives /\ life' = life + 1
    /\ Fresh
    /\ UNCHANGED held

\* the host forgets a handle
Forget(u, x) ==
    /\ x \in held[u] /\ held' = [held EXCEPT ![u] = @ \ {x}]
    /\ UNCHANGED <<arena, handles, controls, life>>

Next ==
    \/ Reset
    \/ \E u \in Users : \E x \in held[u] :
           Unary(u, x) \/ Match(u, x) \/ (\E l \in Labels : Slider(u, l, x)) \/ Forget(u, x)
    \/ \E u \in Users, l \in Leaves : Leaf(u, l)

Spec == Init /\ [][Next]_vars

-----------------------------------------------------------------------------
\* The state is well formed: children, controls and handles name nodes.
TypeOK ==
    /\ \A i \in DOMAIN arena : arena[i][1] = "neg" => arena[i][2] \in 1 .. i - 1
    /\ \A i \in DOMAIN arena : arena[i][1] = "ui" => arena[i][2] \in DOMAIN controls
    /\ \A i \in DOMAIN controls : {controls[i][1], controls[i][2]} \subseteq DOMAIN arena
    /\ \A h \in DOMAIN handles : handles[h] \in DOMAIN arena
    /\ life \in 1 .. MaxLives

\* what a node stands for, its control looked up
Tree ==
    LET T[i \in Nat] ==
            LET node == Node(i) IN
            IF node[1] = "neg" THEN <<"neg", T[node[2]]>>
            ELSE IF node[1] = "ui"
            THEN LET c == Control(node[2]) IN <<"slider", Node(c[1])[2], T[c[2]]>>
            ELSE node
    IN  T

\* A handle given in this life of the context decodes to the tree its holder built or
\* matched, whatever the other users built, registered or matched since.
HandlesKeepTheirTree ==
    \A u \in Users : \A x \in held[u] :
        x.life = life => Decodes(x.handle) /\ Tree[handles[x.handle]] = x.tree

\* Users may compare handles: within a life, one tree has one handle.
OneHandlePerTree ==
    \A u, v \in Users : \A x \in held[u], y \in held[v] :
        x.life = life /\ y.life = life => (x.tree = y.tree <=> x.handle = y.handle)
=============================================================================
