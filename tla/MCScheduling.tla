----------------------------- MODULE MCScheduling -----------------------------
(* 8400 graphs on four nodes: two nodes with at most one edge, two with at    *)
(* most two.  Edges go up and down in the numbering; among them are chains,   *)
(* diamonds, doubled edges, loops through one, two, three and four nodes, and *)
(* delayed and foreign edges in front of an immediate one.                    *)
EXTENDS Scheduling

CONSTANT Foreign    \* a node another graph owns

Edge(to) == [to |-> to, delayed |-> FALSE]
DelayedEdge(to) == [to |-> to, delayed |-> TRUE]

(* The edges that do not order the schedule.                                  *)
FreeEdges == {DelayedEdge(3), Edge(Foreign)}

AtMostOne == {<< >>} \cup {<<Edge(n)>> : n \in Nodes}

UpToTwo(targets) ==
    {<< >>} \cup {<<Edge(n)>> : n \in targets} \cup {<<Edge(m), Edge(n)>> : m, n \in targets}

Mixed == {<<e>> : e \in FreeEdges} \cup {<<e, Edge(n)>> : e \in FreeEdges, n \in Nodes \ {4}}

Looping == {<<Edge(4)>>, <<Edge(1), Edge(4)>>}

MCDigraphs ==
    {<<a, b, c, d>> : a \in AtMostOne \ {<<Edge(1)>>}, b \in AtMostOne \cup {<<e>> : e \in FreeEdges},
                      c \in UpToTwo(Nodes \ {3}), d \in UpToTwo(Nodes \ {4}) \cup Looping \cup Mixed}

(* The orders the checker is asked about: the permutations, and what is left  *)
(* of them when the last node is dropped, repeated or replaced.               *)
Permutation == {p \in [1 .. 4 -> Nodes] : IsInjective(p)}

MCCandidates ==
    UNION {{p, Front(p), Append(p, Last(p)), Append(Front(p), Foreign)} :
              p \in Permutation}
=============================================================================
