------------------------------ MODULE PointsTo ------------------------------
(***************************************************************************)
(* What the solver of module Andersen must compute: the least points-to    *)
(* sets that satisfy the constraints, computed here by plain iteration,    *)
(* and the properties that relate the solver to them.                      *)
(***************************************************************************)
EXTENDS Andersen

(* The node of formal argument i (from 1) of f, by the layout that          *)
(* IdentifyObjects gives a function: itself, result, varargs, arguments.    *)
Formal(f, i) == f.node + (IF f.returns THEN 1 ELSE 0) + (IF f.vararg THEN 1 ELSE 0)
                  + Cardinality({j \in 1 .. i : f.pointer[j]})

(* The nodes that an access with offset k through object m is about.        *)
Target(p, m, k) ==
    IF k = 0 THEN {m}
    ELSE IF m \notin DOMAIN p.functions THEN {}
    ELSE LET f == p.functions[m]
             i == k - CallFirstArgPos + 1
         IN  IF k = CallReturnPos THEN (IF f.returns THEN {f.node + 1} ELSE {})
             ELSE IF i \in DOMAIN f.pointer /\ f.pointer[i] THEN {Formal(f, i)} ELSE {}

(* The points-to pairs <<n, o>> that constraint c asks for when P are the   *)
(* ones there are.  Special nodes only get what they are given by name.     *)
Of(P, n) == {x[2] : x \in {y \in P : y[1] = n}}
Asks(p, P, c) ==
    LET at(n) == UNION {Target(p, m, c.off) : m \in Of(P, n)}
    IN  CASE c.type = "AddressOf" -> {<<c.dest, c.src>>}
          [] c.type = "Copy" -> ({c.dest} \ Special) \X Of(P, c.src)
          [] c.type = "Load" -> ({c.dest} \ Special) \X UNION {Of(P, t) : t \in at(c.src)}
          [] c.type = "Store" -> (at(c.dest) \ Special) \X Of(P, c.src)

RECURSIVE Iterate(_, _)
Iterate(p, P) ==
    LET Q == P \cup UNION {Asks(p, P, c) : c \in Range(p.constraints)}
    IN  IF Q = P THEN P ELSE Iterate(p, Q)

Least(p) == Iterate(p, {})

Answer(n) == g.pts[FindNode(g, n)]

----------------------------------------------------------------------------
(* Type of the state: the sets hold nodes, a work list names nodes with     *)
(* stamps the counter has given out.                                        *)
TypeOK ==
    /\ phase \in {"cycles", "nodes", "done", "aborted"}
    /\ \A n \in Nodes : /\ g.rep[n] \in -prog.nodes .. prog.nodes - 1
                        /\ g.pts[n] \cup g.old[n] \cup g.edges[n] \subseteq Nodes
                        /\ g.sdt[n] \in -1 .. prog.nodes - 1
                        /\ g.ts[n] \in 0 .. g.counter
    /\ currWL \cup nextWL \subseteq Nodes \X (0 .. g.counter)
    /\ Range(tarjanWL) \subseteq Nodes
    /\ edgesChecked \subseteq Nodes \X Nodes

(* No points-to relation is missed: when the work lists are empty every     *)
(* node's set contains the least solution, through all uniting of nodes,    *)
(* erased constraints, rewritten edges and discarded work-list entries.     *)
(* It is stated for runs in which no nested union of two SDT entries joined *)
(* two nodes: those lose work, see SolvedAlways.                            *)
Sound == phase = "done" /\ ~ g.nested => \A x \in Least(prog) : x[2] \in Answer(x[1])

(* The pairs of HCD are cycles of the offline graph, and of the constraints *)
(* too: every pointer they go through points somewhere.                     *)
Reached(E, a) ==
    LET RECURSIVE From(_)
        From(S) == LET T == S \cup UNION {E[n] : n \in S} IN IF T = S THEN S ELSE From(T)
    IN  From({a})
TruePairs(p) ==
    LET E == OfflineEdges(p)
        sdt == HCD(p)
        least == Least(p)
    IN  \A n \in {m \in 0 .. p.nodes - 1 : sdt[m] >= 0} :
            /\ sdt[n] \in Reached(E, n + p.nodes)
            /\ n + p.nodes \in Reached(E, sdt[n])
            /\ ~ (Of(least, n) \subseteq Special)

(* And nothing is added: uniting nodes loses no precision, so that alias()  *)
(* sees no overlap that the constraints do not force.  It is stated for     *)
(* inputs in which the pairs of HCD really are cycles (Search also pairs    *)
(* nodes that are not) and no call goes through a pointer: the offsets of   *)
(* calls reach nodes next to the right ones.                                *)
Precise ==
    phase = "done" /\ DOMAIN prog.functions = {} /\ TruePairs(prog)
        => \A n \in Nodes : Answer(n) \subseteq Of(Least(prog), n)

(* No work is forgotten: between two steps, a node whose members are not    *)
(* all in the set at the end of one of its edges, or that has new members   *)
(* and a load or store to apply to them, is in a work list under its last   *)
(* time stamp.                                                              *)
Unfinished(n) ==
    \/ g.constraints[n] # <<>> /\ g.pts[n] # g.old[n]
    \/ \E e \in g.edges[n] : FindNode(g, e) \notin Special /\ ~ (g.pts[n] \subseteq Answer(e))

WorkIsQueued ==
    phase \in {"cycles", "nodes"} /\ ~ g.nested =>
        \A n \in Nodes : IsRep(g, n) /\ Unfinished(n) =>
            \E x \in Current(g, currWL \cup nextWL) : x[1] = n

(* UniteNodes and QueryNode only ever get representatives: the assertions   *)
(* "Trying to unite two non-representative nodes!" and "Querying a non-rep  *)
(* node" hold.                                                              *)
NeverAborts == ~ g.nested => phase # "aborted"

(* SolveConstraints ends: a node is taken from a work list at most once for *)
(* every member it gets and every node it is united with, counted twice     *)
(* because a pair of HCD queues its representative again.                   *)
VisitsBounded == g.counter <= 2 * prog.nodes * (prog.nodes + 1)

(* "until a fixed point is reached": when it ends, the constraints hold.    *)
(* Violated: a nested union can absorb a node that waits in a work list;    *)
(* the entry is then discarded and the new representative is not queued.    *)
SolvedAlways == phase = "done" => \A x \in Least(prog) : x[2] \in Answer(x[1])
=============================================================================
