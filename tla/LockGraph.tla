------------------------------ MODULE LockGraph ------------------------------
(***************************************************************************)
(* class LockGraph of the lock tracer: a graph over mutex addresses.  An   *)
(* edge <<a, b>> says that some thread acquired b while it held a.  Edge   *)
(* weights are left out: nothing in the tracer's decisions reads them.     *)
(***************************************************************************)

CONSTANT Locks   (* pthread_mutex_t addresses                               *)

GraphType == [nodes : SUBSET Locks, edges : SUBSET (Locks \X Locks)]

(* getNode adds the node it does not find.                                 *)
GetNode(g, m) == [g EXCEPT !.nodes = @ \cup {m}]

(* addEdge(from, to) for every member of froms.                            *)
AddEdges(g, froms, to) ==
  IF froms = {}
  THEN g
  ELSE [nodes |-> g.nodes \cup froms \cup {to},
        edges |-> g.edges \cup (froms \X {to})]

GetOutNeibours(g, n) == {k \in g.nodes : <<n, k>> \in g.edges}

(* What getInNeibours was meant to return, for the mutants.                *)
GetInNeiboursFixed(g, n) == {k \in g.nodes : <<k, n>> \in g.edges}

(* getInNeibours iterates outEdges, not inEdges.                           *)
GetInNeibours(g, n) == {k \in g.nodes : <<n, k>> \in g.edges}
-----------------------------------------------------------------------------
(* Reference definitions for the properties.                               *)

(* No edge leaves S.                                                       *)
Closed(g, S) == \A e \in g.edges : e[1] \in S => e[2] \in S

(* k can be reached from n: it lies in every closed set that holds n.      *)
Reaches(g, n, k) ==
  \A S \in SUBSET g.nodes : n \in S /\ Closed(g, S) => k \in S

OnCommonCycle(g, n, k) == Reaches(g, n, k) /\ Reaches(g, k, n)

Acyclic(g) ==
  \A n, k \in g.nodes : /\ <<n, n>> \notin g.edges
                        /\ OnCommonCycle(g, n, k) => n = k
=============================================================================
