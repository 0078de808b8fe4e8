------------------------------ MODULE MCFindSCC ------------------------------
(***************************************************************************)
(* Instances of FindSCC: every graph on three mutexes, self-loops of       *)
(* recursive mutexes included, and every loop-free graph on four whose     *)
(* edges lead to any node from the first two or to the first node.         *)
(***************************************************************************)
EXTENDS FindSCC

MCLocks == 1..4

SmallGraphs == {[nodes |-> 1..3, edges |-> E] : E \in SUBSET ((1..3) \X (1..3))}

FourNodeEdges == {e \in (1..4) \X (1..4) : e[1] # e[2] /\ (e[1] <= 2 \/ e[2] = 1)}

MCGraphs == SmallGraphs \cup
            {[nodes |-> 1..4, edges |-> E] : E \in SUBSET FourNodeEdges}
=============================================================================
