------------------------------- MODULE FindSCC -------------------------------
(***************************************************************************)
(* findSCC of the lock tracer: it numbers the nodes of the lock-order      *)
(* graph (RAOG) that was loaded at start-up.  topSort is a depth-first     *)
(* search that queues a node when it is finished; the queue is then served *)
(* in that order and assignCompNumber, a second depth-first search, gives  *)
(* the next component number to everything it reaches.                     *)
(*                                                                         *)
(* The recursion of the two searches is an explicit stack.  A node stands  *)
(* for its mutex.  Both searches take nodes in the order of a              *)
(* std::set<Node*>, by heap address, so the next node is any unvisited one.*)
(***************************************************************************)
EXTENDS Naturals, Sequences, FiniteSets, LockGraph

CONSTANT Graphs   (* the graphs that may be loaded                          *)

ASSUME GraphAssumption ==
  /\ Graphs \subseteq GraphType
  /\ \A g \in Graphs : g.edges \subseteq g.nodes \X g.nodes

VARIABLES
  graph,            (* the loaded graph; never changes                      *)
  sccPhase,         (* "topSort", "assign" or "done"                        *)
  visited,          (* the set of nodes visited by the current search       *)
  stack,            (* active calls of topSort or assignCompNumber          *)
  topologicalOrder, (* the queue topSort fills                              *)
  component,        (* component[n]; 0, operator[]'s default, when unset    *)
  assigned,         (* the keys of the component map                        *)
  componentNum      (* the last number given                                *)

sccVars == <<graph, sccPhase, visited, stack, topologicalOrder, component,
             assigned, componentNum>>

Top == stack[Len(stack)]
Pop == SubSeq(stack, 1, Len(stack) - 1)

SccInit ==
  /\ graph \in Graphs
  /\ sccPhase = "topSort"
  /\ visited = {}
  /\ stack = <<>>
  /\ topologicalOrder = <<>>
  /\ component = [n \in Locks |-> 0]
  /\ assigned = {}
  /\ componentNum = 0

(* Mutant: topSort does not ask whether the node is visited.               *)
TopSortCallRevisits ==
  /\ sccPhase = "topSort"
  /\ LET candidates == IF stack = <<>> THEN graph.nodes ELSE GetOutNeibours(graph, Top)
     IN \E n \in candidates :
          /\ visited' = visited \cup {n}
          /\ stack' = Append(stack, n)
  /\ UNCHANGED <<graph, sccPhase, topologicalOrder, component, assigned,
                 componentNum>>

(* Enter topSort(n), from findSCC's loop or from the recursive call.       *)
TopSortCall ==
  /\ sccPhase = "topSort"
  /\ LET candidates == IF stack = <<>> THEN graph.nodes ELSE GetOutNeibours(graph, Top)
     IN \E n \in candidates \ visited :
          /\ visited' = visited \cup {n}
          /\ stack' = Append(stack, n)
  /\ UNCHANGED <<graph, sccPhase, topologicalOrder, component, assigned,
                 componentNum>>

(* topSort returns: every neighbour is visited, so the node is queued.     *)
TopSortReturn ==
  /\ sccPhase = "topSort"
  /\ stack # <<>>
  /\ GetOutNeibours(graph, Top) \subseteq visited
  /\ topologicalOrder' = Append(topologicalOrder, Top)
  /\ stack' = Pop
  /\ UNCHANGED <<graph, sccPhase, visited, component, assigned, componentNum>>

(* All nodes are queued: visited is cleared for the second search.         *)
TopSortEnd ==
  /\ sccPhase = "topSort"
  /\ stack = <<>>
  /\ graph.nodes \subseteq visited
  /\ sccPhase' = "assign"
  /\ visited' = {}
  /\ UNCHANGED <<graph, stack, topologicalOrder, component, assigned,
                 componentNum>>

(* assignCompNumber(n, number): mark n and remember its number.            *)
Number(n, number) ==
  /\ visited' = visited \cup {n}
  /\ component' = [component EXCEPT ![n] = number]
  /\ assigned' = assigned \cup {n}
  /\ stack' = Append(stack, n)

(* Mutant: the numbers count down.                                         *)
ServeQueueCountsDown ==
  /\ sccPhase = "assign"
  /\ stack = <<>>
  /\ topologicalOrder # <<>>
  /\ topologicalOrder' = Tail(topologicalOrder)
  /\ LET n == Head(topologicalOrder) IN
       IF n \in visited
       THEN UNCHANGED <<visited, component, assigned, stack, componentNum>>
       ELSE /\ componentNum' = componentNum - 1
            /\ Number(n, componentNum - 1)
  /\ UNCHANGED <<graph, sccPhase>>

(* Mutant: the queue is read but not popped.                               *)
ServeQueueKeepsFront ==
  /\ sccPhase = "assign"
  /\ stack = <<>>
  /\ topologicalOrder # <<>>
  /\ LET n == Head(topologicalOrder) IN
       IF n \in visited
       THEN UNCHANGED <<visited, component, assigned, stack, componentNum>>
       ELSE /\ componentNum' = componentNum + 1
            /\ Number(n, componentNum + 1)
  /\ UNCHANGED <<graph, sccPhase, topologicalOrder>>

(* Serve the queue: a node not yet visited starts the next component.      *)
ServeQueue ==
  /\ sccPhase = "assign"
  /\ stack = <<>>
  /\ topologicalOrder # <<>>
  /\ topologicalOrder' = Tail(topologicalOrder)
  /\ LET n == Head(topologicalOrder) IN
       IF n \in visited
       THEN UNCHANGED <<visited, component, assigned, stack, componentNum>>
       ELSE /\ componentNum' = componentNum + 1
            /\ Number(n, componentNum + 1)
  /\ UNCHANGED <<graph, sccPhase>>

(* Mutant: the recursive call counts a new component.                      *)
AssignCallCounts ==
  /\ sccPhase = "assign"
  /\ stack # <<>>
  /\ \E n \in GetInNeibours(graph, Top) \ visited : Number(n, componentNum + 1)
  /\ componentNum' = componentNum + 1
  /\ UNCHANGED <<graph, sccPhase, topologicalOrder>>

(* The recursive call of assignCompNumber, with the same number.           *)
AssignCall ==
  /\ sccPhase = "assign"
  /\ stack # <<>>
  /\ \E n \in GetInNeibours(graph, Top) \ visited : Number(n, componentNum)
  /\ UNCHANGED <<graph, sccPhase, topologicalOrder, componentNum>>

AssignReturn ==
  /\ sccPhase = "assign"
  /\ stack # <<>>
  /\ GetInNeibours(graph, Top) \subseteq visited
  /\ stack' = Pop
  /\ UNCHANGED <<graph, sccPhase, visited, topologicalOrder, component,
                 assigned, componentNum>>

FindSCCEnd ==
  /\ sccPhase = "assign"
  /\ stack = <<>>
  /\ topologicalOrder = <<>>
  /\ sccPhase' = "done"
  /\ UNCHANGED <<graph, visited, stack, topologicalOrder, component, assigned,
                 componentNum>>

SccNext ==
  \/ TopSortCall \/ TopSortReturn \/ TopSortEnd
  \/ ServeQueue \/ AssignCall \/ AssignReturn \/ FindSCCEnd

SccSpec == SccInit /\ [][SccNext]_sccVars

(* findSCC runs in main before the program's first instruction.            *)
SccFairSpec == SccSpec /\ WF_sccVars(SccNext)
-----------------------------------------------------------------------------
(* What the numbering promises.                                            *)

(* Type invariant of findSCC's state.                                      *)
SccTypeOK ==
  /\ graph \in Graphs
  /\ sccPhase \in {"topSort", "assign", "done"}
  /\ visited \subseteq graph.nodes
  /\ stack \in Seq(graph.nodes)
  /\ topologicalOrder \in Seq(graph.nodes)
  /\ component \in [Locks -> Nat]
  /\ assigned \subseteq Locks
  /\ componentNum \in Nat

(* An edge of the loaded graph never leads to a higher component, and      *)
(* every node has one: checkSCC relies on this order when it lets a thread *)
(* that follows known edges through without a delay.                       *)
EdgesDescend ==
  sccPhase = "done" =>
    /\ graph.nodes \subseteq assigned
    /\ \A e \in graph.edges : component[e[2]] <= component[e[1]]

(* Mutexes that can deadlock with each other, being on a cycle of the      *)
(* lock order, are in one component.  This is what makes checkSCC delay.   *)
CyclesShareComponent ==
  sccPhase = "done" =>
    \A n, k \in graph.nodes : OnCommonCycle(graph, n, k) => component[n] = component[k]

(* Without cycles no two mutexes share a component: a program with a       *)
(* consistent lock order is never delayed on an edge it has shown.         *)
AcyclicSingletons ==
  sccPhase = "done" /\ Acyclic(graph) =>
    \A n, k \in graph.nodes : component[n] = component[k] => n = k

(* topSort queues every node once, whatever the shape of the graph.        *)
QueuedOnce ==
  \A n \in graph.nodes :
    LET places == {i \in 1..Len(topologicalOrder) : topologicalOrder[i] = n}
    IN  /\ Cardinality(places) <= 1
        /\ (sccPhase = "assign" /\ n \notin visited) => places # {}

(* Start-up ends: the two searches visit each node once.                   *)
FindSCCTerminates == <>(sccPhase = "done")

(* What the comment on the component map says: "SCComponent number the     *)
(* node belongs to".                                                       *)
ComponentsAreSCCs ==
  sccPhase = "done" =>
    \A n, k \in graph.nodes :
      component[n] = component[k] <=> OnCommonCycle(graph, n, k)
-----------------------------------------------------------------------------
=============================================================================
