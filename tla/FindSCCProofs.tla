---------------------------- MODULE FindSCCProofs ----------------------------
(***************************************************************************)
(* Proofs about findSCC, for every set of mutexes and every loaded graph:  *)
(* the types, that edges never lead to a higher component, that the        *)
(* mutexes of a cycle share one, and, from the order in which the nodes    *)
(* are queued, that without cycles every mutex has one of its own.         *)
(***************************************************************************)
EXTENDS FindSCC, SequenceTheorems, FiniteSetTheorems, TLAPS

Elems(s) == {s[i] : i \in 1..Len(s)}

(* A node that topSort has visited is active or in the queue.              *)
SortKeepsNodes ==
  sccPhase = "topSort" => visited \subseteq Elems(stack) \cup Elems(topologicalOrder)

(* No node gets lost: what is not visited is still to be served.           *)
AssignKeepsNodes ==
  sccPhase = "assign" => graph.nodes \subseteq visited \cup Elems(topologicalOrder)

(* The active calls of assignCompNumber all carry the last number, and no  *)
(* number is higher.                                                       *)
AssignNumbers ==
  sccPhase = "assign" =>
    /\ visited \subseteq assigned
    /\ Elems(stack) \subseteq visited
    /\ \A n \in visited : component[n] <= componentNum
    /\ \A n \in Elems(stack) : component[n] = componentNum

(* The edges of a node whose call has returned lead to nodes that are      *)
(* numbered no higher.                                                     *)
AssignDescends ==
  sccPhase = "assign" =>
    \A n \in visited \ Elems(stack) : \A k \in GetOutNeibours(graph, n) :
      k \in visited /\ component[k] <= component[n]

(* The inductive invariant of findSCC.                                     *)
SccInv ==
  /\ SccTypeOK
  /\ SortKeepsNodes
  /\ AssignKeepsNodes
  /\ AssignNumbers
  /\ AssignDescends
  /\ EdgesDescend
-----------------------------------------------------------------------------
(* What the sequence operations do to the set of elements.                 *)

(* push: the elements and the new one.                                     *)
LEMMA ElemsAppend ==
  ASSUME NEW S, NEW s \in Seq(S), NEW x \in S
  PROVE  /\ Append(s, x) \in Seq(S)
         /\ Append(s, x) # <<>>
         /\ Elems(Append(s, x)) = Elems(s) \cup {x}
<1> DEFINE a == Append(s, x)
<1>1. /\ a \in Seq(S) /\ a # <<>> /\ Len(a) = Len(s) + 1 /\ Len(s) \in Nat
      /\ \A i \in 1..Len(s) : a[i] = s[i]
      /\ a[Len(s) + 1] = x
  BY AppendProperties, LenProperties
<1> HIDE DEF a
<1>2. Elems(a) \subseteq Elems(s) \cup {x}
  <2> SUFFICES ASSUME NEW i \in 1..Len(a) PROVE a[i] \in Elems(s) \cup {x}
    BY DEF Elems
  <2>1. CASE i \in 1..Len(s)
    BY <1>1, <2>1 DEF Elems
  <2>2. CASE i = Len(s) + 1
    BY <1>1, <2>2
  <2> QED
    BY <1>1, <2>1, <2>2
<1>3. Elems(s) \subseteq Elems(a)
  <2> SUFFICES ASSUME NEW i \in 1..Len(s) PROVE s[i] \in Elems(a)
    BY DEF Elems
  <2>1. i \in 1..Len(a) /\ a[i] = s[i]
    BY <1>1
  <2> QED
    BY <2>1 DEF Elems
<1>4. x \in Elems(a)
  <2>1. Len(a) \in 1..Len(a) /\ a[Len(a)] = x
    BY <1>1
  <2> QED
    BY <2>1 DEF Elems
<1> QED
  BY <1>1, <1>2, <1>3, <1>4 DEF a

(* The top of a non-empty stack is an element; popping removes at most it. *)
LEMMA ElemsPop ==
  ASSUME NEW S, NEW s \in Seq(S), s # <<>>
  PROVE  LET top == s[Len(s)]
             pop == SubSeq(s, 1, Len(s) - 1)
         IN  /\ top \in S
             /\ pop \in Seq(S)
             /\ Elems(s) = Elems(pop) \cup {top}
<1> DEFINE top == s[Len(s)]
           pop == SubSeq(s, 1, Len(s) - 1)
<1>1. Len(s) \in Nat /\ Len(s) > 0 /\ \A i \in 1..Len(s) : s[i] \in S
  BY EmptySeq, ElementOfSeq
<1>2. /\ pop \in Seq(S)
      /\ Len(pop) = Len(s) - 1
      /\ \A i \in 1..(Len(s) - 1) : pop[i] = s[i]
  <2>1. \A i \in 1..(Len(s) - 1) : s[i] \in S
    BY <1>1
  <2>2. /\ pop \in Seq(S)
        /\ Len(pop) = IF 1 <= Len(s) - 1 THEN (Len(s) - 1) - 1 + 1 ELSE 0
        /\ \A i \in 1..((Len(s) - 1) - 1 + 1) : pop[i] = s[1 + i - 1]
    BY <1>1, <2>1, SubSeqProperties
  <2> HIDE DEF pop
  <2>3. \A i \in 1..(Len(s) - 1) : pop[i] = s[i]
    <3> SUFFICES ASSUME NEW i \in 1..(Len(s) - 1) PROVE pop[i] = s[i]
      OBVIOUS
    <3>1. i \in 1..((Len(s) - 1) - 1 + 1) /\ 1 + i - 1 = i
      BY <1>1
    <3> QED
      BY <2>2, <3>1
  <2>4. Len(pop) = Len(s) - 1
    <3> DEFINE l == Len(s)
    <3>1. l \in Nat /\ l > 0
      BY <1>1
    <3> HIDE DEF l
    <3>2. l - 1 = IF 1 <= l - 1 THEN (l - 1) - 1 + 1 ELSE 0
      BY <3>1
    <3> QED
      BY <2>2, <3>2 DEF l
  <2> QED
    BY <2>2, <2>3, <2>4
<1> HIDE DEF pop
<1>3. Elems(s) \subseteq Elems(pop) \cup {top}
  <2> SUFFICES ASSUME NEW i \in 1..Len(s) PROVE s[i] \in Elems(pop) \cup {top}
    BY DEF Elems
  <2>1. CASE i = Len(s)
    BY <2>1
  <2>2. CASE i # Len(s)
    <3>1. i \in 1..Len(pop) /\ pop[i] = s[i]
      BY <1>1, <1>2, <2>2
    <3> QED
      BY <3>1 DEF Elems
  <2> QED
    BY <2>1, <2>2
<1>4. Elems(pop) \subseteq Elems(s)
  <2> SUFFICES ASSUME NEW i \in 1..Len(pop) PROVE pop[i] \in Elems(s)
    BY DEF Elems
  <2>1. i \in 1..Len(s) /\ pop[i] = s[i]
    BY <1>1, <1>2
  <2> QED
    BY <2>1 DEF Elems
<1>5. top \in Elems(s) /\ top \in S
  BY <1>1 DEF Elems
<1> QED
  BY <1>2, <1>3, <1>4, <1>5 DEF pop

(* The front of a non-empty queue and the rest are its elements.           *)
LEMMA ElemsTail ==
  ASSUME NEW S, NEW s \in Seq(S), s # <<>>
  PROVE  /\ Head(s) \in S
         /\ Tail(s) \in Seq(S)
         /\ Elems(s) = Elems(Tail(s)) \cup {Head(s)}
<1> DEFINE r == Tail(s)
<1>1. /\ Head(s) \in S /\ r \in Seq(S) /\ Len(r) = Len(s) - 1
      /\ \A i \in 1..Len(r) : r[i] = s[i + 1]
      /\ Len(s) \in Nat \ {0}
  BY HeadTailProperties, EmptySeq
<1>2. Head(s) = s[1]
  OBVIOUS
<1> HIDE DEF r
<1>3. Elems(s) \subseteq Elems(r) \cup {Head(s)}
  <2> SUFFICES ASSUME NEW i \in 1..Len(s) PROVE s[i] \in Elems(r) \cup {Head(s)}
    BY DEF Elems
  <2>1. CASE i = 1
    BY <1>2, <2>1
  <2>2. CASE i # 1
    <3>1. i - 1 \in 1..Len(r) /\ r[i - 1] = s[i]
      BY <1>1, <2>2
    <3> QED
      BY <3>1 DEF Elems
  <2> QED
    BY <2>1, <2>2
<1>4. Elems(r) \subseteq Elems(s)
  <2> SUFFICES ASSUME NEW i \in 1..Len(r) PROVE r[i] \in Elems(s)
    BY DEF Elems
  <2>1. i + 1 \in 1..Len(s) /\ r[i] = s[i + 1]
    BY <1>1
  <2> QED
    BY <2>1 DEF Elems
<1>5. Head(s) \in Elems(s)
  <2>1. 1 \in 1..Len(s)
    BY <1>1
  <2> QED
    BY <1>2, <2>1 DEF Elems
<1> QED
  BY <1>1, <1>3, <1>4, <1>5 DEF r

(* The empty sequence.                                                     *)
LEMMA ElemsEmpty == Elems(<<>>) = {} /\ \A S : <<>> \in Seq(S)
<1>1. Len(<<>>) = 0 /\ \A S : <<>> \in Seq(S)
  BY EmptySeq
<1> QED
  BY <1>1 DEF Elems
-----------------------------------------------------------------------------
(* The invariant holds initially.                                          *)
LEMMA SccInitInv == SccInit => SccInv
<1> SUFFICES ASSUME SccInit PROVE SccInv
  OBVIOUS
<1>1. SccTypeOK
  BY ElemsEmpty DEF SccInit, SccTypeOK
<1>2. sccPhase = "topSort" /\ visited = {}
  BY DEF SccInit
<1> QED
  BY <1>1, <1>2 DEF SccInv, SortKeepsNodes, AssignKeepsNodes, AssignNumbers,
                    AssignDescends, EdgesDescend

(* A loaded graph has no edge to or from a missing node.                   *)
LEMMA GraphEdges ==
  ASSUME SccTypeOK
  PROVE  /\ graph.nodes \subseteq Locks
         /\ graph.edges \subseteq graph.nodes \X graph.nodes
BY GraphAssumption DEF SccTypeOK, GraphType

(* Each step of topSort keeps the invariant.                               *)
LEMMA TopSortInv ==
  ASSUME SccInv, TopSortCall \/ TopSortReturn \/ TopSortEnd
  PROVE  SccInv'
<1> USE DEF SccInv
<1>0. /\ stack \in Seq(graph.nodes) /\ topologicalOrder \in Seq(graph.nodes)
      /\ visited \subseteq Elems(stack) \cup Elems(topologicalOrder)
      /\ sccPhase = "topSort"
  BY DEF SccTypeOK, SortKeepsNodes, TopSortCall, TopSortReturn, TopSortEnd
<1>1. CASE TopSortCall
  <2>1. PICK n \in graph.nodes : /\ visited' = visited \cup {n}
                                 /\ stack' = Append(stack, n)
    BY <1>1 DEF TopSortCall, GetOutNeibours
  <2>2. /\ sccPhase' = "topSort"
        /\ UNCHANGED <<graph, topologicalOrder, component, assigned, componentNum>>
    BY <1>0, <1>1 DEF TopSortCall
  <2>3. stack' \in Seq(graph.nodes) /\ Elems(stack') = Elems(stack) \cup {n}
    BY <1>0, <2>1, ElemsAppend
  <2>4. SccTypeOK'
    BY <2>1, <2>2, <2>3 DEF SccTypeOK
  <2>5. SortKeepsNodes'
    BY <1>0, <2>1, <2>2, <2>3 DEF SortKeepsNodes
  <2> QED
    BY <2>2, <2>4, <2>5 DEF AssignKeepsNodes, AssignNumbers, AssignDescends, EdgesDescend
<1>2. CASE TopSortReturn
  <2>1. /\ sccPhase' = "topSort"
        /\ topologicalOrder' = Append(topologicalOrder, Top)
        /\ stack' = Pop /\ stack # <<>>
        /\ UNCHANGED <<graph, visited, component, assigned, componentNum>>
    BY <1>0, <1>2 DEF TopSortReturn
  <2>2. /\ Top \in graph.nodes /\ stack' \in Seq(graph.nodes)
        /\ Elems(stack) = Elems(stack') \cup {Top}
    BY <1>0, <2>1, ElemsPop DEF Top, Pop
  <2>3. /\ topologicalOrder' \in Seq(graph.nodes)
        /\ Elems(topologicalOrder') = Elems(topologicalOrder) \cup {Top}
    BY <1>0, <2>1, <2>2, ElemsAppend
  <2>4. SccTypeOK'
    BY <2>1, <2>2, <2>3 DEF SccTypeOK
  <2>5. SortKeepsNodes'
    BY <1>0, <2>1, <2>2, <2>3 DEF SortKeepsNodes
  <2> QED
    BY <2>1, <2>4, <2>5 DEF AssignKeepsNodes, AssignNumbers, AssignDescends, EdgesDescend
<1>3. CASE TopSortEnd
  <2>1. /\ sccPhase' = "assign" /\ visited' = {} /\ stack = <<>>
        /\ graph.nodes \subseteq visited
        /\ UNCHANGED <<graph, stack, topologicalOrder, component, assigned, componentNum>>
    BY <1>3 DEF TopSortEnd
  <2>2. Elems(stack) = {} /\ Elems(stack') = {}
    BY <2>1, ElemsEmpty
  <2>3. SccTypeOK'
    BY <2>1 DEF SccTypeOK
  <2>4. AssignKeepsNodes'
    BY <1>0, <2>1, <2>2 DEF AssignKeepsNodes
  <2>5. AssignNumbers' /\ AssignDescends'
    BY <2>1, <2>2 DEF AssignNumbers, AssignDescends
  <2> QED
    BY <2>1, <2>3, <2>4, <2>5 DEF SortKeepsNodes, EdgesDescend
<1> QED
  BY <1>1, <1>2, <1>3

(* A call of assignCompNumber on a new node n, with the current number or  *)
(* the next one, keeps the invariant when no returned call has n as a      *)
(* neighbour that is still to come.                                        *)
LEMMA NumberInv ==
  ASSUME SccInv, sccPhase = "assign", NEW n \in graph.nodes \ visited,
         NEW number \in Nat, Number(n, number),
         \/ number = componentNum
         \/ number = componentNum + 1 /\ stack = <<>>,
         componentNum' = number,
         topologicalOrder' \in Seq(graph.nodes),
         Elems(topologicalOrder) \subseteq Elems(topologicalOrder') \cup {n},
         UNCHANGED <<graph, sccPhase>>
  PROVE  SccInv'
<1> USE DEF SccInv
<1>0. /\ stack \in Seq(graph.nodes) /\ visited \subseteq graph.nodes
      /\ graph.nodes \subseteq Locks /\ component \in [Locks -> Nat]
      /\ n \in Locks /\ n \notin visited /\ componentNum \in Nat
  BY GraphEdges DEF SccTypeOK
<1>1. /\ visited' = visited \cup {n}
      /\ component' = [component EXCEPT ![n] = number]
      /\ assigned' = assigned \cup {n}
      /\ stack' = Append(stack, n)
  BY DEF Number
<1>2. stack' \in Seq(graph.nodes) /\ Elems(stack') = Elems(stack) \cup {n}
  BY <1>0, <1>1, ElemsAppend
<1>3. /\ \A k \in visited : component'[k] = component[k]
      /\ component'[n] = number
      /\ component' \in [Locks -> Nat]
  BY <1>0, <1>1
<1>4. SccTypeOK'
  BY <1>0, <1>1, <1>2, <1>3 DEF SccTypeOK
<1>5. AssignKeepsNodes'
  BY <1>1 DEF AssignKeepsNodes
<1>6. AssignNumbers'
  <2>1. CASE number = componentNum
    BY <1>0, <1>1, <1>2, <1>3, <2>1 DEF AssignNumbers
  <2>2. CASE number = componentNum + 1 /\ stack = <<>>
    <3>1. Elems(stack) = {}
      BY <2>2, ElemsEmpty
    <3>2. \A k \in visited : component[k] \in Nat /\ component[k] <= componentNum
      BY <1>0 DEF AssignNumbers
    <3>3. \A k \in visited' : component'[k] <= componentNum'
      BY <1>0, <1>1, <1>3, <2>2, <3>2
    <3> QED
      BY <1>1, <1>2, <1>3, <3>1, <3>3 DEF AssignNumbers
  <2> QED
    BY <2>1, <2>2
<1>7. AssignDescends'
  <2> SUFFICES ASSUME NEW v \in visited' \ Elems(stack'),
                      NEW k \in GetOutNeibours(graph, v)
               PROVE  k \in visited' /\ component'[k] <= component'[v]
    BY DEF AssignDescends
  <2>1. v \in visited \ Elems(stack)
    BY <1>1, <1>2
  <2>2. k \in visited /\ component[k] <= component[v]
    BY <2>1 DEF AssignDescends
  <2> QED
    BY <1>1, <1>3, <2>1, <2>2
<1> QED
  BY <1>4, <1>5, <1>6, <1>7 DEF SortKeepsNodes, EdgesDescend

(* Each step of the second search keeps the invariant.                     *)
LEMMA AssignInv ==
  ASSUME SccInv, ServeQueue \/ AssignCall \/ AssignReturn
  PROVE  SccInv'
<1> USE DEF SccInv
<1>0. /\ stack \in Seq(graph.nodes) /\ topologicalOrder \in Seq(graph.nodes)
      /\ graph.nodes \subseteq visited \cup Elems(topologicalOrder)
      /\ sccPhase = "assign" /\ componentNum \in Nat
  BY DEF SccTypeOK, AssignKeepsNodes, ServeQueue, AssignCall, AssignReturn
<1>1. CASE ServeQueue
  <2> DEFINE n == Head(topologicalOrder)
  <2>1. /\ topologicalOrder # <<>> /\ stack = <<>>
        /\ topologicalOrder' = Tail(topologicalOrder)
        /\ UNCHANGED <<graph, sccPhase>>
    BY <1>1 DEF ServeQueue
  <2>2. /\ n \in graph.nodes /\ topologicalOrder' \in Seq(graph.nodes)
        /\ Elems(topologicalOrder) = Elems(topologicalOrder') \cup {n}
    BY <1>0, <2>1, ElemsTail
  <2>3. CASE n \in visited
    <3>1. UNCHANGED <<visited, component, assigned, stack, componentNum>>
      BY <1>1, <2>3 DEF ServeQueue
    <3>2. SccTypeOK'
      BY <2>1, <2>2, <3>1 DEF SccTypeOK
    <3>3. AssignKeepsNodes'
      BY <1>0, <2>1, <2>2, <2>3, <3>1 DEF AssignKeepsNodes
    <3> QED
      BY <1>0, <2>1, <3>1, <3>2, <3>3
      DEF SortKeepsNodes, AssignNumbers, AssignDescends, EdgesDescend
  <2>4. CASE n \notin visited
    <3>1. componentNum' = componentNum + 1 /\ Number(n, componentNum + 1)
      BY <1>1, <2>4 DEF ServeQueue
    <3>2. componentNum + 1 \in Nat
      BY <1>0
    <3> HIDE DEF n
    <3> QED
      BY <1>0, <2>1, <2>2, <2>4, <3>1, <3>2, NumberInv
  <2> QED
    BY <2>3, <2>4
<1>2. CASE AssignCall
  <2>1. PICK n \in graph.nodes \ visited : Number(n, componentNum)
    BY <1>2 DEF AssignCall, GetInNeibours
  <2>2. UNCHANGED <<graph, sccPhase, topologicalOrder, componentNum>>
    BY <1>2 DEF AssignCall
  <2> QED
    BY <1>0, <2>1, <2>2, NumberInv
<1>3. CASE AssignReturn
  <2>1. /\ stack # <<>> /\ stack' = Pop
        /\ GetInNeibours(graph, Top) \subseteq visited
        /\ UNCHANGED <<graph, sccPhase, visited, topologicalOrder, component,
                       assigned, componentNum>>
    BY <1>3 DEF AssignReturn
  <2>2. /\ Top \in graph.nodes /\ stack' \in Seq(graph.nodes)
        /\ Elems(stack) = Elems(stack') \cup {Top}
    BY <1>0, <2>1, ElemsPop DEF Top, Pop
  <2>3. SccTypeOK'
    BY <2>1, <2>2 DEF SccTypeOK
  <2>4. AssignKeepsNodes'
    BY <2>1 DEF AssignKeepsNodes
  <2>5. AssignNumbers'
    BY <2>1, <2>2 DEF AssignNumbers
  <2>6. AssignDescends'
    <3> SUFFICES ASSUME NEW v \in visited \ Elems(stack'),
                        NEW k \in GetOutNeibours(graph, v)
                 PROVE  k \in visited /\ component[k] <= component[v]
      BY <2>1 DEF AssignDescends
    <3>1. CASE v \in Elems(stack)
      <4>1. v = Top /\ component[v] = componentNum
        BY <1>0, <2>2, <3>1 DEF AssignNumbers
      <4>2. k \in visited
        BY <2>1, <4>1 DEF GetInNeibours, GetOutNeibours
      <4>3. component[k] <= componentNum
        BY <1>0, <4>2 DEF AssignNumbers
      <4> QED
        BY <4>1, <4>2, <4>3
    <3>2. CASE v \notin Elems(stack)
      BY <1>0, <3>2 DEF AssignDescends
    <3> QED
      BY <3>1, <3>2
  <2> QED
    BY <1>0, <2>1, <2>3, <2>4, <2>5, <2>6 DEF SortKeepsNodes, EdgesDescend
<1> QED
  BY <1>1, <1>2, <1>3

(* When both searches are over every node is numbered and its calls have   *)
(* returned.                                                               *)
LEMMA FindSCCEndInv ==
  ASSUME SccInv, FindSCCEnd
  PROVE  SccInv'
<1> USE DEF SccInv
<1>1. /\ sccPhase = "assign" /\ stack = <<>> /\ topologicalOrder = <<>>
      /\ sccPhase' = "done"
      /\ UNCHANGED <<graph, visited, stack, topologicalOrder, component, assigned,
                     componentNum>>
  BY DEF FindSCCEnd
<1>2. Elems(stack) = {} /\ graph.nodes \subseteq visited
  BY <1>1, ElemsEmpty DEF AssignKeepsNodes
<1>3. SccTypeOK'
  BY <1>1 DEF SccTypeOK
<1>4. EdgesDescend'
  <2>1. graph.nodes \subseteq assigned
    BY <1>1, <1>2 DEF AssignNumbers
  <2>2. ASSUME NEW e \in graph.edges
        PROVE  component[e[2]] <= component[e[1]]
    <3>1. /\ e[1] \in graph.nodes /\ e[2] \in graph.nodes
          /\ e = <<e[1], e[2]>>
      BY GraphEdges
    <3>2. e[2] \in GetOutNeibours(graph, e[1])
      BY <3>1 DEF GetOutNeibours
    <3> QED
      BY <1>1, <1>2, <3>1, <3>2 DEF AssignDescends
  <2> QED
    BY <1>1, <2>1, <2>2 DEF EdgesDescend
<1> QED
  BY <1>1, <1>3, <1>4 DEF SortKeepsNodes, AssignKeepsNodes, AssignNumbers, AssignDescends

(* Every step of findSCC, or none, keeps the invariant.                    *)
LEMMA SccNextInv ==
  ASSUME SccInv, [SccNext]_sccVars
  PROVE  SccInv'
<1>1. CASE SccNext
  BY <1>1, TopSortInv, AssignInv, FindSCCEndInv DEF SccNext
<1>2. CASE UNCHANGED sccVars
  BY <1>2 DEF sccVars, SccInv, SccTypeOK, SortKeepsNodes, AssignKeepsNodes,
              AssignNumbers, AssignDescends, EdgesDescend
<1> QED
  BY <1>1, <1>2

(* The numbers descend along paths: the nodes numbered no higher than n    *)
(* form a closed set.                                                      *)
LEMMA CyclesFromEdges == SccTypeOK /\ EdgesDescend => CyclesShareComponent
<1> SUFFICES ASSUME SccTypeOK, EdgesDescend, sccPhase = "done",
                    NEW n \in graph.nodes, NEW k \in graph.nodes,
                    OnCommonCycle(graph, n, k)
             PROVE  component[n] = component[k]
  BY DEF CyclesShareComponent
<1>0. \A v \in graph.nodes : component[v] \in Nat
  BY GraphEdges DEF SccTypeOK
<1>1. ASSUME NEW u \in graph.nodes, NEW v \in graph.nodes, Reaches(graph, u, v)
      PROVE  component[v] <= component[u]
  <2> DEFINE S == {w \in graph.nodes : component[w] <= component[u]}
  <2>1. u \in S
    BY <1>0
  <2>2. Closed(graph, S)
    <3> SUFFICES ASSUME NEW e \in graph.edges, e[1] \in S PROVE e[2] \in S
      BY DEF Closed
    <3>1. e[1] \in graph.nodes /\ e[2] \in graph.nodes
      BY GraphEdges
    <3>2. component[e[2]] <= component[e[1]] /\ component[e[1]] <= component[u]
      BY DEF EdgesDescend
    <3> QED
      BY <1>0, <3>1, <3>2
  <2>3. S \in SUBSET graph.nodes
    OBVIOUS
  <2> HIDE DEF S
  <2>4. v \in S
    BY <1>1, <2>1, <2>2, <2>3 DEF Reaches
  <2> QED
    BY <2>4 DEF S
<1>2. component[k] <= component[n] /\ component[n] <= component[k]
  BY <1>1 DEF OnCommonCycle
<1> QED
  BY <1>0, <1>2

(* The inductive invariant holds in every reachable state of findSCC.      *)
THEOREM SccInvariance == SccSpec => []SccInv
<1>1. SccInit => SccInv
  BY SccInitInv
<1>2. SccInv /\ [SccNext]_sccVars => SccInv'
  BY SccNextInv
<1> QED
  BY <1>1, <1>2, PTL DEF SccSpec

(* findSCC's state keeps its types: every node it numbers, queues or has   *)
(* on the stack is a node of the loaded graph.                             *)
THEOREM SccTypeCorrect == SccSpec => []SccTypeOK
<1>1. SccInv => SccTypeOK
  BY DEF SccInv
<1> QED
  BY <1>1, SccInvariance, PTL

(* After findSCC every node of any loaded graph has a component, and no    *)
(* edge leads to a higher one.                                             *)
THEOREM EdgesDescendCorrect == SccSpec => []EdgesDescend
<1>1. SccInv => EdgesDescend
  BY DEF SccInv
<1> QED
  BY <1>1, SccInvariance, PTL

(* After findSCC mutexes on a common cycle have the same component,        *)
(* although the second search follows the edges in the wrong direction.    *)
THEOREM CyclesShareComponentCorrect == SccSpec => []CyclesShareComponent
<1>1. SccInv => CyclesShareComponent
  BY CyclesFromEdges DEF SccInv
<1> QED
  BY <1>1, SccInvariance, PTL
-----------------------------------------------------------------------------
(* The order of the nodes: topSort queues every node once, and without     *)
(* cycles after its neighbours.                                            *)

(* No element occurs twice.                                                *)
Distinct(s) == \A i, j \in 1..Len(s) : s[i] = s[j] => i = j

(* topSort has a node on the stack or in the queue, never in both, and     *)
(* only once: it is marked when its call begins.                           *)
SortVisitsOnce ==
  sccPhase = "topSort" =>
    /\ Distinct(stack)
    /\ Elems(stack) \cap Elems(topologicalOrder) = {}
    /\ Elems(stack) \cup Elems(topologicalOrder) \subseteq visited

(* The active calls of topSort are a path of the graph.                    *)
StackIsPath ==
  sccPhase = "topSort" =>
    \A j \in 1..Len(stack) : \A i \in 1..j : Reaches(graph, stack[i], stack[j])

(* Without cycles a node is queued after all its neighbours.               *)
QueueDescends ==
  Acyclic(graph) =>
    \A i \in 1..Len(topologicalOrder) :
      \A k \in GetOutNeibours(graph, topologicalOrder[i]) :
        \/ sccPhase = "assign" /\ k \in visited
        \/ \E j \in 1..(i - 1) : topologicalOrder[j] = k

(* Without cycles assignCompNumber finds nothing to recurse on, and every  *)
(* node gets a number of its own.                                          *)
NumbersDiffer ==
  Acyclic(graph) /\ sccPhase = "assign" =>
    /\ \A n \in Elems(stack) : GetOutNeibours(graph, n) \subseteq visited
    /\ \A n, k \in visited : component[n] = component[k] => n = k

(* The inductive invariant of the order in which findSCC takes the nodes.  *)
OrderInv ==
  /\ Distinct(topologicalOrder)
  /\ SortVisitsOnce
  /\ StackIsPath
  /\ QueueDescends
  /\ NumbersDiffer
  /\ AcyclicSingletons
-----------------------------------------------------------------------------
(* push, by position.                                                      *)
LEMMA AppendAt ==
  ASSUME NEW S, NEW s \in Seq(S), NEW x \in S
  PROVE  /\ Len(Append(s, x)) = Len(s) + 1 /\ Len(s) \in Nat
         /\ \A i \in 1..Len(s) : Append(s, x)[i] = s[i] /\ s[i] \in S
         /\ Append(s, x)[Len(s) + 1] = x
<1>1. /\ Len(Append(s, x)) = Len(s) + 1 /\ Len(s) \in Nat
      /\ \A i \in 1..Len(s) : Append(s, x)[i] = s[i]
      /\ Append(s, x)[Len(s) + 1] = x
  BY AppendProperties, LenProperties
<1>2. \A i \in 1..Len(s) : s[i] \in S
  BY ElementOfSeq
<1> QED
  BY <1>1, <1>2

(* pop, by position.                                                       *)
LEMMA PopAt ==
  ASSUME NEW S, NEW s \in Seq(S), s # <<>>
  PROVE  /\ Len(s) \in Nat \ {0}
         /\ Len(SubSeq(s, 1, Len(s) - 1)) = Len(s) - 1
         /\ \A i \in 1..(Len(s) - 1) : SubSeq(s, 1, Len(s) - 1)[i] = s[i]
<1> DEFINE l == Len(s)
           p == SubSeq(s, 1, l - 1)
<1>1. l \in Nat \ {0} /\ \A i \in 1..(l - 1) : s[i] \in S
  BY EmptySeq, ElementOfSeq
<1>2. /\ Len(p) = IF 1 <= l - 1 THEN (l - 1) - 1 + 1 ELSE 0
      /\ \A i \in 1..((l - 1) - 1 + 1) : p[i] = s[1 + i - 1]
  BY <1>1, SubSeqProperties
<1> HIDE DEF l, p
<1>3. \A i \in 1..(l - 1) : i \in 1..((l - 1) - 1 + 1) /\ 1 + i - 1 = i
  BY <1>1
<1>4. l - 1 = IF 1 <= l - 1 THEN (l - 1) - 1 + 1 ELSE 0
  BY <1>1
<1>5. \A i \in 1..(l - 1) : p[i] = s[i]
  BY <1>2, <1>3
<1> QED
  BY <1>1, <1>2, <1>4, <1>5 DEF l, p

(* The front of a queue removed, by position.                              *)
LEMMA TailAt ==
  ASSUME NEW S, NEW s \in Seq(S), s # <<>>
  PROVE  /\ Len(s) \in Nat \ {0} /\ Head(s) = s[1]
         /\ Len(Tail(s)) = Len(s) - 1
         /\ \A i \in 1..Len(Tail(s)) : Tail(s)[i] = s[i + 1]
  BY HeadTailProperties, EmptySeq

(* A new element at the end keeps the elements distinct.                   *)
LEMMA AppendDistinct ==
  ASSUME NEW S, NEW s \in Seq(S), NEW x \in S, Distinct(s), x \notin Elems(s)
  PROVE  Distinct(Append(s, x))
<1> DEFINE a == Append(s, x)
<1>1. /\ Len(a) = Len(s) + 1 /\ Len(s) \in Nat
      /\ \A i \in 1..Len(s) : a[i] = s[i]
      /\ a[Len(s) + 1] = x
  BY AppendAt
<1>2. \A i \in 1..Len(s) : s[i] # x
  BY DEF Elems
<1> HIDE DEF a
<1> SUFFICES ASSUME NEW i \in 1..Len(a), NEW j \in 1..Len(a), a[i] = a[j] PROVE i = j
  BY DEF Distinct, a
<1>3. (i \in 1..Len(s) \/ i = Len(s) + 1) /\ (j \in 1..Len(s) \/ j = Len(s) + 1)
  BY <1>1
<1> QED
  BY <1>1, <1>2, <1>3 DEF Distinct

(* A stack of distinct elements stays so when it is popped, and the popped *)
(* element is gone.                                                        *)
LEMMA PopDistinct ==
  ASSUME NEW S, NEW s \in Seq(S), s # <<>>, Distinct(s)
  PROVE  /\ Distinct(SubSeq(s, 1, Len(s) - 1))
         /\ s[Len(s)] \notin Elems(SubSeq(s, 1, Len(s) - 1))
<1> DEFINE p == SubSeq(s, 1, Len(s) - 1)
<1>1. /\ Len(s) \in Nat \ {0} /\ Len(p) = Len(s) - 1
      /\ \A i \in 1..(Len(s) - 1) : p[i] = s[i]
  BY PopAt
<1> HIDE DEF p
<1>2. Distinct(p)
  BY <1>1 DEF Distinct
<1>3. s[Len(s)] \notin Elems(p)
  <2> SUFFICES ASSUME NEW i \in 1..Len(p), p[i] = s[Len(s)] PROVE FALSE
    BY DEF Elems
  <2> QED
    BY <1>1 DEF Distinct
<1> QED
  BY <1>2, <1>3 DEF p

(* The rest of a queue of distinct elements.                               *)
LEMMA TailDistinct ==
  ASSUME NEW S, NEW s \in Seq(S), s # <<>>, Distinct(s)
  PROVE  Distinct(Tail(s))
<1> DEFINE r == Tail(s)
<1>1. /\ Len(s) \in Nat \ {0} /\ Len(r) = Len(s) - 1
      /\ \A i \in 1..Len(r) : r[i] = s[i + 1]
  BY TailAt
<1> HIDE DEF r
<1> QED
  BY <1>1 DEF Distinct, r

(* Distinct elements have at most one place each.                          *)
LEMMA DistinctPlaces ==
  ASSUME NEW S, NEW s \in Seq(S), Distinct(s), NEW n
  PROVE  Cardinality({i \in 1..Len(s) : s[i] = n}) <= 1
<1> DEFINE places == {i \in 1..Len(s) : s[i] = n}
<1>1. CASE places = {}
  <2>1. Cardinality(places) = 0
    BY <1>1, FS_EmptySet
  <2> QED
    BY <2>1
<1>2. CASE places # {}
  <2>1. PICK p \in places : TRUE
    BY <1>2
  <2>2. places = {p}
    BY <2>1 DEF Distinct
  <2>3. Cardinality(places) = 1
    BY <2>2, FS_Singleton
  <2> QED
    BY <2>3
<1> QED
  BY <1>1, <1>2
-----------------------------------------------------------------------------
(* A node reaches itself and whatever an edge leads to from a node that it *)
(* reaches.                                                                *)
LEMMA ReachesStep ==
  ASSUME NEW g, NEW n, NEW k, NEW l, Reaches(g, n, k), <<k, l>> \in g.edges
  PROVE  Reaches(g, n, l)
<1> SUFFICES ASSUME NEW S \in SUBSET g.nodes, n \in S, Closed(g, S) PROVE l \in S
  BY DEF Reaches
<1>1. k \in S
  BY DEF Reaches
<1>2. <<k, l>>[1] = k /\ <<k, l>>[2] = l
  OBVIOUS
<1> QED
  BY <1>1, <1>2 DEF Closed

LEMMA ReachesItself ==
  ASSUME NEW g, NEW n
  PROVE  Reaches(g, n, n)
  BY DEF Reaches

(* The invariant holds initially.                                          *)
LEMMA OrderInit == SccInit => OrderInv
<1> SUFFICES ASSUME SccInit PROVE OrderInv
  OBVIOUS
<1>1. sccPhase = "topSort" /\ stack = <<>> /\ topologicalOrder = <<>> /\ visited = {}
  BY DEF SccInit
<1>2. Len(<<>>) = 0 /\ Elems(<<>>) = {}
  BY ElemsEmpty
<1> QED
  BY <1>1, <1>2 DEF OrderInv, Distinct, SortVisitsOnce, StackIsPath, QueueDescends,
                    NumbersDiffer, AcyclicSingletons

(* Each step of topSort keeps the invariant.                               *)
LEMMA TopSortOrder ==
  ASSUME SccInv, SccInv', OrderInv, TopSortCall \/ TopSortReturn \/ TopSortEnd
  PROVE  OrderInv'
<1> USE DEF OrderInv
<1>0. /\ stack \in Seq(graph.nodes) /\ topologicalOrder \in Seq(graph.nodes)
      /\ visited \subseteq Elems(stack) \cup Elems(topologicalOrder)
      /\ sccPhase = "topSort"
  BY DEF SccInv, SccTypeOK, SortKeepsNodes, TopSortCall, TopSortReturn, TopSortEnd
<1>a. /\ Distinct(stack)
      /\ Elems(stack) \cap Elems(topologicalOrder) = {}
      /\ Elems(stack) \cup Elems(topologicalOrder) \subseteq visited
  BY <1>0 DEF SortVisitsOnce
<1>1. CASE TopSortCall
  <2>0. /\ sccPhase' = "topSort"
        /\ UNCHANGED <<graph, topologicalOrder, component, assigned, componentNum>>
    BY <1>0, <1>1 DEF TopSortCall
  <2>1. PICK n \in graph.nodes \ visited :
          /\ visited' = visited \cup {n}
          /\ stack' = Append(stack, n)
          /\ stack # <<>> => n \in GetOutNeibours(graph, Top)
    BY <1>1 DEF TopSortCall, GetOutNeibours
  <2>2. Elems(stack') = Elems(stack) \cup {n} /\ Distinct(stack')
    BY <1>0, <1>a, <2>1, ElemsAppend, AppendDistinct
  <2>3. SortVisitsOnce'
    BY <1>a, <2>0, <2>1, <2>2 DEF SortVisitsOnce
  <2>4. StackIsPath'
    <3>1. /\ Len(stack') = Len(stack) + 1 /\ Len(stack) \in Nat
          /\ \A i \in 1..Len(stack) : stack'[i] = stack[i]
          /\ stack'[Len(stack) + 1] = n
      BY <1>0, <2>1, AppendAt
    <3> SUFFICES ASSUME NEW j \in 1..Len(stack'), NEW i \in 1..j
                 PROVE  Reaches(graph, stack'[i], stack'[j])
      BY <2>0 DEF StackIsPath
    <3>2. CASE j \in 1..Len(stack)
      BY <1>0, <3>1, <3>2 DEF StackIsPath
    <3>3. CASE j = Len(stack) + 1 /\ i = j
      BY <3>1, <3>3, ReachesItself
    <3>4. CASE j = Len(stack) + 1 /\ i # j
      <4>1. i \in 1..Len(stack) /\ Len(stack) \in 1..Len(stack) /\ stack # <<>>
        BY <3>1, <3>4
      <4>2. Reaches(graph, stack[i], Top)
        BY <1>0, <4>1 DEF StackIsPath, Top
      <4>3. <<Top, n>> \in graph.edges
        BY <2>1, <4>1 DEF GetOutNeibours
      <4> QED
        BY <3>1, <3>4, <4>1, <4>2, <4>3, ReachesStep
    <3> QED
      BY <3>1, <3>2, <3>3, <3>4
  <2>5. QueueDescends'
    BY <1>0, <2>0 DEF QueueDescends
  <2> QED
    BY <2>0, <2>3, <2>4, <2>5 DEF NumbersDiffer, AcyclicSingletons
<1>2. CASE TopSortReturn
  <2>1. /\ sccPhase' = "topSort"
        /\ topologicalOrder' = Append(topologicalOrder, Top)
        /\ stack' = Pop /\ stack # <<>>
        /\ GetOutNeibours(graph, Top) \subseteq visited
        /\ UNCHANGED <<graph, visited, component, assigned, componentNum>>
    BY <1>0, <1>2 DEF TopSortReturn
  <2>2. /\ Top \in graph.nodes /\ Elems(stack) = Elems(stack') \cup {Top}
        /\ Distinct(stack') /\ Top \notin Elems(stack')
    BY <1>0, <1>a, <2>1, ElemsPop, PopDistinct DEF Top, Pop
  <2>3. /\ Elems(topologicalOrder') = Elems(topologicalOrder) \cup {Top}
        /\ Distinct(topologicalOrder')
    BY <1>0, <1>a, <2>1, <2>2, ElemsAppend, AppendDistinct
  <2>4. SortVisitsOnce'
    BY <1>a, <2>1, <2>2, <2>3 DEF SortVisitsOnce
  <2>5. /\ Len(stack) \in Nat \ {0} /\ Len(stack') = Len(stack) - 1
        /\ \A i \in 1..(Len(stack) - 1) : stack'[i] = stack[i]
    BY <1>0, <2>1, PopAt DEF Pop
  <2>6. StackIsPath'
    BY <1>0, <2>1, <2>5 DEF StackIsPath
  <2>7. QueueDescends'
    <3>1. /\ Len(topologicalOrder') = Len(topologicalOrder) + 1
          /\ Len(topologicalOrder) \in Nat
          /\ \A i \in 1..Len(topologicalOrder) : topologicalOrder'[i] = topologicalOrder[i]
          /\ topologicalOrder'[Len(topologicalOrder) + 1] = Top
      BY <1>0, <2>1, <2>2, AppendAt
    <3> SUFFICES ASSUME Acyclic(graph), NEW i \in 1..Len(topologicalOrder'),
                        NEW k \in GetOutNeibours(graph, topologicalOrder'[i])
                 PROVE  \E j \in 1..(i - 1) : topologicalOrder'[j] = k
      BY <2>1 DEF QueueDescends
    <3>2. CASE i \in 1..Len(topologicalOrder)
      <4>1. PICK j \in 1..(i - 1) : topologicalOrder[j] = k
        BY <1>0, <3>1, <3>2 DEF QueueDescends
      <4>2. j \in 1..Len(topologicalOrder)
        BY <3>1, <3>2
      <4> QED
        BY <3>1, <4>1, <4>2
    <3>3. CASE i = Len(topologicalOrder) + 1
      <4>1. k \in visited /\ <<Top, k>> \in graph.edges /\ k \in graph.nodes
        BY <2>1, <3>1, <3>3 DEF GetOutNeibours
      <4>2. k \notin Elems(stack)
        <5> SUFFICES ASSUME NEW p \in 1..Len(stack), stack[p] = k PROVE FALSE
          BY DEF Elems
        <5>1. Reaches(graph, k, Top)
          BY <1>0, <2>5 DEF StackIsPath, Top
        <5>2. Reaches(graph, Top, k)
          BY <4>1, ReachesItself, ReachesStep
        <5>3. Top = k
          BY <2>2, <4>1, <5>1, <5>2 DEF Acyclic, OnCommonCycle
        <5> QED
          BY <2>2, <4>1, <5>3 DEF Acyclic
      <4>3. PICK j \in 1..Len(topologicalOrder) : topologicalOrder[j] = k
        BY <1>0, <4>1, <4>2 DEF Elems
      <4> QED
        BY <3>1, <3>3, <4>3
    <3> QED
      BY <3>1, <3>2, <3>3
  <2> QED
    BY <2>1, <2>3, <2>4, <2>6, <2>7 DEF NumbersDiffer, AcyclicSingletons
<1>3. CASE TopSortEnd
  <2>1. /\ sccPhase' = "assign" /\ visited' = {} /\ stack = <<>>
        /\ UNCHANGED <<graph, stack, topologicalOrder, component, assigned, componentNum>>
    BY <1>3 DEF TopSortEnd
  <2>2. Elems(stack') = {}
    BY <2>1, ElemsEmpty
  <2>3. QueueDescends'
    BY <1>0, <2>1 DEF QueueDescends
  <2>4. NumbersDiffer'
    BY <2>1, <2>2 DEF NumbersDiffer
  <2> QED
    BY <2>1, <2>3, <2>4 DEF SortVisitsOnce, StackIsPath, AcyclicSingletons
<1> QED
  BY <1>1, <1>2, <1>3

(* Each step of the second search keeps the invariant.                     *)
LEMMA AssignOrder ==
  ASSUME SccInv, SccInv', OrderInv, ServeQueue \/ AssignCall \/ AssignReturn
  PROVE  OrderInv'
<1> USE DEF OrderInv
<1>0. /\ stack \in Seq(graph.nodes) /\ topologicalOrder \in Seq(graph.nodes)
      /\ sccPhase = "assign" /\ sccPhase' = "assign" /\ componentNum \in Nat
      /\ component \in [Locks -> Nat] /\ visited \subseteq graph.nodes
      /\ graph.nodes \subseteq Locks /\ graph' = graph
  BY GraphEdges DEF SccInv, SccTypeOK, ServeQueue, AssignCall, AssignReturn
<1>1. CASE ServeQueue
  <2> DEFINE n == Head(topologicalOrder)
  <2>1. /\ topologicalOrder # <<>> /\ stack = <<>>
        /\ topologicalOrder' = Tail(topologicalOrder)
    BY <1>1 DEF ServeQueue
  <2>2. /\ Len(topologicalOrder) \in Nat \ {0} /\ n = topologicalOrder[1]
        /\ Len(topologicalOrder') = Len(topologicalOrder) - 1
        /\ \A i \in 1..Len(topologicalOrder') : topologicalOrder'[i] = topologicalOrder[i + 1]
    BY <1>0, <2>1, TailAt
  <2>3. n \in graph.nodes /\ Distinct(topologicalOrder')
    BY <1>0, <2>1, ElemsTail, TailDistinct
  <2>4. visited' = visited \cup {n}
    BY <1>1 DEF ServeQueue, Number
  <2> HIDE DEF n
  <2>5. QueueDescends'
    <3> SUFFICES ASSUME Acyclic(graph), NEW i \in 1..Len(topologicalOrder'),
                        NEW k \in GetOutNeibours(graph, topologicalOrder'[i]),
                        k \notin visited'
                 PROVE  \E j \in 1..(i - 1) : topologicalOrder'[j] = k
      BY <1>0 DEF QueueDescends
    <3>1. i + 1 \in 1..Len(topologicalOrder) /\ topologicalOrder'[i] = topologicalOrder[i + 1]
      BY <2>2
    <3>2. PICK j \in 1..i : topologicalOrder[j] = k
      BY <2>4, <3>1 DEF QueueDescends
    <3>3. j # 1
      BY <2>2, <2>4, <3>2
    <3>4. /\ j - 1 \in 1..(i - 1) /\ j - 1 \in 1..Len(topologicalOrder')
          /\ (j - 1) + 1 = j
      BY <2>2, <3>3
    <3>5. topologicalOrder'[j - 1] = k
      BY <2>2, <3>2, <3>4
    <3> QED
      BY <3>4, <3>5
  <2>6. NumbersDiffer'
    <3>1. CASE n \in visited
      BY <1>0, <1>1, <2>4, <3>1 DEF ServeQueue, NumbersDiffer, n
    <3>2. CASE n \notin visited
      <4>1. /\ component' = [component EXCEPT ![n] = componentNum + 1]
            /\ stack' = Append(stack, n)
        BY <1>1, <3>2 DEF ServeQueue, Number, n
      <4>2. Elems(stack') = {n}
        <5>1. Elems(stack') = Elems(stack) \cup {n}
          BY <1>0, <2>3, <4>1, ElemsAppend
        <5>2. Elems(stack) = {}
          BY <2>1, ElemsEmpty
        <5> QED
          BY <5>1, <5>2
      <4>3. /\ component'[n] = componentNum + 1
            /\ \A k \in visited : component'[k] = component[k] /\ component[k] \in Nat
        BY <1>0, <2>3, <3>2, <4>1
      <4>4. \A k \in visited : component[k] <= componentNum
        BY <1>0 DEF SccInv, AssignNumbers
      <4>5. \A k \in visited : component'[k] # component'[n]
        BY <1>0, <4>3, <4>4
      <4>6. ASSUME Acyclic(graph)
            PROVE  GetOutNeibours(graph, n) \subseteq visited
        <5>1. 1 \in 1..Len(topologicalOrder) /\ ~ \E j \in 1..(1 - 1) : TRUE
          BY <2>2
        <5> QED
          BY <1>0, <2>2, <4>6, <5>1 DEF QueueDescends
      <4> QED
        BY <1>0, <2>4, <4>2, <4>3, <4>5, <4>6 DEF NumbersDiffer
    <3> QED
      BY <3>1, <3>2
  <2> QED
    BY <1>0, <2>3, <2>5, <2>6 DEF SortVisitsOnce, StackIsPath, AcyclicSingletons
<1>2. CASE AssignCall
  <2>1. /\ stack # <<>> /\ topologicalOrder' = topologicalOrder
        /\ \E n \in GetInNeibours(graph, Top) \ visited : visited' = visited \cup {n}
    BY <1>2 DEF AssignCall, Number
  <2>2. Top \in Elems(stack)
    BY <1>0, <2>1, ElemsPop DEF Top
  <2>3. ~ Acyclic(graph)
    BY <1>0, <2>1, <2>2 DEF NumbersDiffer, GetInNeibours, GetOutNeibours
  <2> QED
    BY <1>0, <2>1, <2>3
    DEF SortVisitsOnce, StackIsPath, QueueDescends, NumbersDiffer, AcyclicSingletons
<1>3. CASE AssignReturn
  <2>1. /\ stack # <<>> /\ stack' = Pop
        /\ UNCHANGED <<visited, topologicalOrder, component>>
    BY <1>3 DEF AssignReturn
  <2>2. Elems(stack') \subseteq Elems(stack)
    BY <1>0, <2>1, ElemsPop DEF Top, Pop
  <2>3. QueueDescends'
    BY <1>0, <2>1 DEF QueueDescends
  <2>4. NumbersDiffer'
    BY <1>0, <2>1, <2>2 DEF NumbersDiffer
  <2> QED
    BY <1>0, <2>1, <2>3, <2>4 DEF SortVisitsOnce, StackIsPath, AcyclicSingletons
<1> QED
  BY <1>1, <1>2, <1>3

(* Every step of findSCC, or none, keeps the invariant.                    *)
LEMMA OrderNext ==
  ASSUME SccInv, SccInv', OrderInv, [SccNext]_sccVars
  PROVE  OrderInv'
<1>1. CASE FindSCCEnd
  <2>1. /\ sccPhase = "assign" /\ stack = <<>> /\ topologicalOrder = <<>>
        /\ sccPhase' = "done"
        /\ UNCHANGED <<graph, visited, topologicalOrder, component>>
    BY <1>1 DEF FindSCCEnd
  <2>2. graph.nodes \subseteq visited /\ Len(topologicalOrder) = 0
    BY <2>1, ElemsEmpty, EmptySeq DEF SccInv, AssignKeepsNodes
  <2> QED
    BY <2>1, <2>2 DEF OrderInv, SortVisitsOnce, StackIsPath, QueueDescends,
                      NumbersDiffer, AcyclicSingletons
<1>2. CASE UNCHANGED sccVars
  BY <1>2 DEF sccVars, OrderInv, SortVisitsOnce, StackIsPath, QueueDescends,
              NumbersDiffer, AcyclicSingletons
<1> QED
  BY <1>1, <1>2, TopSortOrder, AssignOrder DEF SccNext

(* The order of the nodes is as described in every reachable state.        *)
THEOREM OrderInvariance == SccSpec => [](SccInv /\ OrderInv)
<1>1. SccInit => OrderInv
  BY OrderInit
<1>2. SccInv /\ SccInv' /\ OrderInv /\ [SccNext]_sccVars => OrderInv'
  BY OrderNext
<1> QED
  BY <1>1, <1>2, SccInvariance, PTL DEF SccSpec

(* topSort queues every node once, and the second search finds every node  *)
(* it has not numbered in the queue, for every loaded graph.               *)
THEOREM QueuedOnceCorrect == SccSpec => []QueuedOnce
<1>1. SccInv /\ OrderInv => QueuedOnce
  <2> SUFFICES ASSUME SccInv, OrderInv, NEW n \in graph.nodes
               PROVE  /\ Cardinality({i \in 1..Len(topologicalOrder) :
                                         topologicalOrder[i] = n}) <= 1
                      /\ (sccPhase = "assign" /\ n \notin visited) =>
                           {i \in 1..Len(topologicalOrder) : topologicalOrder[i] = n} # {}
    BY DEF QueuedOnce
  <2>1. topologicalOrder \in Seq(graph.nodes) /\ Distinct(topologicalOrder)
    BY DEF SccInv, SccTypeOK, OrderInv
  <2>2. Cardinality({i \in 1..Len(topologicalOrder) : topologicalOrder[i] = n}) <= 1
    BY <2>1, DistinctPlaces
  <2>3. sccPhase = "assign" /\ n \notin visited => n \in Elems(topologicalOrder)
    BY DEF SccInv, AssignKeepsNodes
  <2> QED
    BY <2>2, <2>3 DEF Elems
<1> QED
  BY <1>1, OrderInvariance, PTL

(* After findSCC on a graph without cycles no two mutexes share a          *)
(* component, so that a consistent lock order is never delayed on it.      *)
THEOREM AcyclicSingletonsCorrect == SccSpec => []AcyclicSingletons
<1>1. OrderInv => AcyclicSingletons
  BY DEF OrderInv
<1> QED
  BY <1>1, OrderInvariance, PTL
=============================================================================
