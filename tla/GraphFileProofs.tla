--------------------------- MODULE GraphFileProofs ---------------------------
(***************************************************************************)
(* The text form of the lock-order graph, for any set of mutexes and any   *)
(* graph: what the reader makes of a file that was written as a whole, and *)
(* of one that ends after some line.                                       *)
(***************************************************************************)
EXTENDS GraphFile, LoopProofs, SequenceTheorems

(* Types, and what one pass does.                                           *)

Text == Seq(Locks \X Nat)
FileType == [n : -1 .. Cardinality(Locks), pairs : Text]

(* No edge leads to or from a missing node.                                 *)
NoDangling(gr) == \A e \in Pairs : gr.w[e] > 0 => {e[1], e[2]} \subseteq gr.nodes

(* addEdge gives a graph, changes the weight of one edge, and leaves no     *)
(* edge without its nodes.                                                  *)
LEMMA AddEdgeGraph ==
    ASSUME NEW gr \in GraphType, NEW a \in Locks, NEW b \in Locks, NEW k \in Nat
    PROVE  /\ AddEdge(gr, a, b, k) \in GraphType
           /\ AddEdge(gr, a, b, k).nodes = gr.nodes \cup {a, b}
           /\ \A e \in Pairs : e # <<a, b>> => AddEdge(gr, a, b, k).w[e] = gr.w[e]
           /\ AddEdge(gr, a, b, k).w[<<a, b>>] =
                 IF gr.w[<<a, b>>] + k > MaxWeight THEN MaxWeight ELSE gr.w[<<a, b>>] + k
           /\ NoDangling(gr) => NoDangling(AddEdge(gr, a, b, k))
<1> DEFINE new == IF gr.w[<<a, b>>] + k > MaxWeight THEN MaxWeight ELSE gr.w[<<a, b>>] + k
           h == AddEdge(gr, a, b, k)
<1>1. <<a, b>> \in Pairs /\ gr.w \in [Pairs -> 0 .. MaxWeight] /\ gr.nodes \subseteq Locks
  BY DEF Pairs, GraphType
<1>2. new \in 0 .. MaxWeight
  BY <1>1, LocksAssumption
<1>3. h = [nodes |-> gr.nodes \cup {a, b}, w |-> [gr.w EXCEPT ![<<a, b>>] = new]]
  BY DEF AddEdge
<1> HIDE DEF h, new
<1>4. h \in GraphType /\ h.nodes = gr.nodes \cup {a, b} /\ h.w[<<a, b>>] = new
  BY <1>1, <1>2, <1>3 DEF GraphType
<1>5. \A e \in Pairs : e # <<a, b>> => h.w[e] = gr.w[e]
  BY <1>1, <1>3
<1>6. ASSUME NoDangling(gr), NEW e \in Pairs, h.w[e] > 0
      PROVE  {e[1], e[2]} \subseteq h.nodes
  <2>1. CASE e = <<a, b>>
    BY <1>4, <2>1
  <2>2. CASE e # <<a, b>>
    BY <1>4, <1>5, <1>6, <2>2 DEF NoDangling
  <2> QED
    BY <2>1, <2>2
<1> QED
  BY <1>4, <1>5, <1>6 DEF h, new, NoDangling

(* An edge between two mutexes adds an order, an edge to itself none.       *)
LEMMA AddEdgeOrders ==
    ASSUME NEW gr \in GraphType, NEW a \in Locks, NEW b \in Locks, NEW k \in Nat
    PROVE  /\ a = b => Orders(AddEdge(gr, a, b, k)) = Orders(gr)
           /\ a # b /\ k > 0 => Orders(AddEdge(gr, a, b, k)) = Orders(gr) \cup {<<a, b>>}
<1> DEFINE h == AddEdge(gr, a, b, k)
<1>1. /\ \A e \in Pairs : e # <<a, b>> => h.w[e] = gr.w[e]
      /\ h.w[<<a, b>>] = IF gr.w[<<a, b>>] + k > MaxWeight THEN MaxWeight ELSE gr.w[<<a, b>>] + k
  BY AddEdgeGraph
<1> HIDE DEF h
<1>2. <<a, b>> \in Pairs /\ gr.w[<<a, b>>] \in 0 .. MaxWeight
  BY DEF Pairs, GraphType
<1>3. k > 0 => h.w[<<a, b>>] > 0
  BY <1>1, <1>2, LocksAssumption
<1>4. \A e \in Pairs : e[1] # e[2] /\ a = b => e # <<a, b>>
  OBVIOUS
<1> QED
  BY <1>1, <1>2, <1>3, <1>4 DEF h, Orders

(* getNode gives a graph and changes no weight.                             *)
LEMMA GetNodeGraph ==
    ASSUME NEW gr \in GraphType, NEW a \in Locks
    PROVE  /\ GetNode(gr, a) \in GraphType
           /\ GetNode(gr, a).nodes = gr.nodes \cup {a}
           /\ GetNode(gr, a).w = gr.w
           /\ NoDangling(gr) => NoDangling(GetNode(gr, a))
           /\ Orders(GetNode(gr, a)) = Orders(gr)
<1>1. /\ GetNode(gr, a) \in GraphType
      /\ GetNode(gr, a).nodes = gr.nodes \cup {a}
      /\ GetNode(gr, a).w = gr.w
  BY DEF GetNode, GraphType
<1> QED
  BY <1>1 DEF NoDangling, Orders

(* The empty graph is a graph.                                              *)
LEMMA EmptyGraph ==
    /\ Empty \in GraphType /\ Empty.nodes = {}
    /\ \A e \in Pairs : Empty.w[e] = 0
    /\ NoDangling(Empty) /\ Orders(Empty) = {}
BY LocksAssumption DEF Empty, GraphType, NoDangling, Orders

(* What can be read from a file.                                            *)
LEMMA PairAt ==
    ASSUME NEW f \in FileType, NEW s \in ReaderState, Left(f, s)
    PROVE  /\ f.pairs[s.pos][1] \in Locks /\ f.pairs[s.pos][2] \in Nat
           /\ f.pairs[s.pos] = <<f.pairs[s.pos][1], f.pairs[s.pos][2]>>
<1>1. s.pos \in 1 .. Len(f.pairs) /\ f.pairs \in Seq(Locks \X Nat)
  BY DEF FileType, ReaderState, Left, Text
<1>2. f.pairs[s.pos] \in Locks \X Nat
  BY <1>1, ElementOfSeq
<1> QED
  BY <1>2

(* One pass of the inner loop, with and without something left to read.     *)
LEMMA EdgePassStep ==
    ASSUME NEW f \in FileType, NEW a \in Locks, NEW s \in ReaderState
    PROVE  LET t == EdgePass(f, a)[s]
           IN  /\ t \in ReaderState
               /\ Left(f, s) =>
                    /\ t.pos = s.pos + 1
                    /\ t.g = AddEdge(s.g, a, f.pairs[s.pos][1], f.pairs[s.pos][2])
               /\ ~ Left(f, s) =>
                    /\ t.pos = s.pos /\ t.temp = s.temp
                    /\ t.g = AddEdge(s.g, a, s.temp, s.w)
<1> DEFINE t == EdgePass(f, a)[s]
<1>0. /\ s.pos \in Nat \ {0} /\ s.temp \in Locks /\ s.w \in Nat /\ s.g \in GraphType
      /\ s = [pos |-> s.pos, temp |-> s.temp, w |-> s.w, g |-> s.g]
  BY DEF ReaderState
<1>1. CASE Left(f, s)
  <2> DEFINE b == f.pairs[s.pos][1]
             k == f.pairs[s.pos][2]
             h == AddEdge(s.g, a, b, k)
  <2>1. b \in Locks /\ k \in Nat
    BY <1>1, PairAt
  <2>2. h \in GraphType
    BY <1>0, <2>1, AddEdgeGraph
  <2>3. t = [pos |-> s.pos + 1, temp |-> b, w |-> k, g |-> h]
    BY <1>0, <1>1 DEF EdgePass, ReaderState
  <2> HIDE DEF t, b, k, h
  <2>4. t \in ReaderState /\ t.pos = s.pos + 1 /\ t.g = h
    BY <1>0, <2>1, <2>2, <2>3 DEF ReaderState
  <2> QED
    BY <1>1, <2>4 DEF t, h, b, k
<1>2. CASE ~ Left(f, s)
  <2> DEFINE h == AddEdge(s.g, a, s.temp, s.w)
  <2>1. h \in GraphType
    BY <1>0, AddEdgeGraph
  <2>2. t = [pos |-> s.pos, temp |-> s.temp, w |-> s.w, g |-> h]
    BY <1>0, <1>2 DEF EdgePass, ReaderState
  <2> HIDE DEF t, h
  <2>3. t \in ReaderState /\ t.pos = s.pos /\ t.temp = s.temp /\ t.g = h
    BY <1>0, <2>1, <2>2 DEF ReaderState
  <2> QED
    BY <1>2, <2>3 DEF t, h
<1> QED
  BY <1>1, <1>2

LEMMA EdgePassType ==
    ASSUME NEW f \in FileType, NEW a \in Locks
    PROVE  EdgePass(f, a) \in [ReaderState -> ReaderState]
<1>1. \A s \in ReaderState : EdgePass(f, a)[s] \in ReaderState
  BY EdgePassStep
<1>2. EdgePass(f, a) = [s \in ReaderState |-> EdgePass(f, a)[s]]
  BY DEF EdgePass
<1> QED
  BY <1>1, <1>2

(* What a pass of the outer loop reads first.                               *)
NodeHead(f, junk, s) == IF Left(f, s) THEN f.pairs[s.pos] ELSE junk

NodeRead(f, junk, s) ==
    [s EXCEPT !.pos = IF Left(f, s) THEN @ + 1 ELSE @,
              !.temp = NodeHead(f, junk, s)[1],
              !.g = GetNode(@, NodeHead(f, junk, s)[1])]

LEMMA NodeReadStep ==
    ASSUME NEW f \in FileType, NEW junk \in Junk, NEW s \in ReaderState
    PROVE  /\ NodeHead(f, junk, s)[1] \in Locks /\ NodeHead(f, junk, s)[2] \in Nat
           /\ NodeRead(f, junk, s) \in ReaderState
           /\ NodeRead(f, junk, s).pos = (IF Left(f, s) THEN s.pos + 1 ELSE s.pos)
           /\ NodeRead(f, junk, s).temp = NodeHead(f, junk, s)[1]
           /\ NodeRead(f, junk, s).w = s.w
           /\ NodeRead(f, junk, s).g = GetNode(s.g, NodeHead(f, junk, s)[1])
<1> DEFINE a == NodeHead(f, junk, s)[1]
           p == IF Left(f, s) THEN s.pos + 1 ELSE s.pos
           h == GetNode(s.g, a)
<1>0. s.pos \in Nat \ {0} /\ s.g \in GraphType
  BY DEF ReaderState
<1>1. a \in Locks /\ NodeHead(f, junk, s)[2] \in Nat
  <2>1. CASE Left(f, s)
    BY <2>1, PairAt DEF NodeHead
  <2>2. CASE ~ Left(f, s)
    BY <2>2 DEF NodeHead, Junk
  <2> QED
    BY <2>1, <2>2
<1>2. h \in GraphType /\ p \in Nat \ {0}
  BY <1>0, <1>1, GetNodeGraph
<1>3. NodeRead(f, junk, s) = [s EXCEPT !.pos = p, !.temp = a, !.g = h]
  BY DEF NodeRead
<1> HIDE DEF a, p, h
<1>4. NodeRead(f, junk, s) \in ReaderState
  BY <1>1, <1>2, <1>3 DEF ReaderState
<1>5. /\ NodeRead(f, junk, s).pos = p /\ NodeRead(f, junk, s).temp = a
      /\ NodeRead(f, junk, s).w = s.w /\ NodeRead(f, junk, s).g = h
  BY <1>3 DEF ReaderState
<1> QED
  BY <1>1, <1>4, <1>5 DEF a, p, h

LEMMA NodePassStep ==
    ASSUME NEW f \in FileType, NEW junk \in Junk, NEW s \in ReaderState
    PROVE  /\ NodePass(f, junk)[s] =
                 Repeat(EdgePass(f, NodeHead(f, junk, s)[1]), NodeRead(f, junk, s),
                        NodeHead(f, junk, s)[2])
           /\ NodePass(f, junk)[s] \in ReaderState
<1>1. NodePass(f, junk)[s] =
        Repeat(EdgePass(f, NodeHead(f, junk, s)[1]), NodeRead(f, junk, s),
               NodeHead(f, junk, s)[2])
  BY DEF NodePass, NodeHead, NodeRead
<1>2. /\ NodeHead(f, junk, s)[1] \in Locks /\ NodeHead(f, junk, s)[2] \in Nat
      /\ NodeRead(f, junk, s) \in ReaderState
  BY NodeReadStep
<1> QED
  BY <1>1, <1>2, EdgePassType, RepeatLoop

LEMMA NodePassType ==
    ASSUME NEW f \in FileType, NEW junk \in Junk
    PROVE  /\ NodePass(f, junk) \in [ReaderState -> ReaderState]
           /\ ReaderInit(junk) \in ReaderState
<1>1. \A s \in ReaderState : NodePass(f, junk)[s] \in ReaderState
  BY NodePassStep
<1>2. NodePass(f, junk) = [s \in ReaderState |-> NodePass(f, junk)[s]]
  BY DEF NodePass
<1>3. ReaderInit(junk) \in ReaderState
  BY EmptyGraph DEF ReaderInit, ReaderState, Junk
<1> QED
  BY <1>1, <1>2, <1>3

(* A graph that is read has no dangling edge.                               *)
LEMMA NodePassNoDangling ==
    ASSUME NEW f \in FileType, NEW junk \in Junk, NEW s \in ReaderState, NoDangling(s.g)
    PROVE  NoDangling(NodePass(f, junk)[s].g)
<1> DEFINE a == NodeHead(f, junk, s)[1]
           m == NodeHead(f, junk, s)[2]
           r == NodeRead(f, junk, s)
           T == {x \in Nat \X ReaderState : NoDangling(x[2].g)}
<1>1. /\ a \in Locks /\ m \in Nat /\ r \in ReaderState /\ r.g = GetNode(s.g, a)
      /\ NodePass(f, junk)[s] = Repeat(EdgePass(f, a), r, m)
  BY NodeReadStep, NodePassStep
<1>2. s.g \in GraphType
  BY DEF ReaderState
<1> HIDE DEF a, m, r
<1>3. <<0, r>> \in T
  BY <1>1, <1>2, GetNodeGraph
<1>4. ASSUME NEW k \in Nat, NEW x \in ReaderState, <<k, x>> \in T
      PROVE  <<k + 1, EdgePass(f, a)[x]>> \in T
  <2>1. x.g \in GraphType /\ x.temp \in Locks /\ x.w \in Nat /\ NoDangling(x.g)
    BY <1>4 DEF ReaderState
  <2>2. EdgePass(f, a)[x] \in ReaderState
    BY <1>1, EdgePassStep
  <2>3. NoDangling(EdgePass(f, a)[x].g)
    <3>1. CASE Left(f, x)
      <4> DEFINE b == f.pairs[x.pos][1]
                 n == f.pairs[x.pos][2]
      <4>1. b \in Locks /\ n \in Nat
        BY <3>1, PairAt
      <4>2. EdgePass(f, a)[x].g = AddEdge(x.g, a, b, n)
        BY <1>1, <3>1, EdgePassStep
      <4> HIDE DEF b, n
      <4>3. NoDangling(AddEdge(x.g, a, b, n))
        BY <1>1, <2>1, <4>1, AddEdgeGraph
      <4> QED
        BY <4>2, <4>3
    <3>2. CASE ~ Left(f, x)
      <4>1. EdgePass(f, a)[x].g = AddEdge(x.g, a, x.temp, x.w)
        BY <1>1, <3>2, EdgePassStep
      <4>2. NoDangling(AddEdge(x.g, a, x.temp, x.w))
        BY <1>1, <2>1, AddEdgeGraph
      <4> QED
        BY <4>1, <4>2
    <3> QED
      BY <3>1, <3>2
  <2> QED
    BY <2>2, <2>3
<1> HIDE DEF T
<1>5. EdgePass(f, a) \in [ReaderState -> ReaderState] /\ m \in 0 .. m
  BY <1>1, EdgePassType
<1>6. <<m, Repeat(EdgePass(f, a), r, m)>> \in T
  BY <1>1, <1>3, <1>4, <1>5, LoopInvariant
<1> QED
  BY <1>1, <1>6 DEF T

(* Whatever is in the file, what is read is a graph.                        *)
LEMMA ParseGraph ==
    ASSUME NEW f \in FileType, NEW junk \in Junk
    PROVE  Parse(f, junk) \in GraphType /\ NoDangling(Parse(f, junk))
<1> DEFINE body == NodePass(f, junk)
           s == ReaderInit(junk)
           T == {x \in Nat \X ReaderState : NoDangling(x[2].g)}
<1>1. CASE f.n < 0
  BY <1>1, EmptyGraph DEF Parse
<1>2. CASE ~ (f.n < 0)
  <2>1. f.n \in Nat
    <3>1. Cardinality(Locks) \in Nat
      BY LocksAssumption, FS_CardinalityType
    <3> QED
      BY <1>2, <3>1 DEF FileType
  <2>2. body \in [ReaderState -> ReaderState] /\ s \in ReaderState /\ s.g = Empty
    BY NodePassType DEF ReaderInit
  <2>3. <<0, s>> \in T
    BY <2>2, EmptyGraph
  <2>4. ASSUME NEW k \in Nat, NEW x \in ReaderState, <<k, x>> \in T
        PROVE  <<k + 1, body[x]>> \in T
    BY <2>2, <2>4, NodePassNoDangling
  <2> HIDE DEF T, s, body
  <2>5. <<f.n, Repeat(body, s, f.n)>> \in T
    <3>1. f.n \in 0 .. f.n
      BY <2>1
    <3> QED
      BY <2>1, <2>2, <2>3, <2>4, <3>1, LoopInvariant
  <2>6. Parse(f, junk) = Repeat(body, s, f.n).g
    BY <1>2 DEF Parse, body, s
  <2> QED
    BY <2>5, <2>6 DEF T, ReaderState
<1> QED
  BY <1>1, <1>2
-----------------------------------------------------------------------------
(* Files that end early.                                                    *)

(* Past the end of the file the edges of a pass lead from its node to       *)
(* itself: they are no orders.                                              *)
LEMMA SelfEdges ==
    ASSUME NEW f \in FileType, NEW a \in Locks, NEW r \in ReaderState, NEW m \in Nat,
           ~ Left(f, r), r.temp = a
    PROVE  /\ Repeat(EdgePass(f, a), r, m).pos = r.pos
           /\ Orders(Repeat(EdgePass(f, a), r, m).g) = Orders(r.g)
<1> DEFINE T == {x \in Nat \X ReaderState :
                    x[2].pos = r.pos /\ x[2].temp = a /\ Orders(x[2].g) = Orders(r.g)}
<1>1. <<0, r>> \in T
  OBVIOUS
<1>2. ASSUME NEW k \in Nat, NEW x \in ReaderState, <<k, x>> \in T
      PROVE  <<k + 1, EdgePass(f, a)[x]>> \in T
  <2>1. x.g \in GraphType /\ x.w \in Nat /\ x.pos = r.pos /\ x.temp = a
    BY <1>2 DEF ReaderState
  <2>2. ~ Left(f, x)
    BY <2>1 DEF Left
  <2>3. /\ EdgePass(f, a)[x] \in ReaderState
        /\ EdgePass(f, a)[x].pos = r.pos /\ EdgePass(f, a)[x].temp = a
        /\ EdgePass(f, a)[x].g = AddEdge(x.g, a, a, x.w)
    BY <2>1, <2>2, EdgePassStep
  <2>4. Orders(AddEdge(x.g, a, a, x.w)) = Orders(x.g)
    BY <2>1, AddEdgeOrders
  <2> QED
    BY <1>2, <2>3, <2>4
<1> HIDE DEF T
<1>3. EdgePass(f, a) \in [ReaderState -> ReaderState] /\ m \in 0 .. m
  BY EdgePassType
<1>4. <<m, Repeat(EdgePass(f, a), r, m)>> \in T
  BY <1>1, <1>2, <1>3, LoopInvariant
<1> QED
  BY <1>4 DEF T

(* A pass that finds nothing left to read, or only the line of its node,    *)
(* adds no order and leaves nothing to read.                                *)
LEMMA PassAtEnd ==
    ASSUME NEW f \in FileType, NEW junk \in Junk, NEW s \in ReaderState,
           s.pos >= Len(f.pairs)
    PROVE  /\ NodePass(f, junk)[s].pos > Len(f.pairs)
           /\ Orders(NodePass(f, junk)[s].g) = Orders(s.g)
<1> DEFINE a == NodeHead(f, junk, s)[1]
           m == NodeHead(f, junk, s)[2]
           r == NodeRead(f, junk, s)
<1>1. /\ a \in Locks /\ m \in Nat /\ r \in ReaderState /\ r.g = GetNode(s.g, a)
      /\ r.temp = a /\ r.pos = (IF Left(f, s) THEN s.pos + 1 ELSE s.pos)
      /\ NodePass(f, junk)[s] = Repeat(EdgePass(f, a), r, m)
  BY NodeReadStep, NodePassStep
<1> HIDE DEF a, m, r
<1>2. s.g \in GraphType /\ s.pos \in Nat /\ Len(f.pairs) \in Nat
  <2>1. f.pairs \in Text
    BY DEF FileType
  <2> QED
    BY <2>1, LenProperties DEF ReaderState
<1>3. r.pos > Len(f.pairs)
  BY <1>1, <1>2 DEF Left
<1>4. ~ Left(f, r)
  BY <1>1, <1>2, <1>3 DEF Left, ReaderState
<1>5. /\ NodePass(f, junk)[s].pos = r.pos
      /\ Orders(NodePass(f, junk)[s].g) = Orders(r.g)
  BY <1>1, <1>4, SelfEdges
<1> QED
  BY <1>1, <1>2, <1>3, <1>5, GetNodeGraph

(* The state of the reader after k passes of the outer loop.                *)
Reader(f, junk, k) == Repeat(NodePass(f, junk), ReaderInit(junk), k)

LEMMA ReaderPasses ==
    ASSUME NEW f \in FileType, NEW junk \in Junk
    PROVE  /\ Reader(f, junk, 0) = ReaderInit(junk)
           /\ \A k \in Nat : /\ Reader(f, junk, k) \in ReaderState
                             /\ Reader(f, junk, k + 1) = NodePass(f, junk)[Reader(f, junk, k)]
BY NodePassType, RepeatLoop DEF Reader

(* Once the reader is at the end, or at the last pair, no order is added.   *)
LEMMA RestOfFile ==
    ASSUME NEW f \in FileType, NEW junk \in Junk, NEW k \in Nat, NEW n \in Nat, k <= n,
           Reader(f, junk, k).pos >= Len(f.pairs)
    PROVE  Orders(Reader(f, junk, n).g) = Orders(Reader(f, junk, k).g)
<1> DEFINE T == {j \in Nat : /\ Reader(f, junk, k + j).pos >= Len(f.pairs)
                             /\ Orders(Reader(f, junk, k + j).g) = Orders(Reader(f, junk, k).g)}
<1>1. 0 \in T
  <2>1. k + 0 = k
    OBVIOUS
  <2> QED
    BY <2>1
<1>2. ASSUME NEW j \in Nat, j \in T PROVE j + 1 \in T
  <2> DEFINE s == Reader(f, junk, k + j)
             t == Reader(f, junk, k + (j + 1))
  <2>1. s \in ReaderState /\ t \in ReaderState /\ t = NodePass(f, junk)[s]
    <3>1. k + j \in Nat /\ k + (j + 1) = (k + j) + 1
      OBVIOUS
    <3> QED
      BY <3>1, ReaderPasses
  <2>2. s.pos >= Len(f.pairs) /\ Orders(s.g) = Orders(Reader(f, junk, k).g)
    BY <1>2
  <2> HIDE DEF s, t
  <2>3. t.pos > Len(f.pairs) /\ Orders(t.g) = Orders(s.g)
    BY <2>1, <2>2, PassAtEnd
  <2>4. t.pos \in Nat /\ Len(f.pairs) \in Nat
    BY <2>1, LenProperties DEF ReaderState, FileType, Text
  <2>5. t.pos >= Len(f.pairs)
    BY <2>3, <2>4
  <2> QED
    BY <2>2, <2>3, <2>5 DEF t
<1> HIDE DEF T
<1>3. n - k \in Nat /\ k + (n - k) = n
  OBVIOUS
<1>4. n - k \in T
  BY <1>1, <1>2, <1>3, Inductive
<1> QED
  BY <1>3, <1>4 DEF T

(* What an uninitialised variable holds makes no order.                     *)
LEMMA JunkIrrelevant ==
    ASSUME NEW f \in FileType, NEW j1 \in Junk, NEW j2 \in Junk
    PROVE  Orders(Parse(f, j1)) = Orders(Parse(f, j2))
<1> DEFINE Same(s, t) == s.pos = t.pos /\ s.w = t.w /\ s.g = t.g
           Ended(s, t) == ~ Left(f, s) /\ ~ Left(f, t) /\ Orders(s.g) = Orders(t.g)
           T == {k \in Nat : \/ Same(Reader(f, j1, k), Reader(f, j2, k))
                             \/ Ended(Reader(f, j1, k), Reader(f, j2, k))}
<1>1. 0 \in T
  <2>1. Reader(f, j1, 0) = ReaderInit(j1) /\ Reader(f, j2, 0) = ReaderInit(j2)
    BY ReaderPasses
  <2>2. Same(Reader(f, j1, 0), Reader(f, j2, 0))
    BY <2>1 DEF ReaderInit
  <2> QED
    BY <2>2
<1>2. ASSUME NEW k \in Nat, k \in T PROVE k + 1 \in T
  <2> DEFINE s == Reader(f, j1, k)
             t == Reader(f, j2, k)
             ss == Reader(f, j1, k + 1)
             tt == Reader(f, j2, k + 1)
  <2>1. /\ s \in ReaderState /\ ss = NodePass(f, j1)[s] /\ ss \in ReaderState
        /\ t \in ReaderState /\ tt = NodePass(f, j2)[t] /\ tt \in ReaderState
    BY ReaderPasses, k + 1 \in Nat
  <2>2. Same(s, t) \/ Ended(s, t)
    BY <1>2
  <2>3. k + 1 \in Nat /\ (Same(ss, tt) \/ Ended(ss, tt) => k + 1 \in T)
    OBVIOUS
  <2> HIDE DEF s, t, ss, tt, T
  <2>4. CASE Left(f, s)
    <3>1. Same(s, t) /\ Left(f, t)
      BY <2>2, <2>4 DEF Left
    <3>2. NodeHead(f, j1, s) = NodeHead(f, j2, t)
      BY <2>4, <3>1 DEF NodeHead
    <3> DEFINE r1 == NodeRead(f, j1, s)
               r2 == NodeRead(f, j2, t)
    <3>3. /\ r1 \in ReaderState /\ r2 \in ReaderState
          /\ r1.pos = r2.pos /\ r1.temp = r2.temp /\ r1.w = r2.w /\ r1.g = r2.g
      BY <2>1, <2>4, <3>1, <3>2, NodeReadStep
    <3> HIDE DEF r1, r2
    <3>4. r1 = r2
      BY <3>3 DEF ReaderState
    <3>5. ss = tt
      BY <2>1, <3>2, <3>4, NodePassStep DEF r1, r2
    <3> QED
      BY <2>3, <3>5
  <2>5. CASE ~ Left(f, s)
    <3>1. ~ Left(f, t) /\ Orders(s.g) = Orders(t.g)
      BY <2>2, <2>5 DEF Left
    <3>2. /\ s.pos \in Nat /\ t.pos \in Nat /\ ss.pos \in Nat /\ tt.pos \in Nat
          /\ Len(f.pairs) \in Nat
      BY <2>1, LenProperties DEF ReaderState, FileType, Text
    <3>3. s.pos >= Len(f.pairs) /\ t.pos >= Len(f.pairs)
      BY <2>5, <3>1, <3>2 DEF Left
    <3>4. /\ ss.pos > Len(f.pairs) /\ Orders(ss.g) = Orders(s.g)
          /\ tt.pos > Len(f.pairs) /\ Orders(tt.g) = Orders(t.g)
      BY <2>1, <3>3, PassAtEnd
    <3>5. Ended(ss, tt)
      BY <3>1, <3>2, <3>4 DEF Left
    <3> QED
      BY <2>3, <3>5
  <2> QED
    BY <2>4, <2>5
<1>3. \A k \in Nat : k \in T => Orders(Reader(f, j1, k).g) = Orders(Reader(f, j2, k).g)
  OBVIOUS
<1> HIDE DEF T
<1>4. \A k \in Nat : Orders(Reader(f, j1, k).g) = Orders(Reader(f, j2, k).g)
  BY <1>1, <1>2, <1>3, Inductive
<1>5. f.n < 0 \/ f.n \in Nat
  <2>1. Cardinality(Locks) \in Nat
    BY LocksAssumption, FS_CardinalityType
  <2> QED
    BY <2>1 DEF FileType
<1> QED
  BY <1>4, <1>5 DEF Parse, Reader
-----------------------------------------------------------------------------
(* Files that are complete.                                                 *)

(* The part of a graph that has the edges of the nodes in D.                *)
Part(gr, D) ==
    [nodes |-> D \cup {b \in Locks : \E a \in D : gr.w[<<a, b>>] > 0},
     w |-> [e \in Pairs |-> IF e[1] \in D THEN gr.w[e] ELSE 0]]

(* A part is a graph whose orders are among those of the whole; without any *)
(* node it is empty, with all of them it is the whole.                      *)
LEMMA PartGraph ==
    ASSUME NEW gr \in GraphType, NEW D \in SUBSET Locks
    PROVE  /\ Part(gr, D) \in GraphType
           /\ Part(gr, {}) = Empty
           /\ Orders(Part(gr, D)) \subseteq Orders(gr)
           /\ NoDangling(gr) => Part(gr, gr.nodes) = gr
<1>0. gr.w \in [Pairs -> 0 .. MaxWeight] /\ gr.nodes \subseteq Locks
  BY DEF GraphType
<1>1. Part(gr, D) \in GraphType
  <2> DEFINE v == [e \in Pairs |-> IF e[1] \in D THEN gr.w[e] ELSE 0]
  <2>1. v \in [Pairs -> 0 .. MaxWeight]
    BY <1>0, LocksAssumption
  <2> HIDE DEF v
  <2> QED
    BY <2>1 DEF Part, GraphType, v
<1>2. Part(gr, {}) = Empty
  BY DEF Part, Empty
<1>3. Orders(Part(gr, D)) \subseteq Orders(gr)
  BY DEF Part, Orders
<1>4. ASSUME NoDangling(gr) PROVE Part(gr, gr.nodes) = gr
  <2>1. \A a \in gr.nodes, b \in Locks : gr.w[<<a, b>>] > 0 => b \in gr.nodes
    <3> SUFFICES ASSUME NEW a \in gr.nodes, NEW b \in Locks, gr.w[<<a, b>>] > 0
                 PROVE  b \in gr.nodes
      OBVIOUS
    <3>1. <<a, b>> \in Pairs /\ <<a, b>>[2] = b
      BY <1>0 DEF Pairs
    <3> QED
      BY <1>4, <3>1 DEF NoDangling
  <2>2. \A e \in Pairs : e[1] \notin gr.nodes => gr.w[e] = 0
    <3> SUFFICES ASSUME NEW e \in Pairs, e[1] \notin gr.nodes PROVE gr.w[e] = 0
      OBVIOUS
    <3>1. ~ (gr.w[e] > 0)
      BY <1>4 DEF NoDangling
    <3> QED
      BY <1>0, <3>1, LocksAssumption
  <2>3. Part(gr, gr.nodes).nodes = gr.nodes
    BY <1>0, <2>1 DEF Part
  <2>4. Part(gr, gr.nodes).w = gr.w
    BY <1>0, <2>2 DEF Part
  <2>5. Part(gr, gr.nodes) \in GraphType
    <3> DEFINE v == [e \in Pairs |-> IF e[1] \in gr.nodes THEN gr.w[e] ELSE 0]
    <3>1. v \in [Pairs -> 0 .. MaxWeight]
      BY <1>0, LocksAssumption
    <3> HIDE DEF v
    <3> QED
      BY <1>0, <3>1 DEF Part, GraphType, v
  <2> QED
    BY <2>3, <2>4, <2>5 DEF GraphType
<1> QED
  BY <1>1, <1>2, <1>3, <1>4

(* The nodes and weights after j edges of node a, written in the order o.   *)
EdgesRead(gr, D, a, o, j, h) ==
    /\ h.nodes = Part(gr, D).nodes \cup {a} \cup {o[k] : k \in 1 .. j}
    /\ \A e \in Pairs : h.w[e] = IF e[1] \in D THEN gr.w[e]
                                 ELSE IF e[1] = a /\ \E k \in 1 .. j : o[k] = e[2]
                                      THEN gr.w[e] ELSE 0

LEMMA EdgesReadStep ==
    ASSUME NEW gr \in GraphType, NEW D \in SUBSET Locks, NEW a \in Locks \ D,
           NEW o \in Orderings(Neighbours(gr, a)),
           NEW j \in Nat, j < Cardinality(Neighbours(gr, a)),
           NEW h \in GraphType, EdgesRead(gr, D, a, o, j, h)
    PROVE  EdgesRead(gr, D, a, o, j + 1, AddEdge(h, a, o[j + 1], gr.w[<<a, o[j + 1]>>]))
<1> DEFINE N == Cardinality(Neighbours(gr, a))
           b == o[j + 1]
           k == gr.w[<<a, b>>]
           hh == AddEdge(h, a, b, k)
<1>1. N \in Nat /\ Neighbours(gr, a) \subseteq Locks
  <2>1. Neighbours(gr, a) \subseteq Locks
    BY DEF Neighbours
  <2> QED
    BY <2>1, LocksAssumption, FS_Subset, FS_CardinalityType
<1>2. /\ o \in [1 .. N -> Neighbours(gr, a)]
      /\ \A l, m \in 1 .. N : o[l] = o[m] => l = m
  BY DEF Orderings
<1>3. j + 1 \in 1 .. N /\ b \in Neighbours(gr, a) /\ b \in Locks /\ <<a, b>> \in Pairs
  BY <1>1, <1>2 DEF Pairs
<1>4. k \in Nat /\ k <= MaxWeight
  BY <1>3, LocksAssumption DEF GraphType
<1> HIDE DEF N, b, k, hh
<1>5. /\ hh.nodes = h.nodes \cup {a, b}
      /\ \A e \in Pairs : e # <<a, b>> => hh.w[e] = h.w[e]
      /\ hh.w[<<a, b>>] = IF h.w[<<a, b>>] + k > MaxWeight THEN MaxWeight ELSE h.w[<<a, b>>] + k
  BY <1>3, <1>4, AddEdgeGraph DEF hh
<1>6. \A l \in 1 .. j : o[l] # b
  BY <1>1, <1>2, <1>3 DEF b
<1>7. h.w[<<a, b>>] = 0
  BY <1>3, <1>6 DEF EdgesRead
<1>8. hh.w[<<a, b>>] = k
  BY <1>4, <1>5, <1>7, LocksAssumption
<1>9. {o[l] : l \in 1 .. (j + 1)} = {o[l] : l \in 1 .. j} \cup {b}
  <2>1. \A l : l \in 1 .. (j + 1) <=> l \in 1 .. j \/ l = j + 1
    OBVIOUS
  <2> QED
    BY <2>1 DEF b
<1>10. hh.nodes = Part(gr, D).nodes \cup {a} \cup {o[l] : l \in 1 .. (j + 1)}
  BY <1>5, <1>9 DEF EdgesRead
<1>11. ASSUME NEW e \in Pairs
       PROVE  hh.w[e] = IF e[1] \in D THEN gr.w[e]
                        ELSE IF e[1] = a /\ \E l \in 1 .. (j + 1) : o[l] = e[2]
                             THEN gr.w[e] ELSE 0
  <2>1. CASE e = <<a, b>>
    <3>1. e[1] = a /\ a \notin D /\ j + 1 \in 1 .. (j + 1) /\ o[j + 1] = e[2]
      BY <2>1 DEF b
    <3> QED
      BY <1>8, <2>1, <3>1 DEF k
  <2>2. CASE e # <<a, b>>
    <3>1. hh.w[e] = h.w[e]
      BY <1>5, <2>2
    <3>2. e = <<e[1], e[2]>>
      BY DEF Pairs
    <3>3. e[1] = a => e[2] # b
      BY <2>2, <3>2
    <3>4. e[1] = a => ((\E l \in 1 .. (j + 1) : o[l] = e[2]) <=> (\E l \in 1 .. j : o[l] = e[2]))
      BY <3>3 DEF b
    <3> QED
      BY <3>1, <3>4 DEF EdgesRead
  <2> QED
    BY <2>1, <2>2
<1> QED
  BY <1>10, <1>11 DEF EdgesRead, hh, k, b

LEMMA EdgesReadAll ==
    ASSUME NEW gr \in GraphType, NEW D \in SUBSET Locks, NEW a \in Locks \ D,
           NEW o \in Orderings(Neighbours(gr, a)), NEW h \in GraphType,
           EdgesRead(gr, D, a, o, Cardinality(Neighbours(gr, a)), h)
    PROVE  h = Part(gr, D \cup {a})
<1> DEFINE N == Cardinality(Neighbours(gr, a))
<1>1. \A x : x \in Neighbours(gr, a) <=> \E k \in 1 .. N : o[k] = x
  BY DEF Orderings
<1>2. {o[k] : k \in 1 .. N} = Neighbours(gr, a)
  BY <1>1
<1> HIDE DEF N
<1>3. h.nodes = Part(gr, D \cup {a}).nodes
  <2>1. h.nodes = Part(gr, D).nodes \cup {a} \cup Neighbours(gr, a)
    BY <1>2 DEF EdgesRead, N
  <2> QED
    BY <2>1 DEF Part, Neighbours
<1>4. ASSUME NEW e \in Pairs PROVE h.w[e] = IF e[1] \in D \cup {a} THEN gr.w[e] ELSE 0
  <2>1. e[2] \in Locks /\ e = <<e[1], e[2]>> /\ gr.w[e] \in 0 .. MaxWeight
    BY DEF Pairs, GraphType
  <2>2. CASE e[1] \in D
    BY <2>2 DEF EdgesRead
  <2>3. CASE e[1] = a /\ e[2] \in Neighbours(gr, a)
    BY <1>1, <2>3 DEF EdgesRead, N
  <2>4. CASE e[1] = a /\ e[2] \notin Neighbours(gr, a)
    <3>1. ~ (gr.w[e] > 0)
      BY <2>1, <2>4 DEF Neighbours
    <3>2. gr.w[e] = 0
      BY <2>1, <3>1, LocksAssumption
    <3> QED
      BY <1>1, <2>4, <3>2 DEF EdgesRead, N
  <2>5. CASE e[1] \notin D \cup {a}
    BY <2>5 DEF EdgesRead
  <2> QED
    BY <2>2, <2>3, <2>4, <2>5
<1>5. h.w = Part(gr, D \cup {a}).w
  BY <1>4 DEF Part, GraphType
<1>6. Part(gr, D \cup {a}) \in GraphType
  BY PartGraph
<1> QED
  BY <1>3, <1>5, <1>6 DEF GraphType

(* The lines of node a, with its edges in the order o, are at position p.   *)
NodeAt(f, p, gr, a, o) ==
    /\ p + Cardinality(Neighbours(gr, a)) <= Len(f.pairs)
    /\ f.pairs[p] = <<a, Cardinality(Neighbours(gr, a))>>
    /\ \A k \in 1 .. Cardinality(Neighbours(gr, a)) :
          f.pairs[p + k] = <<o[k], gr.w[<<a, o[k]>>]>>

(* A pass over the lines of a node reads all its edges.                     *)
LEMMA PassOverNode ==
    ASSUME NEW f \in FileType, NEW junk \in Junk, NEW s \in ReaderState,
           NEW gr \in GraphType, NEW D \in SUBSET Locks, NEW a \in Locks \ D,
           NEW o \in Orderings(Neighbours(gr, a)), NEW N \in Nat,
           N = Cardinality(Neighbours(gr, a)),
           s.g = Part(gr, D), NodeAt(f, s.pos, gr, a, o)
    PROVE  /\ NodePass(f, junk)[s].pos = s.pos + 1 + N
           /\ NodePass(f, junk)[s].g = Part(gr, D \cup {a})
<1>at. /\ s.pos + N <= Len(f.pairs)
       /\ f.pairs[s.pos] = <<a, N>>
       /\ \A k \in 1 .. N : f.pairs[s.pos + k] = <<o[k], gr.w[<<a, o[k]>>]>>
  BY DEF NodeAt
<1> DEFINE r == NodeRead(f, junk, s)
           T == {x \in Nat \X ReaderState :
                    /\ x[2].pos = s.pos + 1 + x[1]
                    /\ EdgesRead(gr, D, a, o, x[1], x[2].g)}
<1>0. s.pos \in Nat \ {0} /\ Len(f.pairs) \in Nat /\ Left(f, s)
  <2>1. s.pos \in Nat \ {0} /\ Len(f.pairs) \in Nat
    BY LenProperties DEF ReaderState, FileType, Text
  <2> QED
    BY <1>at, <2>1 DEF Left
<1>1. NodeHead(f, junk, s)[1] = a /\ NodeHead(f, junk, s)[2] = N
  BY <1>0, <1>at DEF NodeHead
<1>2. /\ r \in ReaderState /\ r.pos = s.pos + 1 /\ r.g = GetNode(s.g, a)
      /\ NodePass(f, junk)[s] = Repeat(EdgePass(f, a), r, N)
  BY <1>0, <1>1, NodeReadStep, NodePassStep
<1> HIDE DEF r
<1>3. <<0, r>> \in T
  <2>1. Part(gr, D) \in GraphType
    BY PartGraph
  <2>2. r.g.nodes = Part(gr, D).nodes \cup {a} /\ r.g.w = Part(gr, D).w
    BY <1>2, <2>1, GetNodeGraph
  <2>3. {o[k] : k \in 1 .. 0} = {} /\ ~ \E k \in 1 .. 0 : TRUE
    OBVIOUS
  <2>4. EdgesRead(gr, D, a, o, 0, r.g)
    BY <2>2, <2>3 DEF EdgesRead, Part
  <2>5. r.pos = s.pos + 1 + 0
    BY <1>0, <1>2
  <2> QED
    BY <1>2, <2>4, <2>5
<1>4. ASSUME NEW k \in Nat, NEW x \in ReaderState, k < N, <<k, x>> \in T
      PROVE  <<k + 1, EdgePass(f, a)[x]>> \in T
  <2>1. x.pos = s.pos + 1 + k /\ EdgesRead(gr, D, a, o, k, x.g) /\ x.g \in GraphType
    BY <1>4 DEF ReaderState
  <2>2. /\ k + 1 \in 1 .. N /\ x.pos = s.pos + (k + 1) /\ x.pos <= Len(f.pairs)
        /\ x.pos + 1 = s.pos + 1 + (k + 1)
    <3> DEFINE p == s.pos
               q == x.pos
               L == Len(f.pairs)
    <3>1. p \in Nat /\ L \in Nat /\ q = p + 1 + k /\ p + N <= L /\ k < N
      BY <1>0, <1>4, <1>at, <2>1
    <3> HIDE DEF p, q, L
    <3>2. k + 1 \in 1 .. N /\ q = p + (k + 1) /\ q <= L /\ q + 1 = p + 1 + (k + 1)
      BY <3>1
    <3> QED
      BY <3>2 DEF p, q, L
  <2>3. f.pairs[x.pos] = <<o[k + 1], gr.w[<<a, o[k + 1]>>]>>
    BY <1>at, <2>2
  <2>4. /\ EdgePass(f, a)[x] \in ReaderState /\ EdgePass(f, a)[x].pos = x.pos + 1
        /\ EdgePass(f, a)[x].g = AddEdge(x.g, a, o[k + 1], gr.w[<<a, o[k + 1]>>])
    BY <2>2, <2>3, EdgePassStep DEF Left
  <2>5. EdgesRead(gr, D, a, o, k + 1, AddEdge(x.g, a, o[k + 1], gr.w[<<a, o[k + 1]>>]))
    BY <1>4, <2>1, EdgesReadStep
  <2> QED
    BY <2>2, <2>4, <2>5
<1> HIDE DEF T
<1>5. EdgePass(f, a) \in [ReaderState -> ReaderState] /\ N \in 0 .. N
  BY EdgePassType
<1>6. <<N, Repeat(EdgePass(f, a), r, N)>> \in T
  BY <1>2, <1>3, <1>4, <1>5, LoopInvariant
<1>7. /\ NodePass(f, junk)[s] \in ReaderState
      /\ NodePass(f, junk)[s].pos = s.pos + 1 + N
      /\ EdgesRead(gr, D, a, o, N, NodePass(f, junk)[s].g)
  BY <1>2, <1>6 DEF T
<1>8. NodePass(f, junk)[s].g \in GraphType
  BY <1>7 DEF ReaderState
<1> QED
  BY <1>7, <1>8, EdgesReadAll

(* Lines behind lines.                                                      *)
LEMMA LinesBehind ==
    ASSUME NEW q \in Text, NEW l \in Text
    PROVE  /\ q \o l \in Text
           /\ Len(q) \in Nat /\ Len(l) \in Nat /\ Len(q \o l) = Len(q) + Len(l)
           /\ \A k \in 1 .. Len(q) : (q \o l)[k] = q[k]
           /\ \A k \in 1 .. Len(l) : (q \o l)[Len(q) + k] = l[k]
<1>1. /\ q \o l \in Text /\ Len(q \o l) = Len(q) + Len(l)
      /\ \A k \in 1 .. Len(q) + Len(l) :
            (q \o l)[k] = IF k <= Len(q) THEN q[k] ELSE l[k - Len(q)]
  BY ConcatProperties DEF Text
<1>2. Len(q) \in Nat /\ Len(l) \in Nat
  BY LenProperties DEF Text
<1> DEFINE m == Len(q)
           n == Len(l)
           r == q \o l
<1>3. \A k \in 1 .. m + n : r[k] = IF k <= m THEN q[k] ELSE l[k - m]
  BY <1>1
<1>4. m \in Nat /\ n \in Nat
  BY <1>2
<1> HIDE DEF m, n, r
<1>5. \A k \in 1 .. m : r[k] = q[k]
  BY <1>3, <1>4
<1>6. ASSUME NEW k \in 1 .. n PROVE r[m + k] = l[k]
  <2>1. m + k \in 1 .. m + n /\ ~ (m + k <= m) /\ (m + k) - m = k
    BY <1>4
  <2> QED
    BY <1>3, <2>1
<1> QED
  BY <1>1, <1>2, <1>5, <1>6 DEF m, n, r

LEMMA LinesAssociative ==
    ASSUME NEW q \in Text, NEW l \in Text, NEW x \in Text
    PROVE  (q \o l) \o x = q \o (l \o x)
<1> DEFINE ql == q \o l
           lx == l \o x
           left == ql \o x
           right == q \o lx
           i == Len(q)
           j == Len(l)
           k == Len(x)
<1>1. /\ ql \in Text /\ i \in Nat /\ j \in Nat /\ Len(ql) = i + j
      /\ \A m \in 1 .. i : ql[m] = q[m]
      /\ \A m \in 1 .. j : ql[i + m] = l[m]
  BY LinesBehind
<1>2. /\ lx \in Text /\ k \in Nat /\ Len(lx) = j + k
      /\ \A m \in 1 .. j : lx[m] = l[m]
      /\ \A m \in 1 .. k : lx[j + m] = x[m]
  BY LinesBehind
<1> HIDE DEF ql, lx
<1>3. /\ left \in Text /\ Len(left) = (i + j) + k
      /\ \A m \in 1 .. (i + j) : left[m] = ql[m]
      /\ \A m \in 1 .. k : left[(i + j) + m] = x[m]
  <2>1. /\ left \in Text /\ Len(left) = Len(ql) + Len(x)
        /\ \A m \in 1 .. Len(ql) : left[m] = ql[m]
        /\ \A m \in 1 .. Len(x) : left[Len(ql) + m] = x[m]
    BY <1>1, LinesBehind
  <2> QED
    BY <1>1, <2>1
<1>4. /\ right \in Text /\ Len(right) = i + (j + k)
      /\ \A m \in 1 .. i : right[m] = q[m]
      /\ \A m \in 1 .. (j + k) : right[i + m] = lx[m]
  <2>1. /\ right \in Text /\ Len(right) = Len(q) + Len(lx)
        /\ \A m \in 1 .. Len(q) : right[m] = q[m]
        /\ \A m \in 1 .. Len(lx) : right[Len(q) + m] = lx[m]
    BY <1>2, LinesBehind
  <2> QED
    BY <1>2, <2>1
<1> HIDE DEF left, right, i, j, k
<1>5. ASSUME NEW m \in 1 .. Len(left) PROVE left[m] = right[m]
  <2>0. m \in 1 .. (i + j) + k
    BY <1>3
  <2>1. CASE m <= i
    BY <1>1, <1>2, <1>3, <1>4, <2>0, <2>1
  <2>2. CASE i < m /\ m <= i + j
    <3> DEFINE n == m - i
    <3>1. /\ n \in 1 .. j /\ m = i + n /\ n \in 1 .. (j + k) /\ m \in 1 .. (i + j)
      BY <1>1, <1>2, <2>0, <2>2
    <3> HIDE DEF n
    <3> QED
      BY <1>1, <1>2, <1>3, <1>4, <3>1
  <2>3. CASE i + j < m
    <3> DEFINE n == m - (i + j)
    <3>1. /\ n \in 1 .. k /\ m = (i + j) + n /\ j + n \in 1 .. (j + k) /\ m = i + (j + n)
      BY <1>1, <1>2, <2>0, <2>3
    <3> HIDE DEF n
    <3> QED
      BY <1>2, <1>3, <1>4, <3>1
  <2> QED
    BY <1>1, <2>0, <2>1, <2>2, <2>3
<1>6. Len(left) = Len(right)
  BY <1>1, <1>2, <1>3, <1>4
<1>7. left = right
  BY <1>3, <1>4, <1>5, <1>6, SeqEqual DEF Text
<1> QED
  BY <1>7 DEF left, right, ql, lx

(* The file with more lines.                                                *)
Longer(f, ext) == [f EXCEPT !.pairs = @ \o ext]

LEMMA LongerFile ==
    ASSUME NEW f \in FileType, NEW l \in Text
    PROVE  /\ Longer(f, l) \in FileType
           /\ Longer(f, l).n = f.n
           /\ Longer(f, l).pairs = f.pairs \o l
           /\ Longer(f, <<>>) = f
           /\ \A ext \in Text :
                /\ l \o ext \in Text
                /\ Longer(Longer(f, l), ext) = Longer(f, l \o ext)
<1>1. f.pairs \in Text /\ f.n \in -1 .. Cardinality(Locks)
  BY DEF FileType
<1>2. f.pairs \o l \in Text /\ f.pairs \o <<>> = f.pairs
  BY <1>1, LinesBehind, ConcatEmptySeq DEF Text
<1>3. \A ext : Longer(f, ext).n = f.n /\ Longer(f, ext).pairs = f.pairs \o ext
  BY DEF Longer, FileType
<1>4. Longer(f, l) \in FileType /\ Longer(f, <<>>) = f
  BY <1>1, <1>2 DEF Longer, FileType
<1>5. ASSUME NEW ext \in Text
      PROVE  /\ l \o ext \in Text
             /\ Longer(Longer(f, l), ext) = Longer(f, l \o ext)
  <2>1. l \o ext \in Text
    BY LinesBehind
  <2>2. (f.pairs \o l) \o ext = f.pairs \o (l \o ext)
    BY <1>1, LinesAssociative
  <2>3. Longer(Longer(f, l), ext) = [Longer(f, l) EXCEPT !.pairs = (f.pairs \o l) \o ext]
    BY <1>3 DEF Longer
  <2>4. Longer(f, l \o ext) = [f EXCEPT !.pairs = f.pairs \o (l \o ext)]
    BY DEF Longer
  <2>5. \A z : [Longer(f, l) EXCEPT !.pairs = z] = [f EXCEPT !.pairs = z]
    BY DEF Longer, FileType
  <2> QED
    BY <2>1, <2>2, <2>3, <2>4, <2>5
<1> QED
  BY <1>3, <1>4, <1>5

(* Whatever is written behind f, the reader finds the edges of the nodes in *)
(* D first, with one pass for each, and is then at position p.              *)
ReadsAs(f, gr, D, p) ==
    \A ext \in Text, junk \in Junk :
        /\ Reader(Longer(f, ext), junk, Cardinality(D)).pos = p
        /\ Reader(Longer(f, ext), junk, Cardinality(D)).g = Part(gr, D)

(* A save begins with the header, behind which nothing was read yet.        *)
LEMMA ReadsHeader ==
    ASSUME NEW gr \in GraphType, NEW f \in FileType
    PROVE  ReadsAs(f, gr, {}, 1)
<1> SUFFICES ASSUME NEW ext \in Text, NEW junk \in Junk
             PROVE  /\ Reader(Longer(f, ext), junk, Cardinality({})).pos = 1
                    /\ Reader(Longer(f, ext), junk, Cardinality({})).g = Part(gr, {})
  BY DEF ReadsAs
<1>1. Cardinality({}) = 0
  BY FS_EmptySet
<1>2. Longer(f, ext) \in FileType
  BY LongerFile
<1>3. Reader(Longer(f, ext), junk, 0) = ReaderInit(junk)
  BY <1>2, ReaderPasses
<1>4. Part(gr, {}) = Empty
  BY PartGraph
<1> QED
  BY <1>1, <1>3, <1>4 DEF ReaderInit

(* What is written behind the lines of some nodes does not change how they  *)
(* are read.                                                                *)
LEMMA ReadsLonger ==
    ASSUME NEW f \in FileType, NEW l \in Text, NEW gr, NEW D, NEW p,
           ReadsAs(f, gr, D, p)
    PROVE  ReadsAs(Longer(f, l), gr, D, p)
<1> SUFFICES ASSUME NEW ext \in Text, NEW junk \in Junk
             PROVE  /\ Reader(Longer(Longer(f, l), ext), junk, Cardinality(D)).pos = p
                    /\ Reader(Longer(Longer(f, l), ext), junk, Cardinality(D)).g = Part(gr, D)
  BY DEF ReadsAs
<1>1. l \o ext \in Text /\ Longer(Longer(f, l), ext) = Longer(f, l \o ext)
  BY LongerFile
<1> QED
  BY <1>1 DEF ReadsAs

(* The lines of a node.                                                     *)
LEMMA LineTypes ==
    ASSUME NEW gr \in GraphType, NEW a \in Locks
    PROVE  /\ IsFiniteSet(Neighbours(gr, a)) /\ Cardinality(Neighbours(gr, a)) \in Nat
           /\ NodeLine(gr, a) \in Text
           /\ Len(NodeLine(gr, a)) = 1
           /\ NodeLine(gr, a)[1] = <<a, Cardinality(Neighbours(gr, a))>>
           /\ \A l \in EdgesLines(gr, a) :
                 /\ l \in Text
                 /\ Len(l) = Cardinality(Neighbours(gr, a))
                 /\ \E o \in Orderings(Neighbours(gr, a)) :
                       \A k \in 1 .. Cardinality(Neighbours(gr, a)) :
                           l[k] = <<o[k], gr.w[<<a, o[k]>>]>>
<1> DEFINE N == Cardinality(Neighbours(gr, a))
<1>1. Neighbours(gr, a) \subseteq Locks
  BY DEF Neighbours
<1>2. IsFiniteSet(Neighbours(gr, a)) /\ N \in Nat
  BY <1>1, LocksAssumption, FS_Subset, FS_CardinalityType
<1> HIDE DEF N
<1>3. ASSUME NEW l \in EdgesLines(gr, a)
      PROVE  /\ l \in Text
             /\ Len(l) = N
             /\ \E o \in Orderings(Neighbours(gr, a)) :
                   \A k \in 1 .. N : l[k] = <<o[k], gr.w[<<a, o[k]>>]>>
  <2>1. PICK o \in Orderings(Neighbours(gr, a)) :
            l = [k \in DOMAIN o |-> <<o[k], gr.w[<<a, o[k]>>]>>]
    BY DEF EdgesLines
  <2>2. o \in [1 .. N -> Neighbours(gr, a)]
    BY DEF Orderings, N
  <2>3. l = [k \in 1 .. N |-> <<o[k], gr.w[<<a, o[k]>>]>>]
    BY <2>1, <2>2
  <2>4. \A k \in 1 .. N : l[k] = <<o[k], gr.w[<<a, o[k]>>]>>
    BY <2>3
  <2>5. \A k \in 1 .. N : l[k] \in Locks \X Nat
    <3> SUFFICES ASSUME NEW k \in 1 .. N PROVE l[k] \in Locks \X Nat
      OBVIOUS
    <3>1. o[k] \in Locks /\ <<a, o[k]>> \in Pairs
      BY <1>1, <2>2 DEF Pairs
    <3>2. gr.w[<<a, o[k]>>] \in Nat
      BY <3>1, LocksAssumption DEF GraphType
    <3> QED
      BY <2>4, <3>1, <3>2
  <2>6. l \in [1 .. N -> Locks \X Nat]
    BY <2>3, <2>5
  <2>7. l \in Text /\ Len(l) = N
    BY <1>2, <2>6 DEF Text
  <2> QED
    BY <2>4, <2>7
<1>4. /\ NodeLine(gr, a) \in Text
      /\ Len(NodeLine(gr, a)) = 1
      /\ NodeLine(gr, a)[1] = <<a, N>>
  BY <1>2 DEF NodeLine, N, Text
<1> QED
  BY <1>2, <1>3, <1>4 DEF N

(* The lines of one node more are read in one pass more.                    *)
LEMMA ReadsNode ==
    ASSUME NEW f \in FileType, NEW gr \in GraphType, NEW D \in SUBSET Locks,
           NEW a \in Locks \ D, NEW q \in Nat \ {0},
           q = Len(f.pairs),
           f.pairs[q] = <<a, Cardinality(Neighbours(gr, a))>>,
           ReadsAs(f, gr, D, q),
           NEW l \in EdgesLines(gr, a)
    PROVE  /\ Longer(f, l) \in FileType
           /\ ReadsAs(Longer(f, l), gr, D \cup {a}, Len(Longer(f, l).pairs) + 1)
<1> DEFINE N == Cardinality(Neighbours(gr, a))
<1>1. /\ N \in Nat /\ l \in Text /\ Len(l) = N
  BY LineTypes
<1>2. PICK o \in Orderings(Neighbours(gr, a)) :
        \A k \in 1 .. N : l[k] = <<o[k], gr.w[<<a, o[k]>>]>>
  BY LineTypes
<1>3. f.pairs[q] = <<a, N>> /\ N = Cardinality(Neighbours(gr, a))
  OBVIOUS
<1> HIDE DEF N
<1>4. /\ Longer(f, l) \in FileType /\ Longer(f, l).pairs = f.pairs \o l
      /\ f.pairs \in Text
  BY <1>1, LongerFile DEF FileType
<1>5. Len(Longer(f, l).pairs) = q + N
  <2>1. Len(f.pairs \o l) = Len(f.pairs) + Len(l)
    BY <1>1, <1>4, LinesBehind
  <2> QED
    BY <1>1, <1>4, <2>1
<1>6. Cardinality(D) \in Nat /\ Cardinality(D \cup {a}) = Cardinality(D) + 1
  <2>1. IsFiniteSet(D) /\ Cardinality(D) \in Nat
    BY LocksAssumption, FS_Subset, FS_CardinalityType
  <2> QED
    BY <2>1, FS_AddElement
<1>7. ASSUME NEW ext \in Text, NEW junk \in Junk
      PROVE  /\ Reader(Longer(Longer(f, l), ext), junk, Cardinality(D \cup {a})).pos = q + 1 + N
             /\ Reader(Longer(Longer(f, l), ext), junk, Cardinality(D \cup {a})).g =
                   Part(gr, D \cup {a})
  <2> DEFINE c == Cardinality(D)
             ff == Longer(f, l \o ext)
             s == Reader(ff, junk, c)
  <2>1. l \o ext \in Text /\ Longer(Longer(f, l), ext) = ff
    BY <1>1, LongerFile
  <2>2. ff \in FileType /\ ff.pairs = f.pairs \o (l \o ext)
    BY <2>1, LongerFile
  <2>3. s.pos = q /\ s.g = Part(gr, D)
    BY <2>1 DEF ReadsAs
  <2>4. s \in ReaderState /\ Reader(ff, junk, c + 1) = NodePass(ff, junk)[s]
    BY <1>6, <2>2, ReaderPasses
  <2> HIDE DEF c, ff, s
  <2>5. Len(l \o ext) = N + Len(ext) /\ Len(ext) \in Nat
    BY <1>1, LinesBehind
  <2>6. /\ Len(ff.pairs) = q + (N + Len(ext))
        /\ \A k \in 1 .. q : ff.pairs[k] = f.pairs[k]
        /\ \A k \in 1 .. (N + Len(ext)) : ff.pairs[q + k] = (l \o ext)[k]
    <3> DEFINE r == l \o ext
    <3>1. r \in Text /\ Len(r) = N + Len(ext) /\ ff.pairs = f.pairs \o r
      BY <2>1, <2>2, <2>5
    <3> HIDE DEF r
    <3>2. /\ Len(f.pairs \o r) = Len(f.pairs) + Len(r)
          /\ \A k \in 1 .. Len(f.pairs) : (f.pairs \o r)[k] = f.pairs[k]
          /\ \A k \in 1 .. Len(r) : (f.pairs \o r)[Len(f.pairs) + k] = r[k]
      BY <1>4, <3>1, LinesBehind
    <3> QED
      BY <3>1, <3>2 DEF r
  <2>7. q + N <= Len(ff.pairs) /\ q \in 1 .. q
    BY <1>1, <2>5, <2>6
  <2>8. ff.pairs[q] = <<a, N>>
    BY <1>3, <2>6, <2>7
  <2>9. ASSUME NEW k \in 1 .. N PROVE ff.pairs[q + k] = <<o[k], gr.w[<<a, o[k]>>]>>
    <3>1. (l \o ext)[k] = l[k]
      BY <1>1, LinesBehind
    <3>2. k \in 1 .. (N + Len(ext))
      BY <1>1, <2>5
    <3> QED
      BY <1>2, <2>6, <3>1, <3>2
  <2>10. NodeAt(ff, s.pos, gr, a, o)
    BY <1>3, <2>3, <2>7, <2>8, <2>9 DEF NodeAt
  <2>11. /\ NodePass(ff, junk)[s].pos = s.pos + 1 + N
         /\ NodePass(ff, junk)[s].g = Part(gr, D \cup {a})
    BY <1>1, <1>3, <2>2, <2>3, <2>4, <2>10, PassOverNode
  <2> QED
    BY <1>6, <2>1, <2>3, <2>4, <2>11 DEF c
<1>8. q + 1 + N = (q + N) + 1
  BY <1>1
<1> QED
  BY <1>4, <1>5, <1>7, <1>8 DEF ReadsAs
-----------------------------------------------------------------------------
(* A file that was written as a whole is read as the graph.                 *)
LEMMA ReadsWhole ==
    ASSUME NEW f \in FileType, NEW gr \in GraphType, NoDangling(gr), NEW p,
           f.n = Cardinality(gr.nodes), ReadsAs(f, gr, gr.nodes, p), NEW junk \in Junk
    PROVE  Parse(f, junk) = gr
<1>1. <<>> \in Text /\ Longer(f, <<>>) = f
  BY EmptySeq, LongerFile DEF Text
<1>2. Reader(f, junk, Cardinality(gr.nodes)).g = Part(gr, gr.nodes)
  BY <1>1 DEF ReadsAs
<1>3. gr.nodes \in SUBSET Locks
  BY DEF GraphType
<1>4. Part(gr, gr.nodes) = gr
  BY <1>3, PartGraph
<1>5. ~ (f.n < 0)
  <2>1. Cardinality(gr.nodes) \in Nat
    BY <1>3, LocksAssumption, FS_Subset, FS_CardinalityType
  <2> QED
    BY <2>1
<1> QED
  BY <1>2, <1>4, <1>5 DEF Parse, Reader

(* A file that ends early, perhaps behind the first line of a node, is read *)
(* as a graph without an order that the saved one does not have.            *)
LEMMA ReadsTorn ==
    ASSUME NEW f \in FileType, NEW gr \in GraphType, NEW D \in SUBSET gr.nodes, NEW p \in Nat,
           f.n = Cardinality(gr.nodes), ReadsAs(f, gr, D, p), p >= Len(f.pairs),
           NEW junk \in Junk
    PROVE  Orders(Parse(f, junk)) \subseteq Orders(gr)
<1>1. <<>> \in Text /\ Longer(f, <<>>) = f
  BY EmptySeq, LongerFile DEF Text
<1>2. Reader(f, junk, Cardinality(D)).g = Part(gr, D) /\ Reader(f, junk, Cardinality(D)).pos = p
  BY <1>1 DEF ReadsAs
<1>3. gr.nodes \in SUBSET Locks /\ D \in SUBSET Locks
  BY DEF GraphType
<1>4. /\ Cardinality(gr.nodes) \in Nat /\ Cardinality(D) \in Nat
      /\ Cardinality(D) <= Cardinality(gr.nodes)
  <2>1. IsFiniteSet(gr.nodes) /\ IsFiniteSet(D)
    BY <1>3, LocksAssumption, FS_Subset
  <2> QED
    BY <2>1, FS_Subset, FS_CardinalityType
<1>5. Orders(Reader(f, junk, Cardinality(gr.nodes)).g) = Orders(Reader(f, junk, Cardinality(D)).g)
  BY <1>2, <1>4, RestOfFile
<1>6. Orders(Part(gr, D)) \subseteq Orders(gr)
  BY <1>3, PartGraph
<1>7. Parse(f, junk) = Reader(f, junk, Cardinality(gr.nodes)).g
  BY <1>4 DEF Parse, Reader
<1> QED
  BY <1>2, <1>5, <1>6, <1>7
=============================================================================
