------------------------------ MODULE GraphFile ------------------------------
(***************************************************************************)
(* The text form of the lock-order graph: the stream operators of class    *)
(* LockGraph.  After a header with the number of nodes the file is a       *)
(* sequence of pairs of an address and a number: a node with its number of *)
(* edges, followed by that many neighbours with the edge's weight.         *)
(* Numbers without a header (n = -1) are a file that is missing or empty.  *)
(***************************************************************************)
EXTENDS Integers, Sequences, FiniteSets, Loops

CONSTANTS Locks,      \* mutex addresses; std::map keeps them in their order
          MaxWeight   \* bound: weights are not counted beyond it

ASSUME LocksAssumption ==
    /\ Locks \subseteq Nat \ {0} /\ IsFiniteSet(Locks)
    /\ MaxWeight \in Nat \ {0}

Pairs == Locks \X Locks
GraphType == [nodes : SUBSET Locks, w : [Pairs -> 0 .. MaxWeight]]
Empty == [nodes |-> {}, w |-> [e \in Pairs |-> 0]]
NoFile == [n |-> -1, pairs |-> <<>>]

(* LockGraph::getNode adds the node it does not find.                       *)
GetNode(gr, a) == [gr EXCEPT !.nodes = @ \cup {a}]

AddEdgeOneNode(gr, a, b, k) ==
    [nodes |-> gr.nodes \cup {a},
     w |-> [gr.w EXCEPT ![<<a, b>>] = IF @ + k > MaxWeight THEN MaxWeight ELSE @ + k]]

(* LockGraph::addEdge, with getNode for both ends.                          *)
AddEdge(gr, a, b, k) ==
    [nodes |-> gr.nodes \cup {a, b},
     w |-> [gr.w EXCEPT ![<<a, b>>] = IF @ + k > MaxWeight THEN MaxWeight ELSE @ + k]]

Neighbours(gr, a) == {b \in Locks : gr.w[<<a, b>>] > 0}

(* The ways to put a set in a row: an AdjacencyList is ordered by the heap  *)
(* addresses of its nodes.                                                  *)
Orderings(S) ==
    {o \in [1 .. Cardinality(S) -> S] :
        /\ \A x \in S : \E k \in DOMAIN o : o[k] = x
        /\ \A j, k \in DOMAIN o : o[j] = o[k] => j = k}

(* The three kinds of line.  endl flushes, so what a killed process leaves  *)
(* is a number of whole lines, as long as a line fits the stream's buffer.  *)
HeaderLine(gr) == [n |-> Cardinality(gr.nodes), pairs |-> <<>>]
NodeLineIn(gr, a) == <<<<a, Cardinality({b \in Locks : gr.w[<<b, a>>] > 0})>>>>
NodeLine(gr, a) == <<<<a, Cardinality(Neighbours(gr, a))>>>>
EdgesLinesOwn(gr, a) ==
    {[k \in DOMAIN o |-> <<a, gr.w[<<a, o[k]>>]>>] : o \in Orderings(Neighbours(gr, a))}
EdgesLines(gr, a) ==
    {[k \in DOMAIN o |-> <<o[k], gr.w[<<a, o[k]>>]>>] : o \in Orderings(Neighbours(gr, a))}

(* operator>>.  A state of the reader holds the position, the variables     *)
(* temp and w, and the graph.  A read past the end fails and leaves its     *)
(* variable as it was; temp and m of a new pass have no value then, junk is *)
(* what is there.  The edges such a pass adds lead from a node to itself,   *)
(* and their weights, which no property reads, are not those of the code.   *)
ReaderState == [pos : Nat \ {0}, temp : Locks, w : Nat, g : GraphType]

Left(f, s) == s.pos <= Len(f.pairs)

(* The inner loop: an edge of node a.                                       *)
EdgePass(f, a) ==
    [s \in ReaderState |->
        LET r == IF Left(f, s)
                 THEN [s EXCEPT !.pos = @ + 1, !.temp = f.pairs[s.pos][1], !.w = f.pairs[s.pos][2]]
                 ELSE s
        IN  [r EXCEPT !.g = AddEdge(@, a, r.temp, r.w)]]

(* The outer loop: a node, the number of its edges, and the edges.          *)
NodePass(f, junk) ==
    [s \in ReaderState |->
        LET head == IF Left(f, s) THEN f.pairs[s.pos] ELSE junk
            r == [s EXCEPT !.pos = IF Left(f, s) THEN @ + 1 ELSE @,
                           !.temp = head[1],
                           !.g = GetNode(@, head[1])]
        IN  Repeat(EdgePass(f, head[1]), r, head[2])]

Junk == Locks \X (0 .. 1)

ReaderInit(junk) == [pos |-> 1, temp |-> junk[1], w |-> 1, g |-> Empty]

Parse(f, junk) ==
    IF f.n < 0 THEN Empty ELSE Repeat(NodePass(f, junk), ReaderInit(junk), f.n).g

(* What the graph is used for: orders between two different mutexes.        *)
Orders(gr) == {e \in Pairs : e[1] # e[2] /\ gr.w[e] > 0}
=============================================================================
