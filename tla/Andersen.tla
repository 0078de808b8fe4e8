------------------------------ MODULE Andersen ------------------------------
(***************************************************************************)
(* The constraint solver of the alias analysis the static tools ask        *)
(* (lib/AliasAnalysis/Andersens.cpp): the offline hybrid cycle detection   *)
(* HCD, the constraint graph, and SolveConstraints with its two work       *)
(* lists, time stamps, lazy cycle detection and union-find of nodes.       *)
(*                                                                         *)
(* The input is the constraint vector that RewriteConstraints leaves.      *)
(* The solver is one thread; a step is one pass of a loop of               *)
(* SolveConstraints.  FULL_UNIVERSAL is 0, as the source defines it.       *)
(***************************************************************************)
EXTENDS Integers, FiniteSetsExt, SequencesExt

CONSTANT Programs     \* the inputs: number of nodes, constraints, functions

VARIABLES prog,          \* the input of this run
          g,             \* GraphNodes with SDT and the time-stamp Counter
          currWL, nextWL, \* the two work lists: sets of <<node, time stamp>>
          tarjanWL,      \* TarjanWL
          edgesChecked,  \* EdgesChecked
          phase          \* "cycles", "nodes", "done" or "aborted"

vars == <<prog, g, currWL, nextWL, tarjanWL, edgesChecked, phase>>

(* The fixed nodes; only these have numbers below NumberSpecialNodes.       *)
UniversalSet == 0
NullPtr == 1
NullObject == 2
Special == {UniversalSet, NullPtr, NullObject}

CallReturnPos == 1
CallFirstArgPos == 2

Nodes == 0 .. prog.nodes - 1

(* The elements of a SparseBitVector, in the order of its iterator.         *)
RECURSIVE Ascending(_)
Ascending(S) == IF S = {} THEN <<>> ELSE <<Min(S)>> \o Ascending(S \ {Min(S)})

----------------------------------------------------------------------------
(* Union-find.  rep[n] < 0 is the rank of a representative.  Path           *)
(* compression changes no answer of FindNode and is left out.               *)

RECURSIVE FindNode(_, _)
FindNode(gr, n) == IF gr.rep[n] < 0 THEN n ELSE FindNode(gr, gr.rep[n])

IsRep(gr, n) == gr.rep[n] < 0

(* Node b goes into node a; its own sets are deleted.                       *)
MergeKeepsOld(gr, a, b) ==
    [gr EXCEPT !.rep[b] = a,
               !.pts = [@ EXCEPT ![a] = IF a \in Special THEN @ ELSE @ \cup gr.pts[b],
                                 ![b] = {}],
               !.edges = [@ EXCEPT ![a] = @ \cup gr.edges[b], ![b] = {}],
               !.constraints = [@ EXCEPT ![a] = gr.constraints[b] \o @, ![b] = <<>>]]

Merge(gr, a, b) ==
    [gr EXCEPT !.rep[b] = a,
               !.pts = [@ EXCEPT ![a] = IF a \in Special THEN @ ELSE @ \cup gr.pts[b],
                                 ![b] = {}],
               !.old = [@ EXCEPT ![a] = {}, ![b] = {}],
               !.edges = [@ EXCEPT ![a] = @ \cup gr.edges[b], ![b] = {}],
               !.constraints = [@ EXCEPT ![a] = gr.constraints[b] \o @, ![b] = <<>>]]

(* UniteNodes.  gr.out is the node it returns.  nested records that the     *)
(* call it makes for the two SDT entries joined two different nodes, failed *)
(* that the assertion on representatives does not hold.                     *)
RECURSIVE UniteNodes(_, _, _)
UniteNodes(gr, first, second) ==
    IF ~ IsRep(gr, first) \/ ~ IsRep(gr, second)
    THEN [gr EXCEPT !.failed = TRUE, !.out = FindNode(gr, first)]
    ELSE IF first = second THEN [gr EXCEPT !.out = first]
    ELSE LET a == IF gr.rep[first] > gr.rep[second] THEN second ELSE first
             b == IF a = first THEN second ELSE first
             ranked == IF gr.rep[a] = gr.rep[b] THEN [gr EXCEPT !.rep[a] = @ - 1] ELSE gr
             m == Merge(ranked, a, b)
         IN  IF gr.sdt[b] < 0 THEN [m EXCEPT !.out = a]
             ELSE IF gr.sdt[a] < 0 THEN [m EXCEPT !.sdt[a] = gr.sdt[b], !.out = a]
             ELSE LET x == FindNode(m, gr.sdt[a])
                      y == FindNode(m, gr.sdt[b])
                      u == UniteNodes(m, x, y)
                  IN  [u EXCEPT !.out = FindNode(u, a), !.nested = @ \/ x # y]

----------------------------------------------------------------------------
(* HCD: the offline graph has a node for every n and a reference node       *)
(* n + FirstRefNode for *n.  Edges run from a destination to its source.    *)

OfflineEdges(p) ==
    LET cs == Range(p.constraints)
        ref(n) == n + p.nodes
    IN  [n \in 0 .. 2 * p.nodes - 1 |->
            {c.src : c \in {d \in cs : d.type = "Copy" /\ d.dest = n}}
            \cup {ref(c.src) : c \in {d \in cs : d.type = "Load" /\ d.off = 0 /\ d.dest = n}}
            \cup {c.src : c \in {d \in cs : d.type = "Store" /\ d.off = 0 /\ ref(d.dest) = n}}]

(* The elements on top of a stack (its head) with DFS number at least low.  *)
TopOf(stack, dfs, low) ==
    LET stop == {i \in 1 .. Len(stack) : dfs[stack[i]] < low}
    IN  SubSeq(stack, 1, IF stop = {} THEN Len(stack) ELSE Min(stop) - 1)

(* The node an offline component stands for; SparseBitVector::find_first.   *)
FindLast(scc) == Max(scc)
FindFirst(scc) == Min(scc)

(* Search: a node whose component has no other member is not marked         *)
(* Deleted, so that later searches still compare DFS numbers with it.       *)
RECURSIVE Search(_, _, _, _)
Search(E, ref, h, n) ==
    LET my == h.num
        Visit(s, e) ==
            LET j == s.rep[e]
                r == IF j \in s.visited THEN s ELSE Search(E, ref, s, j)
            IN  IF j \in s.deleted THEN s ELSE [r EXCEPT !.dfs[n] = Min({@, r.dfs[j]})]
        s == FoldLeft(Visit, [h EXCEPT !.num = my + 1, !.visited = @ \cup {n}, !.dfs[n] = my],
                      Ascending(E[n]))
        top == TopOf(s.stack, s.dfs, my)
        scc == Range(top) \cup {n}
    IN  IF s.dfs[n] # my THEN [s EXCEPT !.stack = <<n>> \o @]
        ELSE IF top = <<>> THEN s
        ELSE [s EXCEPT !.deleted = @ \cup {n},
                       !.stack = SubSeq(@, Len(top) + 1, Len(@)),
                       !.rep = [m \in DOMAIN @ |-> IF m \in Range(top) THEN n ELSE @[m]],
                       !.sdt = [m \in DOMAIN @ |-> IF m + ref \in scc THEN FindFirst(scc) ELSE @[m]]]

(* SDT after HCD: for a node n whose reference node lies in a component,    *)
(* the component's smallest node, otherwise -1.                             *)
HCD(p) ==
    LET all == 0 .. 2 * p.nodes - 1
        E == OfflineEdges(p)
        Root(h, i) == IF h.rep[i] \in h.deleted THEN h ELSE Search(E, p.nodes, h, h.rep[i])
    IN  FoldLeft(Root, [num |-> 0, visited |-> {}, deleted |-> {}, stack |-> <<>>,
                        dfs |-> [n \in all |-> 0], rep |-> [n \in all |-> n],
                        sdt |-> [n \in 0 .. p.nodes - 1 |-> -1]],
                 Ascending(all)).sdt

(* CreateConstraintGraph.                                                   *)
ConstraintGraph(p) ==
    LET ns == 0 .. p.nodes - 1
        Owner(c) == IF c.type = "Load" THEN c.src ELSE c.dest
        cs == Range(p.constraints)
    IN  [rep |-> [n \in ns |-> -1], sdt |-> HCD(p), ts |-> [n \in ns |-> 0], counter |-> 0,
         pts |-> [n \in ns |-> {c.src : c \in {d \in cs : d.type = "AddressOf" /\ d.dest = n}}],
         old |-> [n \in ns |-> {}],
         edges |-> [n \in ns |-> {c.dest : c \in {d \in cs : d.type = "Copy" /\ d.src = n}}],
         constraints |-> [n \in ns |-> SelectSeq(p.constraints, LAMBDA c :
                                    c.type \in {"Load", "Store"} /\ Owner(c) = n)],
         nested |-> FALSE, failed |-> FALSE, out |-> 0]

Stamp(gr, n) == [gr EXCEPT !.ts[n] = gr.counter, !.counter = @ + 1]

(* A node waits in a work list with the time stamp it had when inserted.    *)
InsertOnce(wl, gr, n) == IF \E x \in wl : x[1] = n THEN wl ELSE wl \cup {<<n, gr.ts[n]>>}
Insert(wl, gr, n) == wl \cup {<<n, gr.ts[n]>>}

----------------------------------------------------------------------------
(* Lazy cycle detection: QueryNode over the graph as it is now.  q holds    *)
(* the graph, NextWL and the state of Tarjan's algorithm; dfs 0 is a node   *)
(* that was not reached.  l adds the locals ToErase and NewEdges.           *)

RECURSIVE PopAll(_, _, _, _)
PopAll(q, n, our, merged) ==
    IF q.stack # <<>>
    THEN LET u == UniteNodes(q.g, n, Head(q.stack))
         IN  PopAll([q EXCEPT !.g = u, !.stack = Tail(@)], u.out, our, TRUE)
    ELSE [q EXCEPT !.deleted = @ \cup {n},
                   !.next = IF merged THEN Insert(@, q.g, n) ELSE @]

RECURSIVE PopComponent(_, _, _, _)
PopComponent(q, n, our, merged) ==
    IF q.stack # <<>> /\ q.dfs[Head(q.stack)] >= our
    THEN LET u == UniteNodes(q.g, n, Head(q.stack))
         IN  PopComponent([q EXCEPT !.g = u, !.stack = Tail(@)], u.out, our, TRUE)
    ELSE [q EXCEPT !.deleted = @ \cup {n},
                   !.next = IF merged THEN Insert(@, q.g, n) ELSE @]

RECURSIVE QueryNode(_, _)
QueryNode(q, n) ==
    LET our == q.num + 1
        Visit(l, e) ==
            LET r0 == FindNode(l.q.g, e)
                open == r0 \notin l.q.deleted
                q1 == IF open /\ l.q.dfs[r0] = 0 THEN QueryNode(l.q, r0) ELSE l.q
                r == IF open /\ l.q.dfs[r0] = 0 THEN FindNode(q1.g, r0) ELSE r0
                q2 == IF open THEN [q1 EXCEPT !.dfs[n] = Min({@, q1.dfs[r]})] ELSE q1
            IN  IF r0 # e /\ r0 \in l.new THEN [l EXCEPT !.erase = @ \cup {e}]
                ELSE IF r # e THEN [q |-> q2, erase |-> l.erase \cup {e}, new |-> l.new \cup {r}]
                ELSE [l EXCEPT !.q = q2]
        l == FoldLeft(Visit, [q |-> [q EXCEPT !.num = our, !.dfs[n] = our],
                              erase |-> {}, new |-> {}],
                      Ascending(q.g.edges[n]))
        s == [l.q EXCEPT !.g.edges[n] = (@ \ l.erase) \cup l.new,
                         !.g.failed = @ \/ ~ IsRep(l.q.g, n)]
    IN  IF s.dfs[n] = our THEN PopComponent(s, n, our, FALSE)
        ELSE [s EXCEPT !.stack = <<n>> \o @]

(* A failed assertion ends the process.                                     *)
After(gr, p) == IF gr.failed THEN "aborted" ELSE p

(* All candidates of the last iteration, in one go.                         *)
Asked(q, n) == n \notin q.deleted /\ IsRep(q.g, n) /\ q.dfs[n] = 0

Queried ==
    FoldLeft(LAMBDA q, n : IF Asked(q, n) THEN QueryNode(q, n) ELSE q,
             [g |-> g, next |-> nextWL, num |-> 0, deleted |-> {},
              dfs |-> [n \in Nodes |-> 0], stack |-> <<>>], tarjanWL)

DetectCycles ==
    /\ phase = "cycles"
    /\ \E q \in {Queried} :
        /\ g' = q.g
        /\ nextWL' = q.next
        /\ phase' = After(q.g, "nodes")
    /\ tarjanWL' = <<>>
    /\ UNCHANGED <<prog, currWL, edgesChecked>>

----------------------------------------------------------------------------
(* One node of the work list.                                               *)

(* Where offset k of object m leads: no node, or one.  Offsets are those of *)
(* indirect calls, the result at CallReturnPos and argument i at            *)
(* CallFirstArgPos + i, and the nodes of a function lie next to each other. *)
MaxK(f) == 1 + (IF f.returns THEN 1 ELSE 0) + (IF f.vararg THEN 1 ELSE 0)
             + Cardinality({i \in DOMAIN f.pointer : f.pointer[i]})

Member(m, k) ==
    IF k = 0 THEN {m}
    ELSE IF m \notin DOMAIN prog.functions THEN {}
    ELSE LET f == prog.functions[m]
             skipped == {i \in 1 .. k - CallFirstArgPos : ~ f.pointer[i]}
             kk == IF k < CallFirstArgPos THEN k
                   ELSE k - (IF f.returns THEN 0 ELSE 1) - Cardinality(skipped)
         IN  IF kk > MaxK(f) THEN {} ELSE {f.node + kk}

(* A new edge s -> d carries all of s at once; no edge leads to a special   *)
(* node.  w is the graph, NextWL and what the loops below accumulate.       *)
AddEdge(w, s, d) ==
    IF d \in Special \/ d \in w.g.edges[s] THEN w
    ELSE LET gr == [w.g EXCEPT !.edges[s] = @ \cup {d}, !.pts[d] = @ \cup w.g.pts[s]]
         IN  [w EXCEPT !.g = gr,
                       !.next = IF gr.pts[d] # w.g.pts[d] THEN Insert(@, gr, d) ELSE @]

(* What a member of a points-to set stands for now.                         *)
Itself(gr, m) == m
StandsFor(gr, m) == FindNode(gr, m)

(* The pairs HCD found: unite the new members of n with SDT[n].  rsv are    *)
(* the special members and the representative.                              *)
UnitePointees(w, n, new) ==
    LET U(a, m) == LET x == StandsFor(a.g, m)
                       u == UniteNodes(a.g, a.rep, x)
                   IN  IF x \in Special THEN [a EXCEPT !.rsv = Append(@, x)]
                       ELSE [a EXCEPT !.g = u, !.rep = u.out]
        a == FoldLeft(U, [g |-> w.g, rep |-> FindNode(w.g, w.g.sdt[n]), rsv |-> <<>>],
                      Ascending(new))
    IN  [w EXCEPT !.g = a.g, !.next = Insert(@, a.g, a.rep), !.rsv = Append(a.rsv, a.rep)]

(* The load and store constraints of n, in list order, duplicates deleted.  *)
(* With a pair of HCD a store without offset is done for good and erased.   *)
Erases(scc, c) == scc /\ c.off = 0 /\ c.type = "Store"

ProcessConstraints(w, n, new, scc) ==
    LET One(a, c0) ==
            LET c == [c0 EXCEPT !.src = FindNode(a.g, @), !.dest = FindNode(a.g, @)]
                Edge(b, m) == IF c.type = "Load" THEN AddEdge(b, m, c.dest)
                                                 ELSE AddEdge(b, c.src, m)
                members == IF scc /\ c.off = 0 THEN a.rsv
                           ELSE FlattenSeq([i \in 1 .. Cardinality(new) |->
                                    SetToSeq({FindNode(a.g, m) : m \in
                                                Member(Ascending(new)[i], c.off)})])
                done == FoldLeft(Edge, a, members)
            IN  IF c \in a.seen THEN a
                ELSE [done EXCEPT !.seen = @ \cup {c},
                                  !.keep = IF Erases(scc, c) THEN @ ELSE Append(@, c)]
        a == FoldLeft(One, w, w.g.constraints[n])
    IN  [a EXCEPT !.g.constraints[n] = a.keep]

(* The new members go along every edge of n.  Edges to united nodes are     *)
(* rewritten, and an edge between equal sets is a candidate for a cycle.    *)
Propagate(w, n, new) ==
    LET Along(a, e) ==
            LET r == FindNode(a.g, e)
                gr == IF r \in Special THEN a.g ELSE [a.g EXCEPT !.pts[r] = @ \cup new]
                lazy == <<n, r>> \notin a.checked /\ a.g.pts[r] = a.g.pts[n]
            IN  IF r = n \/ (r # e /\ r \in a.new) THEN [a EXCEPT !.erase = @ \cup {e}]
                ELSE [a EXCEPT !.g = gr,
                               !.checked = IF lazy THEN @ \cup {<<n, r>>} ELSE @,
                               !.tarjan = IF lazy THEN Append(@, r) ELSE @,
                               !.next = IF gr # a.g THEN Insert(@, gr, r) ELSE @,
                               !.erase = IF r # e THEN @ \cup {e} ELSE @,
                               !.new = IF r # e THEN @ \cup {r} ELSE @]
        a == FoldLeft(Along, w, Ascending(w.g.edges[n]))
    IN  [a EXCEPT !.g.edges[n] = (@ \ a.erase) \cup a.new]

(* A node is taken from the list: stamped, and its members become old.      *)
TakeForgets(gr, n) == Stamp(gr, n)
Take(gr, n) == [Stamp(gr, n) EXCEPT !.old[n] = gr.pts[n]]

(* The whole step of a node, up to the next pop.                            *)
Processed(n) ==
    LET new == g.pts[n] \ g.old[n]
        w0 == [g |-> Take(g, n), next |-> nextWL,
               rsv |-> <<>>, seen |-> {}, keep |-> <<>>,
               tarjan |-> tarjanWL, checked |-> edgesChecked, erase |-> {}, new |-> {}]
        scc == g.sdt[n] >= 0
        w1 == IF scc THEN UnitePointees(w0, n, new) ELSE w0
    IN  IF new = {} THEN w0
        ELSE IF ~ IsRep(w1.g, n) THEN w1
        ELSE Propagate(ProcessConstraints(w1, n, new, scc), n, new)

(* WorkList::pop skips nodes that were united and stamps that are not the   *)
(* node's last, and takes a smallest stamp; equal stamps are in any order.  *)
Current(gr, wl) == {x \in wl : IsRep(gr, x[1]) /\ gr.ts[x[1]] = x[2]}

ProcessNode ==
    /\ phase = "nodes"
    /\ \E x \in Current(g, currWL) :
        /\ \A y \in Current(g, currWL) : x[2] <= y[2]
        /\ \E w \in {Processed(x[1])} :
            /\ g' = w.g
            /\ nextWL' = w.next
            /\ tarjanWL' = w.tarjan
            /\ edgesChecked' = w.checked
            /\ phase' = After(w.g, "nodes")
        /\ currWL' = {y \in currWL \ {x} : y[2] >= x[2]}
    /\ UNCHANGED prog

(* The list is used up: switch to the other one.                            *)
SwitchLists ==
    /\ phase = "nodes"
    /\ Current(g, currWL) = {}
    /\ currWL' = nextWL
    /\ nextWL' = {}
    /\ phase' = IF nextWL = {} THEN "done" ELSE "cycles"
    /\ UNCHANGED <<prog, g, tarjanWL, edgesChecked>>

(* The first work list: every node that can contribute now.                 *)
Contributes(gr, n) == gr.pts[n] # {} /\ (gr.edges[n] # {} \/ gr.constraints[n] # <<>>)

Init ==
    /\ prog \in Programs
    /\ \E gr \in {ConstraintGraph(prog)} :
           g = FoldLeft(Stamp, gr, SelectSeq(Ascending(Nodes), LAMBDA n : Contributes(gr, n)))
    /\ currWL = {<<n, g.ts[n]>> : n \in {m \in Nodes : Contributes(g, m)}}
    /\ nextWL = {}
    /\ tarjanWL = <<>>
    /\ edgesChecked = {}
    /\ phase = IF currWL = {} THEN "done" ELSE "cycles"

Finished == phase \in {"done", "aborted"} /\ UNCHANGED vars

Next == DetectCycles \/ ProcessNode \/ SwitchLists \/ Finished

Spec == Init /\ [][Next]_vars
=============================================================================
