----------------------------- MODULE StratorPaths -----------------------------
(***************************************************************************)
(* What Strator should find, defined by the paths of the analysed program  *)
(* and without caches, stacks or workers, and the properties that compare. *)
(***************************************************************************)
EXTENDS Strator

Stmts(m) == DOMAIN m.code

(* What can be reached from S; next gives the successors of a node.        *)
Reached(next, S) ==
  Least([R \in SUBSET DOMAIN next |-> R \cup UNION {next[x] : x \in R}],
        S, Cardinality(DOMAIN next))

(* The statements of each function.  Tables are computed once.             *)
Successors(m) == [s \in Stmts(m) |-> {m.code[s].succ[i] : i \in DOMAIN m.code[s].succ}]
FlowOf == [m \in Modules |-> [f \in DOMAIN m.first |->
             Reached(Successors(m), {m.first[f]} \ {NoValue})]]

(* A statement belongs to one function.                                    *)
ASSUME FlowAssumption ==
  \A m \in Modules : \A f, g \in DOMAIN m.first :
    f # g => FlowOf[m][f] \cap FlowOf[m][g] = {}

Returns(m, f) == \E s \in FlowOf[m][f] : m.code[s].op = "ret"

(* The functions that f calls, directly or not, and f itself.              *)
CallOps == {"call", "create"}
Calls(m) == [f \in DOMAIN m.first |->
               {m.code[s].fn : s \in {t \in FlowOf[m][f] : m.code[t].op \in CallOps}}]
CalleesOf == [m \in Modules |-> [f \in DOMAIN m.first |-> Reached(Calls(m), {f})]]

(* A point <<f, L0, s, L>>: in a call of f with the mutexes L0, statement  *)
(* s is reached with the mutexes L.                                        *)
LockSets(m) == SUBSET m.values
AllPoints(m) == (DOMAIN m.first) \X LockSets(m) \X Stmts(m) \X LockSets(m)

Entry(m, f, L) == IF m.first[f] = NoValue THEN {} ELSE {<<f, L, m.first[f], L>>}

Exits(m, R, f, L) ==
  {p[4] : p \in {q \in R : q[1] = f /\ q[2] = L /\ m.code[q[3]].op = "ret"}}

(* What a mutex goes by: two that have the same are one mutex, here as in  *)
(* the code.                                                               *)
MutexOf(m, v) == IF m.base[v] = NoValue THEN v ELSE m.base[v]

(* The mutexes after the statement of p.  A call that does not come back,  *)
(* or that may be recursive, is passed over.                               *)
LocksAfter(m, R, p) ==
  LET c == m.code[p[3]]
  IN CASE c.op = "lock"   -> {p[4] \cup {MutexOf(m, c.val)}}
       [] c.op = "unlock" -> {p[4] \ {MutexOf(m, c.val)}}
       [] c.op = "call"   -> Exits(m, R, c.fn, p[4])
                               \cup (IF Returns(m, c.fn) /\ p[1] \notin CalleesOf[m][c.fn]
                                     THEN {} ELSE {p[4]})
       [] OTHER           -> {p[4]}

(* The points one step after p.  A new thread holds nothing.               *)
After(m, R, p) ==
  LET c == m.code[p[3]]
  IN {<<p[1], p[2], s, L>> : s \in Successors(m)[p[3]], L \in LocksAfter(m, R, p)}
       \cup (IF c.op = "call" THEN Entry(m, c.fn, p[4]) ELSE {})
       \cup (IF c.op = "create" THEN Entry(m, c.fn, {}) ELSE {})

Roots(m, md) == IF md = "directed" THEN {m.root} ELSE {m.tasks[i] : i \in DOMAIN m.tasks}

PointsOf == [m \in Modules |-> [md \in Modes |->
  Least([R \in SUBSET AllPoints(m) |-> R \cup UNION {After(m, R, p) : p \in R}],
        UNION {Entry(m, f, {}) : f \in Roots(m, md)}, Cardinality(AllPoints(m)))]]
Points == PointsOf[mod][mode]

(* No function that is reached calls itself, directly or not.              *)
NonRecursive ==
  \A r \in Roots(mod, mode) : \A f \in CalleesOf[mod][r] : \A g \in Calls(mod)[f] :
    f \notin CalleesOf[mod][g]

(* A value that getDefOperand may lead away from: a parameter, the result  *)
(* of a cast or a constant cast.                                           *)
Traced(m) ==
  {m.formal[f] : f \in DOMAIN m.first}
    \cup {m.code[s].val : s \in {t \in Stmts(m) : m.code[t].op = "bitcast"}}
    \cup {v \in m.values : m.cast[v] # NoValue}

(* Where traversing pthread_create like a call and tracing what a mutex    *)
(* is computed from make no difference: threads are created without a      *)
(* mutex held, and return without one; a mutex in a struct that is passed  *)
(* to the function, or reached by a cast, is not locked or unlocked.       *)
Regular ==
  /\ \A p \in Points : Code(p[3]).op = "create" =>
       p[4] = {} /\ Exits(mod, Points, Code(p[3]).fn, {}) \subseteq {{}}
  /\ \A s \in Stmts(mod) : Code(s).op \in {"lock", "unlock"} =>
       mod.base[Code(s).val] \notin Traced(mod) \ {NoValue}

(* Functions that make a pthread call, and what they call.                 *)
Multithreaded ==
  UNION {CalleesOf[mod][p[1]] : p \in {q \in Points : Code(q[3]).op \in MultiThreadedAPI}}

(* What parentValue may have for a value: for a parameter, one of its      *)
(* arguments; for the result of a cast, what was cast.                     *)
Arguments(m) == [v \in m.values |->
  {m.code[s].arg : s \in {t \in Stmts(m) :
     \/ m.code[t].op \in CallOps /\ m.formal[m.code[t].fn] = v
     \/ m.code[t].op = "bitcast" /\ m.code[t].val = v}}]

(* The values an operand may stand for.                                    *)
StandsFor(m) == [v \in m.values |-> Arguments(m)[v] \cup ({m.cast[v]} \ {NoValue})]
DenotesOf == [m \in Modules |-> [v \in m.values |-> Reached(StandsFor(m), {v})]]

MayTouchSame(s, t) ==
  \E a \in DenotesOf[mod][Code(s).val], b \in DenotesOf[mod][Code(t).val] :
    a = b \/ {a, b} \in mod.alias
-----------------------------------------------------------------------------
(* The types of a worker's record.                                         *)
ItemType == [at : Stmts(mod), locks : LockSets(mod)]
FrameType == [fn : Functions, entry : LockSets(mod), exits : SUBSET LockSets(mod),
              todo : Seq(ItemType)]
SummaryType == [fn : Functions, entry : LockSets(mod), exits : SUBSET LockSets(mod)]
AccessType == [val : mod.values, store : BOOLEAN, inst : Stmts(mod),
               entry : LockSets(mod), locks : LockSets(mod)]
WorkerOK(ws) ==
  /\ ws \in [stack : Seq(FrameType),
             stmtCache : SUBSET (Stmts(mod) \X LockSets(mod) \X LockSets(mod)),
             fnCache : SUBSET SummaryType, mt : SUBSET Functions,
             parent : {ws.parent}, accesses : SUBSET AccessType]
  /\ DOMAIN ws.parent \subseteq mod.values
  /\ ws.parent \in [DOMAIN ws.parent -> mod.values]

TypeOK ==
  /\ mod \in Modules /\ mode \in Modes
  /\ live \subseteq Workers
  /\ functionCount \in -PoolSize..Len(mod.tasks)
  /\ reported \in BOOLEAN
  /\ mtCalls \subseteq Functions \X LockSets(mod)
  /\ races \subseteq SUBSET Stmts(mod)
  /\ wk = [w \in Workers |-> wk[w]] /\ \A w \in Workers : WorkerOK(wk[w])

(* The function cache never holds a wrong summary: whatever tasks a worker *)
(* has behind it, and although a statement seen before returns the empty   *)
(* set, the exit lock sets of an entry are those of the function's paths.  *)
(* Recursion, which traverseFunction ignores, is excluded.                 *)
SummariesExact ==
  Regular /\ NonRecursive =>
    \A w \in Workers : \A e \in wk[w].fnCache :
      e.exits = Exits(mod, Points, e.fn, e.entry)

(* When the report is written every entry point has been taken by some     *)
(* worker, and every statement has been visited with every lock set that   *)
(* some path brings to it: neither the two caches nor the split into tasks *)
(* hides a part of the program.                                            *)
PathsCovered ==
  reported /\ Regular /\ NonRecursive =>
    \A p \in Points : \E w \in Workers : <<p[3], p[2], p[4]>> \in wk[w].stmtCache

(* No false lock set: a reported pair of instructions can be reached with  *)
(* disjoint lock sets, in functions that run beside other threads; one of  *)
(* them stores, and both may touch the same value.                         *)
RacesReal ==
  Regular => \A r \in races : \E p, q \in Points :
    /\ r = {p[3], q[3]}
    /\ "store" \in {Code(p[3]).op, Code(q[3]).op}
    /\ p[4] \cap q[4] = {}
    /\ {p[1], q[1]} \subseteq Multithreaded
    /\ MayTouchSame(p[3], q[3])

(* parentValue: while a function is traversed its parameter is bound to    *)
(* the argument of the call that is being traversed, and afterwards to     *)
(* nothing, so that no access is filed under the value of another call.    *)
ParametersBound ==
  NonRecursive =>
    \A w \in Workers :
      LET ws == wk[w]
          callOf(i) == Code(Head(ws.stack[i + 1].todo).at)
      IN /\ \A f \in Functions \ OnStack(ws) : mod.formal[f] \notin DOMAIN ws.parent
         /\ \A i \in 1..(Len(ws.stack) - 1) :
              LET formal == mod.formal[ws.stack[i].fn]
              IN formal # NoValue =>
                   formal \in DOMAIN ws.parent /\ ws.parent[formal] = callOf(i).arg

(* The pool ends and the report is written, for modules with loops and     *)
(* with recursion too: the caches and the onStack mark cut every cycle.    *)
Terminates == <>reported

(* "Report all global accesses in allegedly multithreaded contexts that    *)
(* occur without a common lock held" (reportRaces): what a function does   *)
(* when it is called in a multithreaded context has been recorded.         *)
MultithreadedCallsRecorded ==
  reported =>
    \A c \in mtCalls : \A p \in Points :
      (p[1] = c[1] /\ p[2] = c[2] /\ Code(p[3]).op \in {"load", "store"}) =>
        \E w \in Workers : \E a \in wk[w].accesses : a.inst = p[3] /\ a.locks = p[4]
=============================================================================
