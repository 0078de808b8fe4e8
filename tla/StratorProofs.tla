---------------------------- MODULE StratorProofs ----------------------------
(***************************************************************************)
(* Proofs about Strator, for every set of well-formed modules and every    *)
(* size of the pool: the types, that parameters are bound to the arguments *)
(* of the call under way, that a reported race lies on paths of the        *)
(* program, and that the two caches neither lose a path nor add one.       *)
(***************************************************************************)
EXTENDS StratorPaths, LoopProofs, SequenceTheorems

(* A stack of frames st, a statement cache sc and a function cache fc are  *)
(* looked at apart from the rest of a worker.  The calls of the frames     *)
(* from number o on are pending: o is 2 between steps, and 1 when the top  *)
(* frame too has visited its first statement but not yet gone on.          *)

Flow(f)    == FlowOf[mod][f]
ItemsOf(F) == {F.todo[j] : j \in 1..Len(F.todo)}
KeyOf(F)   == <<Head(F.todo).at, F.entry, Head(F.todo).locks>>
PointOf(F) == <<F.fn, F.entry, Head(F.todo).at, Head(F.todo).locks>>
Keys       == Stmts(mod) \X LockSets(mod) \X LockSets(mod)

CoreTypes(st, sc, fc) ==
  /\ st \in Seq(FrameType) /\ sc \in SUBSET Keys /\ fc \in SUBSET SummaryType

(* The functions of the frames are reached from a root, each by the one    *)
(* below it, and each once; the call that led to a frame is still the      *)
(* first statement of the frame below.                                     *)
StackInv(st, sc, o) ==
  /\ \A i \in 1..Len(st) :
       /\ mod.first[st[i].fn] # NoValue
       /\ \A x \in ItemsOf(st[i]) : x.at \in Flow(st[i].fn)
       /\ \E r \in Roots(mod, mode) : st[i].fn \in CalleesOf[mod][r]
       /\ \A j \in 1..i : st[j].fn \in CalleesOf[mod][st[i].fn]
       /\ \A j \in 1..Len(st) : st[i].fn = st[j].fn => i = j
  /\ \A i \in o..Len(st) : st[i].todo # <<>> /\ KeyOf(st[i]) \in sc
  /\ \A i \in 2..Len(st) :
       LET call == Head(st[i].todo)
       IN /\ Code(call.at).op \in CallOps /\ Code(call.at).fn = st[i - 1].fn
          /\ call.locks = st[i - 1].entry

Active(st, f, L)     == \E i \in 1..Len(st) : st[i].fn = f /\ st[i].entry = L
Summarised(fc, f, L) == \E e \in fc : e.fn = f /\ e.entry = L
Begun(st, fc, f, L)  == Active(st, f, L) \/ Summarised(fc, f, L)

(* A function is traversed once with a lock set, and statements are cached *)
(* by such traversals only.                                                *)
CacheInv(st, sc, fc) ==
  /\ \A k \in sc : \E f \in Functions : k[1] \in Flow(f) /\ Begun(st, fc, f, k[2])
  /\ \A i \in 1..Len(st) : ~Summarised(fc, st[i].fn, st[i].entry)
  /\ \A d, e \in fc : d.fn = e.fn /\ d.entry = e.entry => d = e

(* Statement s has been, or is to be, visited with the mutexes L.          *)
Seen(st, sc, f, L0, s, L) ==
  \/ <<s, L0, L>> \in sc
  \/ \E i \in 1..Len(st) : /\ st[i].fn = f /\ st[i].entry = L0
                           /\ [at |-> s, locks |-> L] \in ItemsOf(st[i])

Pending(st, o, k) == \E i \in o..Len(st) : k = KeyOf(st[i])

(* The mutexes after a statement that is no call, and after a call.        *)
Straight(s, L) ==
  CASE Code(s).op = "lock"   -> L \cup {MutexOf(mod, Code(s).val)}
    [] Code(s).op = "unlock" -> L \ {MutexOf(mod, Code(s).val)}
    [] OTHER                 -> L
Going(exits, L) == IF exits = {} THEN {L} ELSE exits

(* A visit that ended has left nothing out behind the statement.           *)
Settled(st, sc, fc, f, k) ==
  LET next == Successors(mod)[k[1]]
      c    == Code(k[1])
  IN /\ \A s \in next : \E L \in LockSets(mod) : Seen(st, sc, f, k[2], s, L)
     /\ c.op \notin CallOps =>
          \A s \in next : Seen(st, sc, f, k[2], s, Straight(k[1], k[3]))
     /\ c.op \in CallOps =>
          IF mod.first[c.fn] = NoValue
          THEN \A s \in next : Seen(st, sc, f, k[2], s, k[3])
          ELSE NonRecursive =>
                 \E e \in fc : /\ e.fn = c.fn /\ e.entry = k[3]
                               /\ \A s \in next : \A L \in Going(e.exits, k[3]) :
                                    Seen(st, sc, f, k[2], s, L)

(* The lock sets of the returns that were visited are kept.                *)
RetKept(st, fc, f, k) ==
  Code(k[1]).op = "ret" =>
    /\ \A i \in 1..Len(st) : st[i].fn = f /\ st[i].entry = k[2] => k[3] \in st[i].exits
    /\ \A e \in fc : e.fn = f /\ e.entry = k[2] => k[3] \in e.exits

SearchInv(st, sc, fc, o) ==
  /\ \A f \in Functions, L \in LockSets(mod) :
       Begun(st, fc, f, L) => Seen(st, sc, f, L, mod.first[f], L)
  /\ \A k \in sc : \A f \in Functions :
       k[1] \in Flow(f) /\ ~Pending(st, o, k) =>
         Settled(st, sc, fc, f, k) /\ RetKept(st, fc, f, k)

(* What is visited lies on a path, and so do the exits.                    *)
SoundInv(st, fc) ==
  /\ \A i \in 1..Len(st) :
       /\ \A x \in ItemsOf(st[i]) : <<st[i].fn, st[i].entry, x.at, x.locks>> \in Points
       /\ st[i].exits \subseteq Exits(mod, Points, st[i].fn, st[i].entry)
  /\ \A e \in fc :
       /\ e.exits \subseteq Exits(mod, Points, e.fn, e.entry)
       /\ e.exits = {} => ~Returns(mod, e.fn)

(* A summary has all exits.                                                *)
ExactInv(fc) ==
  \A e \in fc : Exits(mod, Points, e.fn, e.entry) \subseteq e.exits

Core(st, sc, fc, o) ==
  /\ CoreTypes(st, sc, fc)
  /\ StackInv(st, sc, o)
  /\ Regular => CacheInv(st, sc, fc) /\ SearchInv(st, sc, fc, o) /\ SoundInv(st, fc)
  /\ Regular /\ NonRecursive => ExactInv(fc)

(* The rest of a worker: bindings come from calls and casts; flags and     *)
(* accesses are those of multithreaded functions.                          *)
ParentInv(parent) == \A v \in DOMAIN parent : parent[v] \in Arguments(mod)[v]

AccessReal(a) ==
  /\ Code(a.inst).op = (IF a.store THEN "store" ELSE "load")
  /\ a.val \in DenotesOf[mod][Code(a.inst).val]
  /\ \E p \in Points : p[3] = a.inst /\ p[4] = a.locks /\ p[1] \in Multithreaded

RecordInv(ws) ==
  /\ ParentInv(ws.parent)
  /\ Regular => ws.mt \subseteq Multithreaded /\ \A a \in ws.accesses : AccessReal(a)

WorkerAt(ws, o) ==
  WorkerOK(ws) /\ Core(ws.stack, ws.stmtCache, ws.fnCache, o) /\ RecordInv(ws)

(* ParametersBound, for one worker; the parameter of the bottom frame,     *)
(* which nobody called, is not bound.                                      *)
BoundInv(st, parent) ==
  /\ \A f \in Functions : (\A i \in 1..(Len(st) - 1) : st[i].fn # f) =>
       mod.formal[f] \notin DOMAIN parent
  /\ \A i \in 1..(Len(st) - 1) :
       mod.formal[st[i].fn] # NoValue =>
         /\ mod.formal[st[i].fn] \in DOMAIN parent
         /\ parent[mod.formal[st[i].fn]] = Code(Head(st[i + 1].todo).at).arg

WorkerInv(ws) ==
  WorkerAt(ws, 2) /\ (NonRecursive => BoundInv(ws.stack, ws.parent))

(* The pool: a worker whose thread has ended has no frames, and every task *)
(* that was taken has been begun by some worker.                           *)
TasksBegun ==
  \A i \in 1..Len(mod.tasks) : i > functionCount =>
    \/ mod.first[mod.tasks[i]] = NoValue
    \/ \E w \in Workers : Begun(wk[w].stack, wk[w].fnCache, mod.tasks[i], {})

PoolInv ==
  IF mode = "directed"
  THEN /\ live = {1} /\ functionCount = Len(mod.tasks)
       /\ \A w \in Workers \ {1} : wk[w].stack = <<>>
       /\ Begun(wk[1].stack, wk[1].fnCache, mod.root, {})
       /\ reported => wk[1].stack = <<>>
  ELSE /\ IF functionCount >= 0 THEN live = 1..PoolSize
                                ELSE Cardinality(live) = PoolSize + functionCount
       /\ \A w \in Workers \ live : wk[w].stack = <<>>
       /\ reported => live = {}
       /\ TasksBegun

StratorInv ==
  /\ TypeOK
  /\ \A w \in Workers : WorkerInv(wk[w])
  /\ PoolInv
  /\ RacesReal
-----------------------------------------------------------------------------
(* The reference: tables of reachable things are closed, and least.        *)

LEMMA ReachedFacts ==
  ASSUME NEW U, IsFiniteSet(U), NEW next \in [U -> SUBSET U], NEW S \in SUBSET U
  PROVE  /\ Reached(next, S) \in SUBSET U /\ S \subseteq Reached(next, S)
         /\ \A x \in Reached(next, S) : next[x] \subseteq Reached(next, S)
<1> DEFINE step == [R \in SUBSET U |-> R \cup UNION {next[x] : x \in R}]
<1>1. step \in [SUBSET U -> SUBSET U]
  OBVIOUS
<1>2. \A R \in SUBSET U : R \subseteq step[R]
  OBVIOUS
<1>3. Reached(next, S) = Least(step, S, Cardinality(U))
  BY DEF Reached
<1>4. \A R \in SUBSET U : step[R] = R => \A x \in R : next[x] \subseteq R
  OBVIOUS
<1> DEFINE R == Reached(next, S)
<1> HIDE DEF step
<1>5. R \in SUBSET U /\ S \subseteq R /\ step[R] = R
  <2>1. /\ Least(step, S, Cardinality(U)) \in SUBSET U
        /\ S \subseteq Least(step, S, Cardinality(U))
        /\ step[Least(step, S, Cardinality(U))] = Least(step, S, Cardinality(U))
    BY <1>1, <1>2, LeastIsClosed
  <2> QED
    BY <2>1, <1>3
<1> HIDE DEF R
<1>6. \A x \in R : next[x] \subseteq R
  BY <1>4, <1>5, Zenon
<1> QED
  BY <1>5, <1>6 DEF R

LEMMA ReachedLeast ==
  ASSUME NEW U, IsFiniteSet(U), NEW next \in [U -> SUBSET U], NEW S \in SUBSET U,
         NEW Q, S \subseteq Q, \A x \in U : x \in Q => next[x] \subseteq Q
  PROVE  Reached(next, S) \subseteq Q
<1> DEFINE step == [R \in SUBSET U |-> R \cup UNION {next[x] : x \in R}]
<1>1. step \in [SUBSET U -> SUBSET U]
  OBVIOUS
<1>2. \A R \in SUBSET U : R \subseteq step[R]
  OBVIOUS
<1>3. Reached(next, S) = Least(step, S, Cardinality(U))
  BY DEF Reached
<1>4. \A R \in SUBSET U : R \subseteq Q => step[R] \subseteq Q
  OBVIOUS
<1> HIDE DEF step
<1> QED
  <2>1. Least(step, S, Cardinality(U)) \subseteq Q
    BY <1>1, <1>2, <1>4, LeastIsLeast
  <2> QED
    BY <2>1, <1>3

(* A module, as the verifier leaves it.                                    *)
LEMMA ModuleFacts ==
  ASSUME NEW m \in Modules
  PROVE  /\ IsFiniteSet(Stmts(m)) /\ IsFiniteSet(DOMAIN m.first) /\ IsFiniteSet(m.values)
         /\ Successors(m) \in [Stmts(m) -> SUBSET Stmts(m)]
         /\ \A s \in Stmts(m) : m.code[s].succ \in Seq(Stmts(m))
         /\ \A f \in DOMAIN m.first : m.first[f] \in Stmts(m) \cup {NoValue}
         /\ NoValue \notin Stmts(m) /\ NoValue \notin m.values
<1>1. WellFormed(m)
  BY ModulesAssumption
<1>2. \A s \in Stmts(m) : m.code[s].succ \in Seq(Stmts(m))
  BY <1>1 DEF WellFormed, Stmts
<1>3. Successors(m) \in [Stmts(m) -> SUBSET Stmts(m)]
  BY <1>2 DEF Successors
<1> QED
  BY <1>1, <1>2, <1>3 DEF WellFormed, Stmts

LEMMA FlowFacts ==
  ASSUME NEW m \in Modules, NEW f \in DOMAIN m.first
  PROVE  /\ FlowOf[m][f] \subseteq Stmts(m)
         /\ m.first[f] # NoValue => m.first[f] \in FlowOf[m][f]
         /\ \A s \in FlowOf[m][f] : Successors(m)[s] \subseteq FlowOf[m][f]
<1> DEFINE base == {m.first[f]} \ {NoValue}
<1>1. base \in SUBSET Stmts(m)
  BY ModuleFacts
<1>2. FlowOf[m][f] = Reached(Successors(m), base)
  BY DEF FlowOf
<1>3. m.first[f] # NoValue => m.first[f] \in base
  OBVIOUS
<1> HIDE DEF base
<1> QED
  BY <1>1, <1>2, <1>3, ModuleFacts, ReachedFacts

LEMMA FlowLeast ==
  ASSUME NEW m \in Modules, NEW f \in DOMAIN m.first, NEW Q,
         m.first[f] # NoValue => m.first[f] \in Q,
         \A s \in Stmts(m) : s \in Q => Successors(m)[s] \subseteq Q
  PROVE  FlowOf[m][f] \subseteq Q
<1> DEFINE base == {m.first[f]} \ {NoValue}
<1>1. base \in SUBSET Stmts(m)
  BY ModuleFacts
<1>2. FlowOf[m][f] = Reached(Successors(m), base)
  BY DEF FlowOf
<1>3. base \subseteq Q
  OBVIOUS
<1> HIDE DEF base
<1> QED
  BY <1>1, <1>2, <1>3, ModuleFacts, ReachedLeast

(* A call leads to a function.                                             *)
LEMMA CallFacts ==
  ASSUME NEW m \in Modules
  PROVE  /\ \A s \in Stmts(m) : m.code[s].op \in CallOps => m.code[s].fn \in DOMAIN m.first
         /\ Calls(m) \in [DOMAIN m.first -> SUBSET (DOMAIN m.first)]
         /\ \A f \in DOMAIN m.first : \A s \in FlowOf[m][f] :
              m.code[s].op \in CallOps => m.code[s].fn \in Calls(m)[f]
<1>1. \A s \in Stmts(m) : m.code[s].op \in CallOps => m.code[s].fn \in DOMAIN m.first
  BY ModulesAssumption DEF WellFormed, Stmts, CallOps
<1>2. \A f \in DOMAIN m.first : FlowOf[m][f] \subseteq Stmts(m)
  BY FlowFacts
<1> QED
  BY <1>1, <1>2 DEF Calls

LEMMA CalleesFacts ==
  ASSUME NEW m \in Modules, NEW f \in DOMAIN m.first
  PROVE  /\ CalleesOf[m][f] \subseteq DOMAIN m.first /\ f \in CalleesOf[m][f]
         /\ \A g \in CalleesOf[m][f] : Calls(m)[g] \subseteq CalleesOf[m][f]
<1>1. CalleesOf[m][f] = Reached(Calls(m), {f})
  BY DEF CalleesOf
<1> DEFINE U == DOMAIN m.first
<1>2. {f} \in SUBSET U /\ f \in {f}
  OBVIOUS
<1>3. IsFiniteSet(U) /\ Calls(m) \in [U -> SUBSET U]
  BY CallFacts, ModuleFacts
<1> HIDE DEF U
<1>4. /\ Reached(Calls(m), {f}) \in SUBSET U /\ {f} \subseteq Reached(Calls(m), {f})
      /\ \A x \in Reached(Calls(m), {f}) : Calls(m)[x] \subseteq Reached(Calls(m), {f})
  BY <1>2, <1>3, ReachedFacts, Zenon
<1> QED
  BY <1>1, <1>2, <1>4 DEF U

LEMMA DenotesFacts ==
  ASSUME NEW m \in Modules, NEW v \in m.values
  PROVE  /\ Arguments(m) \in [m.values -> SUBSET m.values]
         /\ DenotesOf[m][v] \subseteq m.values /\ v \in DenotesOf[m][v]
         /\ \A u \in DenotesOf[m][v] :
              /\ Arguments(m)[u] \subseteq DenotesOf[m][v]
              /\ m.cast[u] # NoValue => m.cast[u] \in DenotesOf[m][v]
<1>1. DenotesOf[m][v] = Reached(StandsFor(m), {v})
  BY DEF DenotesOf
<1>2. {v} \in SUBSET m.values
  OBVIOUS
<1>3. ASSUME NEW u \in m.values PROVE Arguments(m)[u] \in SUBSET m.values
  <2>1. ASSUME NEW t \in Stmts(m), \/ m.code[t].op \in CallOps /\ m.formal[m.code[t].fn] = u
                                   \/ m.code[t].op = "bitcast" /\ m.code[t].val = u
        PROVE  m.code[t].arg \in m.values
    <3>1. CASE m.code[t].op \in CallOps /\ m.formal[m.code[t].fn] = u
      <4>1. m.formal[m.code[t].fn] # NoValue
        BY <3>1, ModuleFacts
      <4>2. m.code[t].op \in CallOps /\ m.formal[m.code[t].fn] # NoValue => m.code[t].arg \in m.values
        BY ModulesAssumption DEF WellFormed, Stmts, CallOps
      <4> QED
        BY <3>1, <4>1, <4>2
    <3>2. CASE m.code[t].op = "bitcast"
      BY <3>2, ModulesAssumption DEF WellFormed, Stmts
    <3> QED
      BY <2>1, <3>1, <3>2
  <2> QED
    BY <2>1 DEF Arguments
<1>4. Arguments(m) \in [m.values -> SUBSET m.values]
  BY <1>3 DEF Arguments
<1>5. IsFiniteSet(m.values)
  BY ModuleFacts
<1>6. ASSUME NEW u \in m.values PROVE m.cast[u] \in m.values \cup {NoValue}
  BY ModulesAssumption DEF WellFormed
<1>7. StandsFor(m) \in [m.values -> SUBSET m.values]
  BY <1>3, <1>6 DEF StandsFor
<1>8. /\ Reached(StandsFor(m), {v}) \in SUBSET m.values /\ {v} \subseteq Reached(StandsFor(m), {v})
      /\ \A x \in Reached(StandsFor(m), {v}) : StandsFor(m)[x] \subseteq Reached(StandsFor(m), {v})
  BY <1>2, <1>5, <1>7, ReachedFacts, Zenon
<1>9. ASSUME NEW u \in m.values
      PROVE  StandsFor(m)[u] = Arguments(m)[u] \cup ({m.cast[u]} \ {NoValue})
  BY DEF StandsFor
<1>10. ASSUME NEW u \in DenotesOf[m][v]
       PROVE  /\ Arguments(m)[u] \subseteq DenotesOf[m][v]
              /\ m.cast[u] # NoValue => m.cast[u] \in DenotesOf[m][v]
  <2>1. u \in m.values /\ StandsFor(m)[u] \subseteq DenotesOf[m][v]
    BY <1>1, <1>8
  <2> QED
    BY <1>9, <2>1
<1> QED
  BY <1>1, <1>4, <1>8, <1>10

LEMMA FinitePoints ==
  ASSUME NEW m \in Modules
  PROVE  IsFiniteSet(AllPoints(m)) /\ IsFiniteSet(LockSets(m))
<1>1. IsFiniteSet(LockSets(m))
  BY ModuleFacts, FS_SUBSET DEF LockSets
<1> DEFINE A == (DOMAIN m.first) \X LockSets(m)
           B == Stmts(m) \X LockSets(m)
           f == [x \in A \X B |-> <<x[1][1], x[1][2], x[2][1], x[2][2]>>]
<1>2. IsFiniteSet(A \X B)
  <2>1. IsFiniteSet(A)
    BY <1>1, ModuleFacts, FS_Product
  <2>2. IsFiniteSet(B)
    BY <1>1, ModuleFacts, FS_Product
  <2> QED
    BY <2>1, <2>2, FS_Product
<1>3. f \in Surjection(A \X B, AllPoints(m))
  <2>1. f \in [A \X B -> AllPoints(m)]
    BY DEF AllPoints
  <2>2. ASSUME NEW p \in AllPoints(m) PROVE \E x \in A \X B : f[x] = p
    <3>1. <<<<p[1], p[2]>>, <<p[3], p[4]>>>> \in A \X B
      BY DEF AllPoints
    <3> QED
      BY <3>1 DEF AllPoints
  <2> QED
    BY <2>1, <2>2 DEF Surjection
<1> HIDE DEF A, B, f
<1>4. IsFiniteSet(AllPoints(m))
  BY <1>2, <1>3, FS_Surjection
<1> QED
  BY <1>1, <1>4

(* Points: closed under After, and least.                                  *)
LEMMA EntryType ==
  ASSUME NEW m \in Modules, NEW f \in DOMAIN m.first, NEW L \in LockSets(m)
  PROVE  Entry(m, f, L) \subseteq AllPoints(m)
BY ModuleFacts DEF Entry, AllPoints

LEMMA MutexType ==
  ASSUME NEW m \in Modules, NEW v \in m.values
  PROVE  m.base[v] \in m.values \cup {NoValue} /\ MutexOf(m, v) \in m.values
BY ModulesAssumption DEF WellFormed, MutexOf

LEMMA LocksAfterType ==
  ASSUME NEW m \in Modules, NEW R \in SUBSET AllPoints(m), NEW p \in AllPoints(m)
  PROVE  LocksAfter(m, R, p) \subseteq LockSets(m)
<1>1. p[3] \in Stmts(m) /\ p[4] \in LockSets(m)
  BY DEF AllPoints
<1>2. m.code[p[3]].op \in {"lock", "unlock"} => MutexOf(m, m.code[p[3]].val) \in m.values
  BY <1>1, MutexType, ModulesAssumption DEF WellFormed, Stmts
<1>3. \A f, L : Exits(m, R, f, L) \subseteq LockSets(m)
  BY DEF Exits, AllPoints
<1> QED
  BY <1>1, <1>2, <1>3 DEF LocksAfter, LockSets

LEMMA AfterType ==
  ASSUME NEW m \in Modules, NEW R \in SUBSET AllPoints(m), NEW p \in AllPoints(m)
  PROVE  After(m, R, p) \subseteq AllPoints(m)
<1>1. /\ p[1] \in DOMAIN m.first /\ p[2] \in LockSets(m)
      /\ p[3] \in Stmts(m) /\ p[4] \in LockSets(m)
  BY DEF AllPoints
<1>2. Successors(m)[p[3]] \subseteq Stmts(m)
  BY <1>1, ModuleFacts
<1>3. {<<p[1], p[2], s, L>> : s \in Successors(m)[p[3]], L \in LocksAfter(m, R, p)}
        \subseteq AllPoints(m)
  BY <1>1, <1>2, LocksAfterType DEF AllPoints
<1>4. m.code[p[3]].op \in CallOps =>
        /\ Entry(m, m.code[p[3]].fn, p[4]) \subseteq AllPoints(m)
        /\ Entry(m, m.code[p[3]].fn, {}) \subseteq AllPoints(m)
  <2>1. {} \in LockSets(m)
    BY DEF LockSets
  <2> QED
    BY <1>1, <2>1, CallFacts, EntryType
<1> QED
  BY <1>3, <1>4 DEF After, CallOps

LEMMA AfterGrows ==
  ASSUME NEW m, NEW R, NEW T, R \subseteq T, NEW p
  PROVE  After(m, R, p) \subseteq After(m, T, p)
<1>1. \A f, L : Exits(m, R, f, L) \subseteq Exits(m, T, f, L)
  BY DEF Exits
<1>2. LocksAfter(m, R, p) \subseteq LocksAfter(m, T, p)
  BY <1>1 DEF LocksAfter
<1> QED
  BY <1>2 DEF After

LEMMA RootsType ==
  ASSUME mod \in Modules, mode \in Modes
  PROVE  Roots(mod, mode) \subseteq Functions
BY ModulesAssumption DEF WellFormed, Roots, Functions

LEMMA PointsFacts ==
  ASSUME mod \in Modules, mode \in Modes
  PROVE  /\ Points \in SUBSET AllPoints(mod)
         /\ \A r \in Roots(mod, mode) : Entry(mod, r, {}) \subseteq Points
         /\ \A p \in Points : After(mod, Points, p) \subseteq Points
<1> DEFINE U == AllPoints(mod)
           step == [R \in SUBSET U |-> R \cup UNION {After(mod, R, p) : p \in R}]
           base == UNION {Entry(mod, f, {}) : f \in Roots(mod, mode)}
<1>1. step \in [SUBSET U -> SUBSET U]
  BY AfterType
<1>2. \A R \in SUBSET U : R \subseteq step[R]
  OBVIOUS
<1>3. \A R \in SUBSET U : step[R] = R => \A p \in R : After(mod, R, p) \subseteq R
  OBVIOUS
<1>4. base \in SUBSET U
  <2>1. {} \in LockSets(mod)
    BY DEF LockSets
  <2>2. \A f \in Roots(mod, mode) : Entry(mod, f, {}) \subseteq U
    BY <2>1, RootsType, EntryType DEF Functions
  <2> QED
    BY <2>2
<1>5. Points = Least(step, base, Cardinality(U))
  BY DEF Points, PointsOf
<1>6. \A r \in Roots(mod, mode) : Entry(mod, r, {}) \subseteq base
  OBVIOUS
<1>7. IsFiniteSet(U)
  BY FinitePoints
<1> HIDE DEF U, step, base
<1>8. /\ Least(step, base, Cardinality(U)) \in SUBSET U
      /\ base \subseteq Least(step, base, Cardinality(U))
      /\ step[Least(step, base, Cardinality(U))] = Least(step, base, Cardinality(U))
  BY <1>1, <1>2, <1>4, <1>7, LeastIsClosed
<1>9. Points \in SUBSET U /\ base \subseteq Points /\ step[Points] = Points
  BY <1>5, <1>8
<1>10. \A p \in Points : After(mod, Points, p) \subseteq Points
  BY <1>3, <1>9
<1> QED
  BY <1>6, <1>9, <1>10 DEF U

LEMMA PointsLeast ==
  ASSUME mod \in Modules, mode \in Modes, NEW Q,
         \A r \in Roots(mod, mode) : Entry(mod, r, {}) \subseteq Q,
         \A p \in Points : p \in Q => After(mod, Points, p) \subseteq Q
  PROVE  Points \subseteq Q
<1> DEFINE U == AllPoints(mod)
           step == [R \in SUBSET U |-> R \cup UNION {After(mod, R, p) : p \in R}]
           base == UNION {Entry(mod, f, {}) : f \in Roots(mod, mode)}
           P == Points \cap Q
<1>1. step \in [SUBSET U -> SUBSET U]
  BY AfterType
<1>2. \A R \in SUBSET U : R \subseteq step[R]
  OBVIOUS
<1>3. ASSUME NEW R \in SUBSET U, R \subseteq P PROVE step[R] \subseteq P
  <2>1. R \subseteq Points
    BY <1>3
  <2>2. ASSUME NEW p \in R PROVE After(mod, R, p) \subseteq P
    <3>1. p \in Points /\ p \in Q
      BY <1>3
    <3>2. After(mod, R, p) \subseteq After(mod, Points, p)
      BY <2>1, AfterGrows
    <3> QED
      BY <3>1, <3>2, PointsFacts
  <2> QED
    BY <1>3, <2>2
<1>4. base \subseteq P /\ base \in SUBSET U
  <2>1. base \subseteq Points /\ base \subseteq Q
    BY PointsFacts
  <2> QED
    BY <2>1, PointsFacts
<1>5. Points = Least(step, base, Cardinality(U))
  BY DEF Points, PointsOf
<1>6. IsFiniteSet(U)
  BY FinitePoints
<1>7. P \subseteq Q
  OBVIOUS
<1> HIDE DEF U, step, base, P
<1>8. \A R \in SUBSET U : R \subseteq P => step[R] \subseteq P
  BY <1>3
<1>9. Least(step, base, Cardinality(U)) \subseteq P
  BY <1>1, <1>2, <1>4, <1>6, <1>8, LeastIsLeast
<1> QED
  BY <1>5, <1>7, <1>9

(* A point lies in its function, which a root calls, directly or not.      *)
LEMMA PointsInFlow ==
  ASSUME mod \in Modules, mode \in Modes, NEW p \in Points
  PROVE  /\ p \in AllPoints(mod)
         /\ p[3] \in FlowOf[mod][p[1]]
         /\ \E r \in Roots(mod, mode) : p[1] \in CalleesOf[mod][r]
<1> DEFINE Q == {q \in AllPoints(mod) :
                   /\ q[3] \in FlowOf[mod][q[1]]
                   /\ \E r \in Roots(mod, mode) : q[1] \in CalleesOf[mod][r]}
<1>1. ASSUME NEW f \in Functions, NEW L \in LockSets(mod), NEW r \in Roots(mod, mode),
             f \in CalleesOf[mod][r]
      PROVE  Entry(mod, f, L) \subseteq Q
  <2>1. Entry(mod, f, L) \subseteq AllPoints(mod)
    BY EntryType DEF Functions
  <2>2. mod.first[f] # NoValue => mod.first[f] \in FlowOf[mod][f]
    BY FlowFacts DEF Functions
  <2> QED
    BY <1>1, <2>1, <2>2 DEF Entry
<1>2. {} \in LockSets(mod)
  BY DEF LockSets
<1>3. \A r \in Roots(mod, mode) : Entry(mod, r, {}) \subseteq Q
  <2>1. \A r \in Roots(mod, mode) : r \in Functions /\ r \in CalleesOf[mod][r]
    BY RootsType, CalleesFacts DEF Functions
  <2> HIDE DEF Q
  <2> QED
    BY <1>1, <1>2, <2>1
<1>4. ASSUME NEW q \in Points, q \in Q PROVE After(mod, Points, q) \subseteq Q
  <2>1. /\ q \in AllPoints(mod) /\ q[1] \in Functions /\ q[3] \in Stmts(mod)
        /\ q[4] \in LockSets(mod)
        /\ q[3] \in FlowOf[mod][q[1]]
    BY <1>4 DEF AllPoints, Functions
  <2>2. PICK r \in Roots(mod, mode) : q[1] \in CalleesOf[mod][r]
    BY <1>4
  <2>3. After(mod, Points, q) \subseteq AllPoints(mod)
    BY <2>1, PointsFacts, AfterType
  <2>4. Successors(mod)[q[3]] \subseteq FlowOf[mod][q[1]]
    BY <2>1, FlowFacts DEF Functions
  <2>5. {<<q[1], q[2], s, L>> : s \in Successors(mod)[q[3]], L \in LocksAfter(mod, Points, q)}
          \subseteq Q
    BY <2>2, <2>3, <2>4 DEF After
  <2>6. mod.code[q[3]].op \in CallOps =>
          /\ Entry(mod, mod.code[q[3]].fn, q[4]) \subseteq Q
          /\ Entry(mod, mod.code[q[3]].fn, {}) \subseteq Q
    <3> DEFINE g == mod.code[q[3]].fn
    <3>1. SUFFICES ASSUME mod.code[q[3]].op \in CallOps
                   PROVE  Entry(mod, g, q[4]) \subseteq Q /\ Entry(mod, g, {}) \subseteq Q
      OBVIOUS
    <3>2. g \in Functions /\ g \in Calls(mod)[q[1]]
      BY <2>1, <3>1, CallFacts DEF Functions
    <3>3. r \in Functions
      BY RootsType
    <3>4. Calls(mod)[q[1]] \subseteq CalleesOf[mod][r]
      BY <2>2, <3>3, CalleesFacts DEF Functions
    <3> HIDE DEF g, Q
    <3> QED
      BY <1>1, <1>2, <2>1, <3>2, <3>4
  <2> HIDE DEF Q
  <2> QED
    BY <2>5, <2>6 DEF After, CallOps
<1> HIDE DEF Q
<1>5. Points \subseteq Q
  BY <1>3, <1>4, PointsLeast
<1> QED
  BY <1>5 DEF Q

(* What After adds, one case at a time.                                    *)
LEMMA PointsClosed ==
  ASSUME mod \in Modules, mode \in Modes, NEW p \in Points
  PROVE  /\ \A s \in Successors(mod)[p[3]], L \in LocksAfter(mod, Points, p) :
              <<p[1], p[2], s, L>> \in Points
         /\ Code(p[3]).op = "call" => Entry(mod, Code(p[3]).fn, p[4]) \subseteq Points
         /\ Code(p[3]).op = "create" => Entry(mod, Code(p[3]).fn, {}) \subseteq Points
BY PointsFacts DEF After, Code

-----------------------------------------------------------------------------
(* What does not change when the module and the mode do not.               *)
LEMMA Same ==
  ASSUME mod' = mod, mode' = mode
  PROVE  /\ Points' = Points /\ Regular' = Regular /\ NonRecursive' = NonRecursive
         /\ Multithreaded' = Multithreaded
<1>1. Points' = Points
  BY DEF Points
<1>2. Regular' = Regular
  BY <1>1 DEF Regular, Code
<1>3. NonRecursive' = NonRecursive
  BY DEF NonRecursive
<1>4. Multithreaded' = Multithreaded
  BY <1>1 DEF Multithreaded, Code
<1> QED
  BY <1>1, <1>2, <1>3, <1>4

-----------------------------------------------------------------------------
(* Frames and caches.  Env is what every step leaves alone.                *)
Env == mod \in Modules /\ mode \in Modes

(* What was seen with one stack and cache is seen with another.            *)
Carries(st, sc, st2, sc2) ==
  \A f, L0, s, L : Seen(st, sc, f, L0, s, L) => Seen(st2, sc2, f, L0, s, L)

LEMMA FlowOwner ==
  ASSUME Env, NEW f \in Functions, NEW g \in Functions, NEW s, s \in Flow(f), s \in Flow(g)
  PROVE  f = g
BY FlowAssumption DEF Env, Flow, Functions

LEMMA SettledGrows ==
  ASSUME NEW st, NEW sc, NEW fc, NEW st2, NEW sc2, NEW fc2, NEW f, NEW k,
         Carries(st, sc, st2, sc2), fc \subseteq fc2, Settled(st, sc, fc, f, k)
  PROVE  Settled(st2, sc2, fc2, f, k)
<1>1. \A L0, s, L : Seen(st, sc, f, L0, s, L) => Seen(st2, sc2, f, L0, s, L)
  BY DEF Carries
<1>2. \A s \in Successors(mod)[k[1]] : \E L \in LockSets(mod) : Seen(st2, sc2, f, k[2], s, L)
  BY <1>1 DEF Settled
<1>3. Code(k[1]).op \notin CallOps =>
        \A s \in Successors(mod)[k[1]] : Seen(st2, sc2, f, k[2], s, Straight(k[1], k[3]))
  BY <1>1 DEF Settled
<1>4. Code(k[1]).op \in CallOps /\ mod.first[Code(k[1]).fn] = NoValue =>
        \A s \in Successors(mod)[k[1]] : Seen(st2, sc2, f, k[2], s, k[3])
  BY <1>1 DEF Settled
<1>5. ASSUME Code(k[1]).op \in CallOps, mod.first[Code(k[1]).fn] # NoValue, NonRecursive
      PROVE  \E e \in fc2 : /\ e.fn = Code(k[1]).fn /\ e.entry = k[3]
                            /\ \A s \in Successors(mod)[k[1]] : \A L \in Going(e.exits, k[3]) :
                                 Seen(st2, sc2, f, k[2], s, L)
  <2>1. PICK e \in fc : /\ e.fn = Code(k[1]).fn /\ e.entry = k[3]
                        /\ \A s \in Successors(mod)[k[1]] : \A L \in Going(e.exits, k[3]) :
                             Seen(st, sc, f, k[2], s, L)
    BY <1>5 DEF Settled
  <2> QED
    BY <1>1, <2>1
<1> QED
  BY <1>2, <1>3, <1>4, <1>5 DEF Settled

(* The fields of frames and items.                                         *)
LEMMA FrameFacts ==
  ASSUME NEW F \in FrameType
  PROVE  /\ F.fn \in Functions /\ F.entry \in LockSets(mod)
         /\ F.exits \in SUBSET LockSets(mod) /\ F.todo \in Seq(ItemType)
         /\ \A x \in ItemsOf(F) : x.at \in Stmts(mod) /\ x.locks \in LockSets(mod)
         /\ \A x \in ItemsOf(F) : x = [at |-> x.at, locks |-> x.locks]
         /\ F.todo # <<>> => Head(F.todo) \in ItemsOf(F)
<1>1. F.todo \in Seq(ItemType)
  BY DEF FrameType
<1>2. F.todo # <<>> => Len(F.todo) >= 1 /\ Head(F.todo) = F.todo[1]
  BY <1>1
<1>3. \A j \in 1..Len(F.todo) : F.todo[j] \in ItemType
  BY <1>1
<1> QED
  BY <1>1, <1>2, <1>3 DEF FrameType, ItemType, ItemsOf

LEMMA TopReplaced ==
  ASSUME NEW T, NEW st \in Seq(T), st # <<>>, NEW G \in T, NEW st2, st2 = [st EXCEPT ![1] = G]
  PROVE  /\ st2 \in Seq(T) /\ Len(st2) = Len(st) /\ st2[1] = G /\ st2 # <<>>
         /\ \A i \in 2..Len(st) : st2[i] = st[i]
         /\ Len(st) >= 1 /\ Len(st) \in Nat
OBVIOUS

(* The top frame goes on, from the first statement in it, which is cached. *)
NextFrame(F, G) ==
  /\ G \in FrameType /\ G.fn = F.fn /\ G.entry = F.entry /\ F.exits \subseteq G.exits
  /\ \A x \in ItemsOf(F) : x = Head(F.todo) \/ x \in ItemsOf(G)
  /\ \A x \in ItemsOf(G) : x.at \in Flow(G.fn)
  /\ Regular => /\ \A x \in ItemsOf(G) : <<G.fn, G.entry, x.at, x.locks>> \in Points
                /\ G.exits \subseteq Exits(mod, Points, G.fn, G.entry)

(* The visit of that statement ends here if it was pending.                *)
Closes(st, st2, sc, fc, o) ==
  Regular /\ o = 1 => /\ Settled(st2, sc, fc, st[1].fn, KeyOf(st[1]))
                      /\ RetKept(st2, fc, st[1].fn, KeyOf(st[1]))

Advances(st, st2, sc, fc, G, o) ==
  /\ Core(st, sc, fc, o) /\ st # <<>> /\ st[1].todo # <<>> /\ KeyOf(st[1]) \in sc
  /\ NextFrame(st[1], G) /\ st2 = [st EXCEPT ![1] = G] /\ Closes(st, st2, sc, fc, o)

LEMMA Advance ==
  ASSUME Env, NEW st, NEW sc, NEW fc, NEW G, NEW st2, NEW o \in {1, 2},
         Advances(st, st2, sc, fc, G, o)
  PROVE  /\ Core(st2, sc, fc, 2)
         /\ \A f, L : Begun(st2, fc, f, L) <=> Begun(st, fc, f, L)
<1>0. /\ Core(st, sc, fc, o) /\ st # <<>> /\ st[1].todo # <<>> /\ KeyOf(st[1]) \in sc
      /\ NextFrame(st[1], G) /\ st2 = [st EXCEPT ![1] = G] /\ Closes(st, st2, sc, fc, o)
  BY DEF Advances
<1> USE <1>0
<1> USE DEF NextFrame
<1>1. CoreTypes(st, sc, fc) /\ StackInv(st, sc, o)
  BY DEF Core
<1>2. /\ st2 \in Seq(FrameType) /\ Len(st2) = Len(st) /\ st2[1] = G
      /\ \A i \in 2..Len(st) : st2[i] = st[i]
      /\ Len(st) \in Nat /\ Len(st) >= 1
  BY <1>1, TopReplaced DEF CoreTypes
<1>3. \A i \in 1..Len(st) : /\ st2[i].fn = st[i].fn /\ st2[i].entry = st[i].entry
                            /\ st[i].exits \subseteq st2[i].exits
                            /\ i # 1 => st2[i] = st[i]
  BY <1>2
<1>4. \A f, L : Begun(st2, fc, f, L) <=> Begun(st, fc, f, L)
  BY <1>2, <1>3 DEF Begun, Active
<1>5. Carries(st, sc, st2, sc)
  <2> SUFFICES ASSUME NEW f, NEW L0, NEW s, NEW L, Seen(st, sc, f, L0, s, L)
               PROVE  Seen(st2, sc, f, L0, s, L)
    BY DEF Carries
  <2> SUFFICES ASSUME <<s, L0, L>> \notin sc PROVE Seen(st2, sc, f, L0, s, L)
    BY DEF Seen
  <2> PICK i \in 1..Len(st) : /\ st[i].fn = f /\ st[i].entry = L0
                              /\ [at |-> s, locks |-> L] \in ItemsOf(st[i])
    BY DEF Seen
  <2>1. CASE i # 1
    BY <1>2, <1>3, <2>1 DEF Seen
  <2>2. CASE i = 1 /\ [at |-> s, locks |-> L] \in ItemsOf(G)
    BY <1>2, <1>3, <2>2 DEF Seen
  <2>3. CASE i = 1 /\ [at |-> s, locks |-> L] = Head(st[1].todo)
    <3>1. Head(st[1].todo).at = s /\ Head(st[1].todo).locks = L
      BY <2>3
    <3>2. KeyOf(st[1]) = <<s, L0, L>>
      BY <2>3, <3>1 DEF KeyOf
    <3> QED
      BY <3>2 DEF Seen
  <2> QED
    BY <2>1, <2>2, <2>3
<1>6. CoreTypes(st2, sc, fc)
  BY <1>1, <1>2, SMTT(60) DEF CoreTypes
<1>7. StackInv(st2, sc, 2)
  <2>1. ASSUME NEW i \in 1..Len(st)
        PROVE  /\ mod.first[st2[i].fn] # NoValue
               /\ \A x \in ItemsOf(st2[i]) : x.at \in Flow(st2[i].fn)
               /\ \E r \in Roots(mod, mode) : st2[i].fn \in CalleesOf[mod][r]
               /\ \A j \in 1..i : st2[j].fn \in CalleesOf[mod][st2[i].fn]
               /\ \A j \in 1..Len(st) : st2[i].fn = st2[j].fn => i = j
    <3>1. \A x \in ItemsOf(st2[i]) : x.at \in Flow(st2[i].fn)
      BY <1>1, <1>2, <1>3 DEF StackInv
    <3>2. \A j \in 1..i : j \in 1..Len(st)
      BY <1>2
    <3> QED
      BY <1>1, <1>2, <1>3, <3>1, <3>2 DEF StackInv
  <2>2. ASSUME NEW i \in 2..Len(st)
        PROVE  /\ st2[i].todo # <<>> /\ KeyOf(st2[i]) \in sc
               /\ Code(Head(st2[i].todo).at).op \in CallOps
               /\ Code(Head(st2[i].todo).at).fn = st2[i - 1].fn
               /\ Head(st2[i].todo).locks = st2[i - 1].entry
    <3>1. st2[i] = st[i] /\ i - 1 \in 1..Len(st) /\ i \in o..Len(st)
      BY <1>2
    <3>2. st[i].todo # <<>> /\ KeyOf(st[i]) \in sc
      BY <1>1, <3>1 DEF StackInv
    <3>3. /\ Code(Head(st[i].todo).at).op \in CallOps
          /\ Code(Head(st[i].todo).at).fn = st[i - 1].fn
          /\ Head(st[i].todo).locks = st[i - 1].entry
      BY <1>1 DEF StackInv
    <3> QED
      BY <1>3, <3>1, <3>2, <3>3
  <2> QED
    BY <1>2, <2>1, <2>2 DEF StackInv
<1>8. ASSUME Regular PROVE CacheInv(st2, sc, fc) /\ SearchInv(st2, sc, fc, 2) /\ SoundInv(st2, fc)
  <2>1. CacheInv(st, sc, fc) /\ SearchInv(st, sc, fc, o) /\ SoundInv(st, fc)
    BY <1>8 DEF Core
  <2>2. CacheInv(st2, sc, fc)
    <3>1. \A q \in sc : \E f \in Functions : q[1] \in Flow(f) /\ Begun(st2, fc, f, q[2])
      BY <1>4, <2>1 DEF CacheInv
    <3>2. \A i \in 1..Len(st2) : ~Summarised(fc, st2[i].fn, st2[i].entry)
      BY <1>2, <1>3, <2>1 DEF CacheInv
    <3> QED
      BY <2>1, <3>1, <3>2 DEF CacheInv
  <2>3. \A f \in Functions, L \in LockSets(mod) :
          Begun(st2, fc, f, L) => Seen(st2, sc, f, L, mod.first[f], L)
    BY <1>4, <1>5, <2>1 DEF SearchInv, Carries
  <2>4. ASSUME NEW q \in sc, NEW f \in Functions, q[1] \in Flow(f), ~Pending(st2, 2, q)
        PROVE  Settled(st2, sc, fc, f, q) /\ RetKept(st2, fc, f, q)
    <3>1. CASE ~Pending(st, o, q)
      <4>1. Settled(st, sc, fc, f, q) /\ RetKept(st, fc, f, q)
        BY <2>1, <2>4, <3>1 DEF SearchInv
      <4>2. Settled(st2, sc, fc, f, q)
        BY <1>5, <4>1, SettledGrows
      <4>3. RetKept(st2, fc, f, q)
        BY <1>2, <1>3, <4>1 DEF RetKept
      <4> QED
        BY <4>2, <4>3
    <3>2. CASE Pending(st, o, q)
      <4>1. PICK i \in o..Len(st) : q = KeyOf(st[i])
        BY <3>2 DEF Pending
      <4>2. i = 1 /\ o = 1
        BY <1>2, <2>4, <4>1 DEF Pending
      <4>3. st[1].fn \in Functions /\ Head(st[1].todo) \in ItemsOf(st[1])
        BY <1>1, <1>2, FrameFacts DEF CoreTypes
      <4>4. q[1] \in Flow(st[1].fn)
        BY <1>1, <1>2, <4>1, <4>2, <4>3 DEF StackInv, KeyOf
      <4>5. f = st[1].fn
        BY <2>4, <4>3, <4>4, FlowOwner
      <4> QED
        BY <1>8, <4>1, <4>2, <4>5 DEF Closes
    <3> QED
      BY <3>1, <3>2
  <2>5. SoundInv(st2, fc)
    BY <1>2, <1>3, <1>8, <2>1 DEF SoundInv
  <2> QED
    BY <2>2, <2>3, <2>4, <2>5 DEF SearchInv
<1> QED
  BY <1>4, <1>6, <1>7, <1>8 DEF Core

(* A statement is entered into the cache.                                  *)
LEMMA Visit ==
  ASSUME Env, NEW st, NEW sc, NEW fc, Core(st, sc, fc, 2), st # <<>>, st[1].todo # <<>>,
         NEW sc2, sc2 = sc \cup {KeyOf(st[1])}
  PROVE  Core(st, sc2, fc, 1)
<1>1. CoreTypes(st, sc, fc) /\ StackInv(st, sc, 2)
  BY DEF Core
<1>2. st \in Seq(FrameType) /\ Len(st) \in Nat /\ Len(st) >= 1 /\ st[1] \in FrameType
  BY <1>1 DEF CoreTypes
<1>3. /\ st[1].fn \in Functions /\ st[1].entry \in LockSets(mod)
      /\ Head(st[1].todo) \in ItemsOf(st[1])
      /\ Head(st[1].todo).at \in Stmts(mod) /\ Head(st[1].todo).locks \in LockSets(mod)
  BY <1>2, FrameFacts
<1>4. Head(st[1].todo).at \in Flow(st[1].fn)
  BY <1>1, <1>2, <1>3 DEF StackInv
<1>5. CoreTypes(st, sc2, fc)
  BY <1>1, <1>3 DEF CoreTypes, KeyOf, Keys
<1>6. StackInv(st, sc2, 1)
  <2>1. \A i \in 1..Len(st) : st[i].todo # <<>> /\ KeyOf(st[i]) \in sc2
    <3>1. \A i \in 1..Len(st) : i = 1 \/ i \in 2..Len(st)
      BY <1>2
    <3> QED
      BY <1>1, <3>1 DEF StackInv
  <2> QED
    BY <1>1, <2>1 DEF StackInv
<1>7. Carries(st, sc, st, sc2)
  BY DEF Carries, Seen
<1>8. ASSUME Regular PROVE CacheInv(st, sc2, fc) /\ SearchInv(st, sc2, fc, 1) /\ SoundInv(st, fc)
  <2>1. CacheInv(st, sc, fc) /\ SearchInv(st, sc, fc, 2) /\ SoundInv(st, fc)
    BY <1>8 DEF Core
  <2>2. CacheInv(st, sc2, fc)
    <3>1. Begun(st, fc, st[1].fn, st[1].entry)
      BY <1>2 DEF Begun, Active
    <3>2. KeyOf(st[1])[1] \in Flow(st[1].fn) /\ KeyOf(st[1])[2] = st[1].entry
      BY <1>4 DEF KeyOf
    <3> QED
      BY <1>3, <2>1, <3>1, <3>2 DEF CacheInv
  <2>3. \A f \in Functions, L \in LockSets(mod) :
          Begun(st, fc, f, L) => Seen(st, sc2, f, L, mod.first[f], L)
    BY <1>7, <2>1 DEF SearchInv, Carries
  <2>4. ASSUME NEW q \in sc2, NEW f \in Functions, q[1] \in Flow(f), ~Pending(st, 1, q)
        PROVE  Settled(st, sc2, fc, f, q) /\ RetKept(st, fc, f, q)
    <3>1. q # KeyOf(st[1]) /\ ~Pending(st, 2, q)
      BY <1>2, <2>4 DEF Pending
    <3>2. q \in sc
      BY <3>1
    <3>3. Settled(st, sc, fc, f, q) /\ RetKept(st, fc, f, q)
      BY <2>1, <2>4, <3>1, <3>2 DEF SearchInv
    <3> QED
      BY <1>7, <3>3, SettledGrows
  <2> QED
    BY <2>1, <2>2, <2>3, <2>4 DEF SearchInv
<1> QED
  BY <1>5, <1>6, <1>8 DEF Core

(* Without frames there is nothing pending.                                *)
LEMMA EmptyCore ==
  ASSUME NEW sc, NEW fc
  PROVE  Core(<<>>, sc, fc, 1) <=> Core(<<>>, sc, fc, 2)
<1>1. Len(<<>>) = 0
  OBVIOUS
<1>2. StackInv(<<>>, sc, 1) <=> StackInv(<<>>, sc, 2)
  BY <1>1 DEF StackInv
<1>3. \A q : ~Pending(<<>>, 2, q) /\ ~Pending(<<>>, 1, q)
  BY <1>1 DEF Pending
<1>4. SearchInv(<<>>, sc, fc, 1) <=> SearchInv(<<>>, sc, fc, 2)
  BY <1>3 DEF SearchInv
<1> QED
  BY <1>2, <1>4 DEF Core

LEMMA Pushed ==
  ASSUME NEW T, NEW st \in Seq(T), NEW F \in T, NEW st2, st2 = <<F>> \o st
  PROVE  /\ st2 \in Seq(T) /\ Len(st2) = Len(st) + 1 /\ Len(st) \in Nat /\ st2[1] = F
         /\ \A i \in 1..Len(st) : st2[i + 1] = st[i]
         /\ \A i \in 2..Len(st2) : st2[i] = st[i - 1] /\ i - 1 \in 1..Len(st)
OBVIOUS

LEMMA FrameIsTyped ==
  ASSUME Env, NEW f \in Functions, NEW L \in LockSets(mod), mod.first[f] # NoValue
  PROVE  /\ Frame(f, L) \in FrameType
         /\ Frame(f, L).fn = f /\ Frame(f, L).entry = L /\ Frame(f, L).exits = {}
         /\ ItemsOf(Frame(f, L)) = {[at |-> mod.first[f], locks |-> L]}
<1>1. mod.first[f] \in Stmts(mod)
  BY ModuleFacts DEF Env, Functions
<1>2. [at |-> mod.first[f], locks |-> L] \in ItemType
  BY <1>1 DEF ItemType
<1>3. <<[at |-> mod.first[f], locks |-> L]>> \in Seq(ItemType)
  BY <1>2
<1> QED
  BY <1>3 DEF Frame, FrameType, ItemsOf

(* A function is entered, by a call in the top frame or from a root.       *)
Pushes(st, st2, sc, fc, f, L) ==
  /\ Core(st, sc, fc, 1) /\ f \in Functions /\ L \in LockSets(mod) /\ mod.first[f] # NoValue
  /\ ~Summarised(fc, f, L) /\ \A i \in 1..Len(st) : st[i].fn # f
  /\ st = <<>> => f \in Roots(mod, mode) /\ L = {}
  /\ st # <<>> => /\ Code(Head(st[1].todo).at).op \in CallOps
                  /\ Code(Head(st[1].todo).at).fn = f
                  /\ Head(st[1].todo).locks = L
  /\ st2 = <<Frame(f, L)>> \o st

LEMMA Push ==
  ASSUME Env, NEW st, NEW st2, NEW sc, NEW fc, NEW f, NEW L, Pushes(st, st2, sc, fc, f, L)
  PROVE  /\ Core(st2, sc, fc, 2)
         /\ \A g, M : Begun(st, fc, g, M) => Begun(st2, fc, g, M)
         /\ Begun(st2, fc, f, L)
<1> SUFFICES
      ASSUME Core(st, sc, fc, 1), f \in Functions, L \in LockSets(mod), mod.first[f] # NoValue,
             ~Summarised(fc, f, L), \A i \in 1..Len(st) : st[i].fn # f,
             st = <<>> => f \in Roots(mod, mode) /\ L = {},
             st # <<>> => /\ Code(Head(st[1].todo).at).op \in CallOps
                          /\ Code(Head(st[1].todo).at).fn = f
                          /\ Head(st[1].todo).locks = L,
             st2 = <<Frame(f, L)>> \o st
      PROVE  /\ Core(st2, sc, fc, 2)
             /\ \A g, M : Begun(st, fc, g, M) => Begun(st2, fc, g, M)
             /\ Begun(st2, fc, f, L)
  BY DEF Pushes
<1>1. CoreTypes(st, sc, fc) /\ StackInv(st, sc, 1)
  BY DEF Core
<1>2. /\ Frame(f, L) \in FrameType
      /\ Frame(f, L).fn = f /\ Frame(f, L).entry = L /\ Frame(f, L).exits = {}
      /\ ItemsOf(Frame(f, L)) = {[at |-> mod.first[f], locks |-> L]}
  BY FrameIsTyped
<1>3. /\ st2 \in Seq(FrameType) /\ Len(st2) = Len(st) + 1 /\ Len(st) \in Nat /\ st2[1] = Frame(f, L)
      /\ \A i \in 1..Len(st) : st2[i + 1] = st[i]
      /\ \A i \in 2..Len(st2) : st2[i] = st[i - 1] /\ i - 1 \in 1..Len(st)
  BY <1>1, <1>2, Pushed DEF CoreTypes
<1>4. st \in Seq(FrameType) /\ \A i \in 1..Len(st) : st[i] \in FrameType
  BY <1>1 DEF CoreTypes
<1>5. mod.first[f] \in Flow(f)
  BY FlowFacts DEF Env, Functions, Flow
<1>6. st # <<>> => /\ Len(st) >= 1 /\ 1 \in 1..Len(st)
                   /\ st[1].todo # <<>> /\ Head(st[1].todo) \in ItemsOf(st[1])
                   /\ Head(st[1].todo).at \in Flow(st[1].fn)
                   /\ st[1].fn \in Functions
  <2>1. st # <<>> => Len(st) >= 1 /\ 1 \in 1..Len(st)
    BY <1>4
  <2>2. st # <<>> => st[1].todo # <<>>
    BY <1>1, <2>1 DEF StackInv
  <2>3. st # <<>> => Head(st[1].todo) \in ItemsOf(st[1]) /\ st[1].fn \in Functions
    BY <1>4, <2>1, <2>2, FrameFacts
  <2> QED
    BY <1>1, <2>1, <2>2, <2>3 DEF StackInv
<1>7. st # <<>> => f \in Calls(mod)[st[1].fn]
  BY <1>6, CallFacts DEF Flow, Code, Functions, Env
<1>8. Carries(st, sc, st2, sc)
  <2> SUFFICES ASSUME NEW g, NEW L0, NEW s, NEW M, Seen(st, sc, g, L0, s, M)
               PROVE  Seen(st2, sc, g, L0, s, M)
    BY DEF Carries
  <2> SUFFICES ASSUME <<s, L0, M>> \notin sc PROVE Seen(st2, sc, g, L0, s, M)
    BY DEF Seen
  <2> PICK i \in 1..Len(st) : /\ st[i].fn = g /\ st[i].entry = L0
                              /\ [at |-> s, locks |-> M] \in ItemsOf(st[i])
    BY DEF Seen
  <2>1. i + 1 \in 1..Len(st2) /\ st2[i + 1] = st[i]
    BY <1>3
  <2> QED
    BY <2>1 DEF Seen
<1>9. \A g, M : Begun(st2, fc, g, M) <=> Begun(st, fc, g, M) \/ (g = f /\ M = L)
  <2> SUFFICES ASSUME NEW g, NEW M
               PROVE  Active(st2, g, M) <=> Active(st, g, M) \/ (g = f /\ M = L)
    BY DEF Begun
  <2>1. ASSUME Active(st2, g, M) PROVE Active(st, g, M) \/ (g = f /\ M = L)
    <3>1. PICK i \in 1..Len(st2) : st2[i].fn = g /\ st2[i].entry = M
      BY <2>1 DEF Active
    <3>2. i = 1 \/ i \in 2..Len(st2)
      BY <1>3
    <3> QED
      BY <1>2, <1>3, <3>1, <3>2 DEF Active
  <2>2. ASSUME Active(st, g, M) PROVE Active(st2, g, M)
    <3>1. PICK i \in 1..Len(st) : st[i].fn = g /\ st[i].entry = M
      BY <2>2 DEF Active
    <3>2. i + 1 \in 1..Len(st2) /\ st2[i + 1] = st[i]
      BY <1>3
    <3> QED
      BY <3>1, <3>2 DEF Active
  <2>3. ASSUME g = f, M = L PROVE Active(st2, g, M)
    <3>1. 1 \in 1..Len(st2)
      BY <1>3
    <3> QED
      BY <1>2, <1>3, <2>3, <3>1 DEF Active
  <2> QED
    BY <2>1, <2>2, <2>3
<1>10. CoreTypes(st2, sc, fc)
  BY <1>1, <1>3, SMTT(60) DEF CoreTypes
<1>11. StackInv(st2, sc, 2)
  <2>1. ASSUME NEW i \in 1..Len(st2)
        PROVE  /\ mod.first[st2[i].fn] # NoValue
               /\ \A x \in ItemsOf(st2[i]) : x.at \in Flow(st2[i].fn)
               /\ \E r \in Roots(mod, mode) : st2[i].fn \in CalleesOf[mod][r]
               /\ \A j \in 1..i : st2[j].fn \in CalleesOf[mod][st2[i].fn]
               /\ \A j \in 1..Len(st2) : st2[i].fn = st2[j].fn => i = j
    <3>1. CASE i = 1
      <4>1. \E r \in Roots(mod, mode) : f \in CalleesOf[mod][r]
        <5>1. CASE st = <<>>
          BY <5>1, RootsType, CalleesFacts DEF Env, Functions
        <5>2. CASE st # <<>>
          <6>1. PICK r \in Roots(mod, mode) : st[1].fn \in CalleesOf[mod][r]
            BY <1>1, <1>6, <5>2 DEF StackInv
          <6>2. r \in DOMAIN mod.first /\ mod \in Modules
            BY RootsType DEF Env, Functions
          <6>3. Calls(mod)[st[1].fn] \subseteq CalleesOf[mod][r]
            BY <6>1, <6>2, CalleesFacts
          <6> QED
            BY <1>7, <5>2, <6>3
        <5> QED
          BY <5>1, <5>2
      <4>2. f \in CalleesOf[mod][f]
        BY CalleesFacts DEF Env, Functions
      <4>3. \A j \in 1..i : j = 1
        BY <3>1
      <4>4. \A j \in 1..Len(st2) : st2[j].fn = f => j = 1
        <5>1. \A j \in 1..Len(st2) : j # 1 => j \in 2..Len(st2)
          BY <1>3
        <5> QED
          BY <1>3, <5>1
      <4> QED
        BY <1>2, <1>3, <1>5, <3>1, <4>1, <4>2, <4>3, <4>4
    <3>2. CASE i \in 2..Len(st2)
      <4> DEFINE h == i - 1
      <4>1. h \in 1..Len(st) /\ st2[i] = st[h]
        BY <1>3, <3>2
      <4>2. st # <<>>
        BY <4>1
      <4>3. ASSUME NEW j \in 1..i PROVE st2[j].fn \in CalleesOf[mod][st[h].fn]
        <5>1. CASE j = 1
          <6>1. st[1].fn \in CalleesOf[mod][st[h].fn]
            <7>1. 1 \in 1..h
              BY <4>1
            <7> HIDE DEF h
            <7> QED
              BY <1>1, <4>1, <7>1 DEF StackInv
          <6>2. st[h].fn \in DOMAIN mod.first /\ mod \in Modules
            BY <1>4, <4>1, FrameFacts DEF Env, Functions
          <6>3. Calls(mod)[st[1].fn] \subseteq CalleesOf[mod][st[h].fn]
            BY <6>1, <6>2, CalleesFacts
          <6> QED
            BY <1>2, <1>3, <1>7, <4>2, <5>1, <6>3
        <5>2. CASE j # 1
          <6>1. j \in 2..Len(st2) /\ j - 1 \in 1..h
            BY <1>3, <4>1, <5>2
          <6>2. st2[j] = st[j - 1]
            BY <1>3, <6>1
          <6> QED
            BY <1>1, <4>1, <6>1, <6>2 DEF StackInv
        <5> QED
          BY <5>1, <5>2
      <4>4. ASSUME NEW j \in 1..Len(st2), st2[j].fn = st[h].fn PROVE i = j
        <5>1. j # 1
          BY <1>2, <1>3, <4>1, <4>4
        <5>2. st2[j] = st[j - 1] /\ j - 1 \in 1..Len(st)
          BY <1>3, <5>1
        <5>3. h = j - 1
          BY <1>1, <4>1, <4>4, <5>2, SMTT(60) DEF StackInv
        <5> QED
          BY <5>3
      <4> HIDE DEF h
      <4> QED
        BY <1>1, <4>1, <4>3, <4>4 DEF StackInv
    <3>3. i = 1 \/ i # 1
      OBVIOUS
    <3> QED
      BY <3>1, <3>2, <3>3, SMTT(60)
  <2>2. ASSUME NEW i \in 2..Len(st2)
        PROVE  /\ st2[i].todo # <<>> /\ KeyOf(st2[i]) \in sc
               /\ Code(Head(st2[i].todo).at).op \in CallOps
               /\ Code(Head(st2[i].todo).at).fn = st2[i - 1].fn
               /\ Head(st2[i].todo).locks = st2[i - 1].entry
    <3>1. st2[i] = st[i - 1] /\ i - 1 \in 1..Len(st)
      BY <1>3
    <3>2. st[i - 1].todo # <<>> /\ KeyOf(st[i - 1]) \in sc
      BY <1>1, <3>1 DEF StackInv
    <3>3. CASE i = 2
      <4>1. st # <<>> /\ st2[2] = st[1] /\ 2 - 1 = 1
        BY <3>1, <3>3
      <4> QED
        BY <1>2, <1>3, <3>1, <3>2, <3>3, <4>1
    <3>4. CASE i # 2
      <4>1. i - 1 \in 2..Len(st) /\ (i - 1) - 1 \in 1..Len(st)
        BY <1>3, <3>1, <3>4
      <4>2. st2[i - 1] = st[(i - 1) - 1]
        <5>1. i - 1 \in 2..Len(st2)
          BY <1>3, <4>1
        <5> QED
          BY <1>3, <5>1
      <4>3. /\ Code(Head(st[i - 1].todo).at).op \in CallOps
            /\ Code(Head(st[i - 1].todo).at).fn = st[(i - 1) - 1].fn
            /\ Head(st[i - 1].todo).locks = st[(i - 1) - 1].entry
        BY <1>1, <4>1 DEF StackInv
      <4> QED
        BY <3>1, <3>2, <4>2, <4>3
    <3> QED
      BY <3>3, <3>4
  <2> QED
    BY <2>1, <2>2 DEF StackInv
<1>12. ASSUME Regular PROVE CacheInv(st2, sc, fc) /\ SearchInv(st2, sc, fc, 2) /\ SoundInv(st2, fc)
  <2>1. CacheInv(st, sc, fc) /\ SearchInv(st, sc, fc, 1) /\ SoundInv(st, fc)
    BY <1>12 DEF Core
  <2>2. \A i \in 1..Len(st2) : i = 1 \/ (i \in 2..Len(st2) /\ i - 1 \in 1..Len(st) /\ st2[i] = st[i - 1])
    BY <1>3
  <2>3. CacheInv(st2, sc, fc)
    <3>1. \A q \in sc : \E g \in Functions : q[1] \in Flow(g) /\ Begun(st2, fc, g, q[2])
      BY <1>9, <2>1 DEF CacheInv
    <3>2. \A i \in 1..Len(st2) : ~Summarised(fc, st2[i].fn, st2[i].entry)
      BY <1>2, <1>3, <2>1, <2>2 DEF CacheInv
    <3> QED
      BY <2>1, <3>1, <3>2 DEF CacheInv
  <2>4. Seen(st2, sc, f, L, mod.first[f], L)
    <3>1. 1 \in 1..Len(st2) /\ [at |-> mod.first[f], locks |-> L] \in ItemsOf(Frame(f, L))
      BY <1>2, <1>3
    <3> QED
      BY <1>2, <1>3, <3>1 DEF Seen
  <2>5. \A g \in Functions, M \in LockSets(mod) :
          Begun(st2, fc, g, M) => Seen(st2, sc, g, M, mod.first[g], M)
    BY <1>8, <1>9, <2>1, <2>4 DEF SearchInv, Carries
  <2>6. ASSUME NEW q \in sc, NEW g \in Functions, q[1] \in Flow(g), ~Pending(st2, 2, q)
        PROVE  Settled(st2, sc, fc, g, q) /\ RetKept(st2, fc, g, q)
    <3>1. ~Pending(st, 1, q)
      <4>1. \A i \in 1..Len(st) : i + 1 \in 2..Len(st2) /\ st2[i + 1] = st[i]
        BY <1>3
      <4> QED
        BY <2>6, <4>1 DEF Pending
    <3>2. Settled(st, sc, fc, g, q) /\ RetKept(st, fc, g, q)
      BY <2>1, <2>6, <3>1 DEF SearchInv
    <3>3. Settled(st2, sc, fc, g, q)
      BY <1>8, <3>2, SettledGrows
    <3>4. ~(g = f /\ q[2] = L)
      <4>1. PICK h \in Functions : q[1] \in Flow(h) /\ Begun(st, fc, h, q[2])
        BY <2>1 DEF CacheInv
      <4>2. h = g
        BY <2>6, <4>1, FlowOwner
      <4> QED
        BY <4>1, <4>2 DEF Begun, Active
    <3>5. RetKept(st2, fc, g, q)
      BY <1>2, <1>3, <2>2, <3>2, <3>4 DEF RetKept
    <3> QED
      BY <3>3, <3>5
  <2>7. <<f, L, mod.first[f], L>> \in Points
    <3>1. CASE st = <<>>
      <4>1. Entry(mod, f, {}) \subseteq Points
        BY <3>1, PointsFacts DEF Env
      <4> QED
        BY <3>1, <4>1 DEF Entry
    <3>2. CASE st # <<>>
      <4> DEFINE p == PointOf(st[1])
      <4>1. p \in Points /\ p[3] = Head(st[1].todo).at /\ p[4] = L
        BY <1>6, <2>1, <3>2 DEF SoundInv, PointOf
      <4>2. CASE Code(p[3]).op = "call"
        <5>1. Entry(mod, f, L) \subseteq Points
          BY <3>2, <4>1, <4>2, PointsClosed DEF Env
        <5> QED
          BY <5>1 DEF Entry
      <4>3. CASE Code(p[3]).op = "create"
        <5>1. Entry(mod, f, {}) \subseteq Points
          BY <3>2, <4>1, <4>3, PointsClosed DEF Env
        <5>2. L = {}
          BY <1>12, <4>1, <4>3 DEF Regular
        <5> QED
          BY <5>1, <5>2 DEF Entry
      <4> QED
        BY <3>2, <4>1, <4>2, <4>3 DEF CallOps
    <3> QED
      BY <3>1, <3>2
  <2>8. SoundInv(st2, fc)
    <3>1. ASSUME NEW i \in 1..Len(st2)
          PROVE  /\ \A x \in ItemsOf(st2[i]) : <<st2[i].fn, st2[i].entry, x.at, x.locks>> \in Points
                 /\ st2[i].exits \subseteq Exits(mod, Points, st2[i].fn, st2[i].entry)
      <4>1. CASE i = 1
        <5>1. st2[i] = Frame(f, L)
          BY <1>3, <4>1
        <5> QED
          BY <1>2, <2>7, <5>1
      <4>2. CASE i # 1
        BY <2>1, <2>2, <4>2 DEF SoundInv
      <4> QED
        BY <4>1, <4>2
    <3> QED
      BY <2>1, <3>1 DEF SoundInv
  <2> QED
    BY <2>3, <2>5, <2>6, <2>8 DEF SearchInv
<1> QED
  BY <1>9, <1>10, <1>11, <1>12 DEF Core

(* A function without a reachable return has no exits, a declaration has   *)
(* no statements.                                                          *)
LEMMA NoReturnNoExits ==
  ASSUME Env, NEW f \in Functions, ~Returns(mod, f), NEW L
  PROVE  Exits(mod, Points, f, L) = {}
<1>1. SUFFICES ASSUME NEW p \in Points, p[1] = f, mod.code[p[3]].op = "ret"
               PROVE  FALSE
  BY DEF Exits
<1>2. p[3] \in FlowOf[mod][f]
  BY <1>1, PointsInFlow DEF Env
<1> QED
  BY <1>1, <1>2 DEF Returns

LEMMA DeclaredNoReturn ==
  ASSUME Env, NEW f \in Functions, mod.first[f] = NoValue
  PROVE  Flow(f) = {} /\ ~Returns(mod, f)
<1> DEFINE Q == {}
<1>1. mod \in Modules /\ f \in DOMAIN mod.first
  BY DEF Env, Functions
<1>2. /\ mod.first[f] # NoValue => mod.first[f] \in Q
      /\ \A s \in Stmts(mod) : s \in Q => Successors(mod)[s] \subseteq Q
  OBVIOUS
<1> HIDE DEF Q
<1>3. FlowOf[mod][f] \subseteq Q
  BY <1>1, <1>2, FlowLeast
<1> QED
  BY <1>3 DEF Q, Flow, Returns

(* No function that is reached calls one that can come back to it.         *)
LEMMA NoWayBack ==
  ASSUME Env, NonRecursive, NEW f \in Functions, NEW g \in Calls(mod)[f],
         \E r \in Roots(mod, mode) : f \in CalleesOf[mod][r]
  PROVE  f \notin CalleesOf[mod][g]
BY DEF NonRecursive

(* Behind a settled statement every path goes on.                          *)
LEMMA StepSeen ==
  ASSUME Env, Regular, NonRecursive, NEW st, NEW sc, NEW fc,
         SoundInv(st, fc), ExactInv(fc), NEW p \in Points,
         Settled(st, sc, fc, p[1], <<p[3], p[2], p[4]>>),
         NEW s \in Successors(mod)[p[3]], NEW L \in LocksAfter(mod, Points, p)
  PROVE  Seen(st, sc, p[1], p[2], s, L)
<1> DEFINE c == Code(p[3])
           S(M) == Seen(st, sc, p[1], p[2], s, M)
<1>1. /\ p[1] \in Functions /\ p[3] \in Stmts(mod) /\ p[4] \in LockSets(mod)
      /\ p[3] \in FlowOf[mod][p[1]]
      /\ \E r \in Roots(mod, mode) : p[1] \in CalleesOf[mod][r]
  BY PointsInFlow DEF Env, AllPoints, Functions
<1>2. CASE c.op \notin CallOps
  <2>1. S(Straight(p[3], p[4]))
    BY <1>2 DEF Settled
  <2>2. L = Straight(p[3], p[4])
    BY <1>2 DEF LocksAfter, Straight, Code, CallOps
  <2> QED
    BY <2>1, <2>2
<1>3. CASE c.op \in CallOps
  <2>1. c.fn \in Functions /\ c.fn \in Calls(mod)[p[1]]
    BY <1>1, <1>3, CallFacts DEF Env, Functions, Code
  <2>2. p[1] \notin CalleesOf[mod][c.fn]
    BY <1>1, <2>1, NoWayBack
  <2>3. CASE mod.first[c.fn] = NoValue
    <3>1. S(p[4])
      BY <1>3, <2>3 DEF Settled
    <3>2. Exits(mod, Points, c.fn, p[4]) = {}
      BY <2>1, <2>3, DeclaredNoReturn, NoReturnNoExits
    <3>3. L = p[4]
      BY <1>3, <3>2 DEF LocksAfter, CallOps, Code
    <3> QED
      BY <3>1, <3>3
  <2>4. CASE mod.first[c.fn] # NoValue
    <3>1. PICK e \in fc : e.fn = c.fn /\ e.entry = p[4] /\ \A M \in Going(e.exits, p[4]) : S(M)
      BY <1>3, <2>4 DEF Settled
    <3>2. e.exits = Exits(mod, Points, c.fn, p[4])
      BY <3>1 DEF SoundInv, ExactInv
    <3>3. CASE c.op = "call"
      <4>1. CASE L \in e.exits
        BY <3>1, <4>1 DEF Going
      <4>2. CASE L \notin e.exits
        <5>1. ~Returns(mod, c.fn) /\ L = p[4]
          BY <2>2, <3>2, <3>3, <4>2 DEF LocksAfter, Code
        <5>2. e.exits = {}
          BY <2>1, <3>2, <5>1, NoReturnNoExits
        <5> QED
          BY <3>1, <5>1, <5>2 DEF Going
      <4> QED
        BY <4>1, <4>2
    <3>4. CASE c.op = "create"
      <4>1. p[4] = {} /\ Exits(mod, Points, c.fn, {}) \subseteq {{}}
        BY <3>4 DEF Regular
      <4>2. L = p[4]
        BY <3>4 DEF LocksAfter, Code
      <4>3. Going(e.exits, p[4]) = {p[4]}
        BY <3>2, <4>1 DEF Going
      <4> QED
        BY <3>1, <4>2, <4>3
    <3> QED
      BY <1>3, <3>3, <3>4 DEF CallOps
  <2> QED
    BY <2>3, <2>4
<1> QED
  BY <1>2, <1>3

LEMMA Popped ==
  ASSUME NEW T, NEW st \in Seq(T), st # <<>>, NEW st2, st2 = Tail(st)
  PROVE  /\ st2 \in Seq(T) /\ Len(st2) = Len(st) - 1 /\ Len(st2) \in Nat
         /\ Len(st) >= 1 /\ st[1] \in T
         /\ \A i \in 1..Len(st2) : st2[i] = st[i + 1] /\ i + 1 \in 2..Len(st)
         /\ \A i \in 2..Len(st) : st2[i - 1] = st[i] /\ i - 1 \in 1..Len(st2)
OBVIOUS

(* The whole function has been visited: no item is left in the top frame,  *)
(* so what was seen in it is in the cache and what is in the cache, done.  *)
LEMMA TopDone ==
  ASSUME Env, Regular, NEW st, NEW sc, NEW fc, Core(st, sc, fc, 2), st # <<>>, st[1].todo = <<>>,
         NEW f, f = st[1].fn, NEW L0, L0 = st[1].entry
  PROVE  /\ <<mod.first[f], L0, L0>> \in sc
         /\ \A s, L : Seen(st, sc, f, L0, s, L) => <<s, L0, L>> \in sc
         /\ \A s \in Flow(f) : \A L : <<s, L0, L>> \in sc =>
              /\ Settled(st, sc, fc, f, <<s, L0, L>>)
              /\ Code(s).op = "ret" => L \in st[1].exits
<1>1. /\ CoreTypes(st, sc, fc) /\ StackInv(st, sc, 2) /\ CacheInv(st, sc, fc)
      /\ SearchInv(st, sc, fc, 2)
  BY DEF Core
<1>2. /\ Len(st) \in Nat /\ Len(st) >= 1 /\ 1 \in 1..Len(st)
      /\ \A i \in 1..Len(st) : st[i] \in FrameType
  BY <1>1 DEF CoreTypes
<1>3. f \in Functions /\ L0 \in LockSets(mod)
  BY <1>2, FrameFacts
<1>4. \A i \in 1..Len(st) : st[i].fn = f => i = 1
  BY <1>1, <1>2 DEF StackInv
<1>5. ItemsOf(st[1]) = {}
  BY DEF ItemsOf
<1>6. \A s, L : Seen(st, sc, f, L0, s, L) => <<s, L0, L>> \in sc
  BY <1>4, <1>5 DEF Seen
<1>7. <<mod.first[f], L0, L0>> \in sc
  <2>1. Begun(st, fc, f, L0)
    BY <1>2 DEF Begun, Active
  <2> QED
    BY <1>1, <1>3, <1>6, <2>1 DEF SearchInv
<1>8. ASSUME NEW s \in Flow(f), NEW L, <<s, L0, L>> \in sc
      PROVE  /\ Settled(st, sc, fc, f, <<s, L0, L>>)
             /\ Code(s).op = "ret" => L \in st[1].exits
  <2> DEFINE q == <<s, L0, L>>
  <2>1. ~Pending(st, 2, q)
    <3>1. SUFFICES ASSUME NEW i \in 2..Len(st), q = KeyOf(st[i]) PROVE FALSE
      BY DEF Pending
    <3>2. i \in 1..Len(st) /\ i # 1
      BY <1>2
    <3>3. st[i].todo # <<>>
      BY <1>1 DEF StackInv
    <3>4. st[i].fn \in Functions /\ Head(st[i].todo) \in ItemsOf(st[i])
      BY <1>2, <3>2, <3>3, FrameFacts
    <3>5. s \in Flow(st[i].fn)
      <4>1. s = Head(st[i].todo).at
        BY <3>1 DEF KeyOf
      <4> QED
        BY <1>1, <3>2, <3>4, <4>1 DEF StackInv
    <3>6. st[i].fn = f
      BY <1>3, <3>4, <3>5, FlowOwner
    <3> QED
      BY <1>4, <3>2, <3>6
  <2>2. q \in sc /\ q[1] \in Flow(f)
    BY <1>8
  <2>3. Settled(st, sc, fc, f, q) /\ RetKept(st, fc, f, q)
    BY <1>1, <1>3, <2>1, <2>2 DEF SearchInv
  <2> QED
    BY <1>2, <2>3 DEF RetKept
<1> QED
  BY <1>6, <1>7, <1>8

(* If no exit was met there is no return to be met.                        *)
LEMMA NoExitNoReturn ==
  ASSUME Env, Regular, NEW st, NEW sc, NEW fc, Core(st, sc, fc, 2), st # <<>>, st[1].todo = <<>>
  PROVE  st[1].exits = {} => ~Returns(mod, st[1].fn)
<1> DEFINE f == st[1].fn
           L0 == st[1].entry
           Q == {s \in Flow(f) : \E L : <<s, L0, L>> \in sc}
<1>1. /\ <<mod.first[f], L0, L0>> \in sc
      /\ \A s, L : Seen(st, sc, f, L0, s, L) => <<s, L0, L>> \in sc
      /\ \A s \in Flow(f) : \A L : <<s, L0, L>> \in sc =>
           /\ Settled(st, sc, fc, f, <<s, L0, L>>)
           /\ Code(s).op = "ret" => L \in st[1].exits
  BY TopDone, SMTT(60)
<1>2. f \in Functions
  <2>1. st[1] \in FrameType
    BY DEF Core, CoreTypes
  <2> QED
    BY <2>1, FrameFacts
<1>3. /\ mod.first[f] # NoValue => mod.first[f] \in Flow(f)
      /\ \A s \in Flow(f) : Successors(mod)[s] \subseteq Flow(f)
  BY <1>2, FlowFacts DEF Env, Functions, Flow
<1>4. mod.first[f] # NoValue => mod.first[f] \in Q
  BY <1>1, <1>3
<1>5. ASSUME NEW s \in Q, NEW t \in Successors(mod)[s] PROVE t \in Q
  <2>1. PICK L : <<s, L0, L>> \in sc
    OBVIOUS
  <2>2. Settled(st, sc, fc, f, <<s, L0, L>>)
    BY <1>1, <2>1
  <2>3. \E M : Seen(st, sc, f, L0, t, M)
    BY <2>2 DEF Settled
  <2> QED
    BY <1>1, <1>3, <2>3
<1>6. FlowOf[mod][f] \subseteq Q
  <2> HIDE DEF Q, f
  <2> QED
    BY <1>2, <1>4, <1>5, FlowLeast DEF Env, Functions
<1>7. SUFFICES ASSUME st[1].exits = {}, NEW s \in FlowOf[mod][f], mod.code[s].op = "ret"
               PROVE  FALSE
  BY DEF Returns
<1> QED
  BY <1>1, <1>6, <1>7 DEF Code

(* Every exit of the paths was met.                                        *)
LEMMA AllExitsMet ==
  ASSUME Env, Regular, NonRecursive, NEW st, NEW sc, NEW fc, Core(st, sc, fc, 2),
         st # <<>>, st[1].todo = <<>>
  PROVE  Exits(mod, Points, st[1].fn, st[1].entry) \subseteq st[1].exits
<1> DEFINE f == st[1].fn
           L0 == st[1].entry
           Q == {p \in AllPoints(mod) : p[1] = f /\ p[2] = L0 => <<p[3], L0, p[4]>> \in sc}
<1>1. /\ <<mod.first[f], L0, L0>> \in sc
      /\ \A s, L : Seen(st, sc, f, L0, s, L) => <<s, L0, L>> \in sc
      /\ \A s \in Flow(f) : \A L : <<s, L0, L>> \in sc =>
           /\ Settled(st, sc, fc, f, <<s, L0, L>>)
           /\ Code(s).op = "ret" => L \in st[1].exits
  BY TopDone
<1>2. \A g, L : Entry(mod, g, L) \subseteq AllPoints(mod) => Entry(mod, g, L) \subseteq Q
  BY <1>1 DEF Entry
<1>3. \A r \in Roots(mod, mode) : Entry(mod, r, {}) \subseteq Q
  <2> HIDE DEF Q
  <2> QED
    BY <1>2, PointsFacts DEF Env
<1>4. ASSUME NEW p \in Points, p \in Q PROVE After(mod, Points, p) \subseteq Q
  <2>1. \A s \in Successors(mod)[p[3]], L \in LocksAfter(mod, Points, p) :
          <<p[1], p[2], s, L>> \in AllPoints(mod)
    BY PointsClosed, PointsFacts DEF Env
  <2>2. ASSUME NEW s \in Successors(mod)[p[3]], NEW L \in LocksAfter(mod, Points, p),
               p[1] = f, p[2] = L0
        PROVE  <<s, L0, L>> \in sc
    <3>1. <<p[3], L0, p[4]>> \in sc
      BY <1>4, <2>2
    <3>2. p[3] \in Flow(f)
      BY <2>2, PointsInFlow DEF Env, Flow
    <3>3. Settled(st, sc, fc, f, <<p[3], L0, p[4]>>)
      BY <1>1, <3>1, <3>2
    <3>4. SoundInv(st, fc) /\ ExactInv(fc)
      BY DEF Core
    <3>5. Seen(st, sc, p[1], p[2], s, L)
      BY <2>2, <3>3, <3>4, StepSeen
    <3> QED
      BY <1>1, <2>2, <3>5
  <2>3. {<<p[1], p[2], s, L>> : s \in Successors(mod)[p[3]], L \in LocksAfter(mod, Points, p)}
          \subseteq Q
    BY <2>1, <2>2
  <2>4. /\ Code(p[3]).op = "call" => Entry(mod, Code(p[3]).fn, p[4]) \subseteq Q
        /\ Code(p[3]).op = "create" => Entry(mod, Code(p[3]).fn, {}) \subseteq Q
    <3>1. Points \subseteq AllPoints(mod)
      BY PointsFacts DEF Env
    <3> HIDE DEF Q
    <3> QED
      BY <1>2, <3>1, PointsClosed DEF Env
  <2> HIDE DEF Q
  <2> QED
    BY <2>3, <2>4 DEF After, Code
<1>5. Points \subseteq Q
  <2> HIDE DEF Q
  <2> QED
    BY <1>3, <1>4, PointsLeast DEF Env
<1>6. SUFFICES ASSUME NEW p \in Points, p[1] = f, p[2] = L0, mod.code[p[3]].op = "ret"
               PROVE  p[4] \in st[1].exits
  BY DEF Exits
<1>7. p[3] \in Flow(f)
  BY <1>6, PointsInFlow DEF Env, Flow
<1>8. <<p[3], L0, p[4]>> \in sc
  BY <1>5, <1>6
<1> QED
  BY <1>1, <1>6, <1>7, <1>8 DEF Code

(* A function is left: its summary is cached.                              *)
Pops(st, st2, sc, fc, fc2, e) ==
  /\ Core(st, sc, fc, 2) /\ st # <<>> /\ st[1].todo = <<>>
  /\ e = [fn |-> st[1].fn, entry |-> st[1].entry, exits |-> st[1].exits]
  /\ fc2 = fc \cup {e} /\ st2 = Tail(st)

LEMMA Pop ==
  ASSUME Env, NEW st, NEW st2, NEW sc, NEW fc, NEW fc2, NEW e, Pops(st, st2, sc, fc, fc2, e)
  PROVE  /\ Core(st2, sc, fc2, 1)
         /\ \A g, M : Begun(st, fc, g, M) => Begun(st2, fc2, g, M)
<1> SUFFICES
      ASSUME Core(st, sc, fc, 2), st # <<>>, st[1].todo = <<>>,
             e = [fn |-> st[1].fn, entry |-> st[1].entry, exits |-> st[1].exits],
             fc2 = fc \cup {e}, st2 = Tail(st)
      PROVE  /\ Core(st2, sc, fc2, 1)
             /\ \A g, M : Begun(st, fc, g, M) => Begun(st2, fc2, g, M)
  BY DEF Pops
<1>1. CoreTypes(st, sc, fc) /\ StackInv(st, sc, 2)
  BY DEF Core
<1>2. /\ st2 \in Seq(FrameType) /\ Len(st2) = Len(st) - 1 /\ Len(st2) \in Nat
      /\ Len(st) >= 1 /\ st[1] \in FrameType
      /\ \A i \in 1..Len(st2) : st2[i] = st[i + 1] /\ i + 1 \in 2..Len(st)
      /\ \A i \in 2..Len(st) : st2[i - 1] = st[i] /\ i - 1 \in 1..Len(st2)
  BY <1>1, Popped DEF CoreTypes
<1>3. /\ e.fn = st[1].fn /\ e.entry = st[1].entry /\ e.exits = st[1].exits
      /\ e \in SummaryType
  BY <1>2, FrameFacts DEF SummaryType
<1>4. CoreTypes(st2, sc, fc2)
  BY <1>1, <1>2, <1>3 DEF CoreTypes
<1>5. \A i \in 1..Len(st2) : i + 1 \in 1..Len(st)
  BY <1>2
<1>6. \A i \in 1..Len(st2) : st2[i].fn # st[1].fn
  <2>1. \A i \in 1..Len(st2) : i + 1 # 1 /\ 1 \in 1..Len(st)
    BY <1>2
  <2> QED
    BY <1>1, <1>2, <1>5, <2>1 DEF StackInv
<1>7. StackInv(st2, sc, 1)
  <2>1. ASSUME NEW i \in 1..Len(st2)
        PROVE  /\ mod.first[st2[i].fn] # NoValue
               /\ \A x \in ItemsOf(st2[i]) : x.at \in Flow(st2[i].fn)
               /\ \E r \in Roots(mod, mode) : st2[i].fn \in CalleesOf[mod][r]
               /\ \A j \in 1..i : st2[j].fn \in CalleesOf[mod][st2[i].fn]
               /\ \A j \in 1..Len(st2) : st2[i].fn = st2[j].fn => i = j
               /\ st2[i].todo # <<>> /\ KeyOf(st2[i]) \in sc
    <3>1. st2[i] = st[i + 1] /\ i + 1 \in 1..Len(st) /\ i + 1 \in 2..Len(st)
      BY <1>2, <1>5
    <3>2. \A j \in 1..i : j + 1 \in 1..(i + 1) /\ j \in 1..Len(st2)
      BY <1>2
    <3>3. \A j \in 1..i : st2[j].fn \in CalleesOf[mod][st2[i].fn]
      BY <1>1, <1>2, <3>1, <3>2 DEF StackInv
    <3>4. ASSUME NEW j \in 1..Len(st2), st2[i].fn = st2[j].fn PROVE i = j
      <4>1. st2[j] = st[j + 1] /\ j + 1 \in 1..Len(st)
        BY <1>2, <1>5
      <4>2. i + 1 = j + 1
        BY <1>1, <3>1, <3>4, <4>1 DEF StackInv
      <4> QED
        BY <4>2
    <3> QED
      BY <1>1, <3>1, <3>3, <3>4 DEF StackInv
  <2>2. ASSUME NEW i \in 2..Len(st2)
        PROVE  /\ Code(Head(st2[i].todo).at).op \in CallOps
               /\ Code(Head(st2[i].todo).at).fn = st2[i - 1].fn
               /\ Head(st2[i].todo).locks = st2[i - 1].entry
    <3>1. i \in 1..Len(st2) /\ i - 1 \in 1..Len(st2) /\ (i - 1) + 1 = i /\ (i + 1) - 1 = i
      BY <1>2
    <3>2. st2[i] = st[i + 1] /\ i + 1 \in 2..Len(st) /\ st2[i - 1] = st[(i + 1) - 1]
      BY <1>2, <3>1
    <3>3. /\ Code(Head(st[i + 1].todo).at).op \in CallOps
          /\ Code(Head(st[i + 1].todo).at).fn = st[(i + 1) - 1].fn
          /\ Head(st[i + 1].todo).locks = st[(i + 1) - 1].entry
      BY <1>1, <3>2 DEF StackInv
    <3> QED
      BY <3>2, <3>3
  <2> QED
    BY <2>1, <2>2 DEF StackInv
<1>8. \A g, M : Begun(st2, fc2, g, M) <=> Begun(st, fc, g, M)
  <2> SUFFICES ASSUME NEW g, NEW M PROVE Begun(st2, fc2, g, M) <=> Begun(st, fc, g, M)
    OBVIOUS
  <2>1. Summarised(fc2, g, M) <=> Summarised(fc, g, M) \/ (g = st[1].fn /\ M = st[1].entry)
    BY <1>3 DEF Summarised
  <2>2. ASSUME Active(st, g, M) PROVE Active(st2, g, M) \/ (g = st[1].fn /\ M = st[1].entry)
    <3>1. PICK i \in 1..Len(st) : st[i].fn = g /\ st[i].entry = M
      BY <2>2 DEF Active
    <3>2. i = 1 \/ i \in 2..Len(st)
      BY <1>2
    <3> QED
      BY <1>2, <3>1, <3>2 DEF Active
  <2>3. ASSUME Active(st2, g, M) PROVE Active(st, g, M)
    BY <1>2, <1>5, <2>3 DEF Active
  <2>4. Active(st, st[1].fn, st[1].entry)
    BY <1>2 DEF Active
  <2> QED
    BY <2>1, <2>2, <2>3, <2>4 DEF Begun
<1>9. Carries(st, sc, st2, sc)
  <2> SUFFICES ASSUME NEW g, NEW L0, NEW s, NEW M, Seen(st, sc, g, L0, s, M)
               PROVE  Seen(st2, sc, g, L0, s, M)
    BY DEF Carries
  <2> SUFFICES ASSUME <<s, L0, M>> \notin sc PROVE Seen(st2, sc, g, L0, s, M)
    BY DEF Seen
  <2>1. PICK i \in 1..Len(st) : /\ st[i].fn = g /\ st[i].entry = L0
                                /\ [at |-> s, locks |-> M] \in ItemsOf(st[i])
    BY DEF Seen
  <2>2. i # 1
    <3>1. ItemsOf(st[1]) = {}
      BY DEF ItemsOf
    <3> QED
      BY <2>1, <3>1
  <2>3. i - 1 \in 1..Len(st2) /\ st2[i - 1] = st[i]
    BY <1>2, <2>2
  <2> QED
    BY <2>1, <2>3 DEF Seen
<1>10. ASSUME Regular PROVE CacheInv(st2, sc, fc2) /\ SearchInv(st2, sc, fc2, 1) /\ SoundInv(st2, fc2)
  <2>1. CacheInv(st, sc, fc) /\ SearchInv(st, sc, fc, 2) /\ SoundInv(st, fc)
    BY <1>10 DEF Core
  <2>2. CacheInv(st2, sc, fc2)
    <3>1. \A q \in sc : \E g \in Functions : q[1] \in Flow(g) /\ Begun(st2, fc2, g, q[2])
      BY <1>8, <2>1 DEF CacheInv
    <3>2. \A i \in 1..Len(st2) : ~Summarised(fc2, st2[i].fn, st2[i].entry)
      <4>1. ASSUME NEW i \in 1..Len(st2) PROVE ~Summarised(fc, st2[i].fn, st2[i].entry)
        BY <1>2, <1>5, <2>1 DEF CacheInv
      <4> QED
        BY <1>3, <1>6, <4>1 DEF Summarised
    <3>3. ~Summarised(fc, st[1].fn, st[1].entry)
      BY <1>2, <2>1 DEF CacheInv
    <3>4. \A a, b \in fc2 : a.fn = b.fn /\ a.entry = b.entry => a = b
      BY <1>3, <2>1, <3>3 DEF CacheInv, Summarised
    <3> QED
      BY <3>1, <3>2, <3>4 DEF CacheInv
  <2>3. \A f \in Functions, L \in LockSets(mod) :
          Begun(st2, fc2, f, L) => Seen(st2, sc, f, L, mod.first[f], L)
    BY <1>8, <1>9, <2>1 DEF SearchInv, Carries
  <2>4. ASSUME NEW q \in sc, NEW f \in Functions, q[1] \in Flow(f), ~Pending(st2, 1, q)
        PROVE  Settled(st2, sc, fc2, f, q) /\ RetKept(st2, fc2, f, q)
    <3>1. ~Pending(st, 2, q)
      BY <1>2, <2>4, ZenonT(60) DEF Pending
    <3>2. Settled(st, sc, fc, f, q) /\ RetKept(st, fc, f, q)
      BY <2>1, <2>4, <3>1 DEF SearchInv
    <3>3. Settled(st2, sc, fc2, f, q)
      <4>1. fc \subseteq fc2
        OBVIOUS
      <4> QED
        BY <1>9, <3>2, <4>1, SettledGrows
    <3>4. RetKept(st2, fc2, f, q)
      <4>1. 1 \in 1..Len(st)
        BY <1>2
      <4> QED
        BY <1>2, <1>3, <1>5, <3>2, <4>1 DEF RetKept
    <3> QED
      BY <3>3, <3>4
  <2>5. SoundInv(st2, fc2)
    <3>1. 1 \in 1..Len(st)
      BY <1>2
    <3>2. e.exits = {} => ~Returns(mod, e.fn)
      BY <1>3, <1>10, NoExitNoReturn
    <3>3. e.exits \subseteq Exits(mod, Points, e.fn, e.entry)
      BY <1>3, <2>1, <3>1 DEF SoundInv
    <3> QED
      BY <1>2, <1>5, <2>1, <3>2, <3>3 DEF SoundInv
  <2> QED
    BY <2>2, <2>3, <2>4, <2>5 DEF SearchInv
<1>11. ASSUME Regular, NonRecursive PROVE ExactInv(fc2)
  <2>1. ExactInv(fc)
    BY <1>11 DEF Core
  <2>2. Exits(mod, Points, e.fn, e.entry) \subseteq e.exits
    BY <1>3, <1>11, AllExitsMet
  <2> QED
    BY <2>1, <2>2 DEF ExactInv
<1> QED
  BY <1>4, <1>7, <1>8, <1>10, <1>11 DEF Core

-----------------------------------------------------------------------------
(* The record of a worker, field by field.                                 *)
Rec(st, sc, fc, mt, pa, ac) ==
  [stack |-> st, stmtCache |-> sc, fnCache |-> fc, mt |-> mt, parent |-> pa, accesses |-> ac]

ParentOK(parent) ==
  DOMAIN parent \subseteq mod.values /\ parent \in [DOMAIN parent -> mod.values]

MarksOK(mt, ac) ==
  /\ mt \in SUBSET Functions /\ ac \in SUBSET AccessType
  /\ Regular => mt \subseteq Multithreaded /\ \A a \in ac : AccessReal(a)

LEMMA RecFields ==
  ASSUME NEW st, NEW sc, NEW fc, NEW mt, NEW pa, NEW ac, NEW o
  PROVE  WorkerAt(Rec(st, sc, fc, mt, pa, ac), o) <=>
           /\ Core(st, sc, fc, o) /\ MarksOK(mt, ac)
           /\ ParentOK(pa) /\ ParentInv(pa)
<1> DEFINE ws == Rec(st, sc, fc, mt, pa, ac)
<1>1. /\ ws.stack = st /\ ws.stmtCache = sc /\ ws.fnCache = fc /\ ws.mt = mt
      /\ ws.parent = pa /\ ws.accesses = ac
  BY DEF Rec
<1>2. ws \in [stack : Seq(FrameType),
              stmtCache : SUBSET (Stmts(mod) \X LockSets(mod) \X LockSets(mod)),
              fnCache : SUBSET SummaryType, mt : SUBSET Functions,
              parent : {ws.parent}, accesses : SUBSET AccessType]
        <=> CoreTypes(st, sc, fc) /\ mt \in SUBSET Functions /\ ac \in SUBSET AccessType
  BY DEF Rec, CoreTypes, Keys
<1> HIDE DEF ws
<1>3. WorkerOK(ws) <=> /\ CoreTypes(st, sc, fc) /\ mt \in SUBSET Functions
                       /\ ac \in SUBSET AccessType /\ ParentOK(pa)
  BY <1>1, <1>2 DEF WorkerOK, ParentOK
<1>4. Core(st, sc, fc, o) => CoreTypes(st, sc, fc)
  BY DEF Core
<1>5. RecordInv(ws) <=> /\ ParentInv(pa)
                        /\ Regular => mt \subseteq Multithreaded /\ \A a \in ac : AccessReal(a)
  BY <1>1 DEF RecordInv
<1>6. WorkerAt(ws, o) <=> WorkerOK(ws) /\ Core(st, sc, fc, o) /\ RecordInv(ws)
  BY <1>1 DEF WorkerAt
<1> QED
  BY <1>3, <1>4, <1>5, <1>6 DEF MarksOK, ws

LEMMA WorkerFields ==
  ASSUME NEW ws, NEW o, WorkerAt(ws, o)
  PROVE  /\ ws = Rec(ws.stack, ws.stmtCache, ws.fnCache, ws.mt, ws.parent, ws.accesses)
         /\ Core(ws.stack, ws.stmtCache, ws.fnCache, o) /\ MarksOK(ws.mt, ws.accesses)
         /\ ParentOK(ws.parent) /\ ParentInv(ws.parent)
<1>1. ws \in [stack : Seq(FrameType),
              stmtCache : SUBSET (Stmts(mod) \X LockSets(mod) \X LockSets(mod)),
              fnCache : SUBSET SummaryType, mt : SUBSET Functions,
              parent : {ws.parent}, accesses : SUBSET AccessType]
  BY DEF WorkerAt, WorkerOK
<1>2. ws = Rec(ws.stack, ws.stmtCache, ws.fnCache, ws.mt, ws.parent, ws.accesses)
  BY <1>1 DEF Rec
<1> QED
  BY <1>1, <1>2 DEF WorkerAt, WorkerOK, RecordInv, MarksOK, ParentOK

LEMMA RecParts ==
  ASSUME NEW st, NEW sc, NEW fc, NEW mt, NEW pa, NEW ac, NEW ws, ws = Rec(st, sc, fc, mt, pa, ac)
  PROVE  /\ ws.stack = st /\ ws.stmtCache = sc /\ ws.fnCache = fc /\ ws.mt = mt
         /\ ws.parent = pa /\ ws.accesses = ac
BY DEF Rec

LEMMA NewCore ==
  ASSUME NEW ws, NEW o, WorkerAt(ws, o), NEW st, NEW sc, NEW fc, NEW o2, Core(st, sc, fc, o2)
  PROVE  WorkerAt(Rec(st, sc, fc, ws.mt, ws.parent, ws.accesses), o2)
<1>1. MarksOK(ws.mt, ws.accesses) /\ ParentOK(ws.parent) /\ ParentInv(ws.parent)
  BY WorkerFields
<1> QED
  BY <1>1, RecFields

(* What a statement looks like.                                            *)
LEMMA CodeFacts ==
  ASSUME Env, NEW s \in Stmts(mod)
  PROVE  /\ Code(s).op \in Ops
         /\ Code(s).op \in {"load", "store", "lock", "unlock", "bitcast"} => Code(s).val \in mod.values
         /\ Code(s).op = "bitcast" => /\ Code(s).arg \in mod.values
                                      /\ \A f \in Functions : mod.formal[f] # Code(s).val
         /\ Code(s).op \in CallOps =>
              /\ Code(s).fn \in Functions
              /\ mod.formal[Code(s).fn] # NoValue => Code(s).arg \in mod.values
         /\ Code(s).op = "ret" => Code(s).succ = <<>>
         /\ Code(s).succ \in Seq(Stmts(mod))
         /\ Successors(mod)[s] = {Code(s).succ[i] : i \in 1..Len(Code(s).succ)}
<1>1. WellFormed(mod)
  BY ModulesAssumption DEF Env
<1>2. Code(s) \in [op : Ops, val : mod.values \cup {NoValue}, arg : mod.values \cup {NoValue},
                   fn : DOMAIN mod.first \cup {NoValue}, succ : Seq(Stmts(mod))]
  BY <1>1 DEF WellFormed, Stmts, Code
<1>3. Successors(mod)[s] = {Code(s).succ[i] : i \in 1..Len(Code(s).succ)}
  <2>1. DOMAIN Code(s).succ = 1..Len(Code(s).succ)
    BY <1>2
  <2> QED
    BY <2>1 DEF Successors, Code
<1>4. ASSUME Code(s).op = "bitcast", NEW f \in Functions, mod.formal[f] = Code(s).val PROVE FALSE
  <2>1. Code(s).val \in mod.values /\ Code(s).arg \in mod.values /\ mod.base[Code(s).val] = Code(s).arg
    BY <1>1, <1>4 DEF WellFormed, Stmts, Code
  <2>2. mod.formal[f] # NoValue => mod.base[mod.formal[f]] = NoValue
    BY <1>1 DEF WellFormed, Functions
  <2> QED
    BY <1>1, <1>4, <2>1, <2>2 DEF WellFormed
<1> QED
  BY <1>1, <1>2, <1>3, <1>4 DEF WellFormed, Stmts, Code, Functions, CallOps

(* getDefOperand yields a value the operand may stand for.                 *)
LEMMA DefOperand ==
  ASSUME Env, NEW parent, ParentOK(parent), ParentInv(parent), NEW v \in mod.values
  PROVE  /\ GetDefOperand(parent, v) \in mod.values
         /\ GetDefOperand(parent, v) \in DenotesOf[mod][v]
         /\ v \notin DOMAIN parent /\ mod.cast[v] = NoValue => GetDefOperand(parent, v) = v
<1> DEFINE S == mod.values \X SUBSET mod.values
           body == DefPass(parent)
           m == Cardinality(mod.values)
           good(u) == /\ u \in DenotesOf[mod][v]
                      /\ v \notin DOMAIN parent /\ mod.cast[v] = NoValue => u = v
           T == {y \in Nat \X S : good(y[2][1])}
<1>1. /\ v \in DenotesOf[mod][v] /\ DenotesOf[mod][v] \subseteq mod.values
      /\ \A u \in DenotesOf[mod][v] : /\ Arguments(mod)[u] \subseteq DenotesOf[mod][v]
                                      /\ mod.cast[u] # NoValue => mod.cast[u] \in DenotesOf[mod][v]
  BY DenotesFacts DEF Env
<1>2. m \in Nat
  BY ModuleFacts, FS_CardinalityType DEF Env
<1>3. body \in [S -> S]
  <2>1. ASSUME NEW u \in mod.values PROVE mod.cast[u] \in mod.values \cup {NoValue}
    BY ModulesAssumption DEF Env, WellFormed
  <2> QED
    BY <2>1 DEF DefPass, ParentOK
<1>4. <<v, {}>> \in S
  OBVIOUS
<1>5. ASSUME NEW x \in S, good(x[1]) PROVE good(body[x][1])
  <2> DEFINE u == x[1]
             bound == u \in DOMAIN parent /\ parent[u] \notin x[2] \cup {u}
  <2>1. CASE u \in x[2]
    <3>1. body[x] = x
      BY <2>1 DEF DefPass
    <3> QED
      BY <1>5, <3>1
  <2>2. CASE u \notin x[2] /\ bound
    <3>1. body[x][1] = parent[u]
      BY <2>2 DEF DefPass
    <3>2. parent[u] \in Arguments(mod)[u]
      BY <2>2 DEF ParentInv
    <3> QED
      BY <1>1, <1>5, <2>2, <3>1, <3>2
  <2>3. CASE u \notin x[2] /\ ~bound /\ mod.cast[u] # NoValue
    <3>1. body[x][1] = mod.cast[u]
      BY <2>3 DEF DefPass
    <3> QED
      BY <1>1, <1>5, <2>3, <3>1
  <2>4. CASE u \notin x[2] /\ ~bound /\ mod.cast[u] = NoValue
    <3>1. body[x][1] = u
      BY <2>4 DEF DefPass
    <3> QED
      BY <1>5, <3>1
  <2> QED
    BY <2>1, <2>2, <2>3, <2>4
<1>6. <<0, <<v, {}>>>> \in T
  BY <1>1, <1>4
<1>7. \A k \in Nat, x \in S : k < m /\ <<k, x>> \in T => <<k + 1, body[x]>> \in T
  <2>1. SUFFICES ASSUME NEW k \in Nat, NEW x \in S, <<k, x>> \in T PROVE <<k + 1, body[x]>> \in T
    OBVIOUS
  <2>2. good(x[1])
    BY <2>1
  <2>3. good(body[x][1])
    BY <1>5, <2>2
  <2>4. <<k + 1, body[x]>> \in Nat \X S
    BY <1>3
  <2> QED
    BY <2>3, <2>4
<1> HIDE DEF S, body, m, T, good
<1>8. \A k \in 0 .. m : <<k, Repeat(body, <<v, {}>>, k)>> \in T
  BY <1>2, <1>3, <1>4, <1>6, <1>7, LoopInvariant
<1>9. <<m, Repeat(body, <<v, {}>>, m)>> \in T
  <2>1. m \in 0 .. m
    BY <1>2
  <2> QED
    BY <1>8, <2>1
<1>10. Repeat(body, <<v, {}>>, m) \in S /\ good(Repeat(body, <<v, {}>>, m)[1])
  BY <1>9 DEF T
<1>11. GetDefOperand(parent, v) = Repeat(body, <<v, {}>>, m)[1]
  BY DEF GetDefOperand, body, m
<1>12. Repeat(body, <<v, {}>>, m)[1] \in mod.values
  BY <1>10 DEF S
<1> QED
  BY <1>10, <1>11, <1>12 DEF good

(* Two facts about sequences that Follow is built from: every pair of an   *)
(* element of each, and a first element replaced by a sequence.            *)
Els(s) == {s[i] : i \in 1..Len(s)}

Inner(n, k) == ((k - 1) % n) + 1
Outer(n, k) == ((k - 1) \div n) + 1

PairAt(succ, order, k) ==
  [at |-> succ[((k - 1) % Len(succ)) + 1], locks |-> order[((k - 1) \div Len(succ)) + 1]]
PairSeq(succ, order) == [k \in 1..(Len(succ) * Len(order)) |-> PairAt(succ, order, k)]

LEMMA IndexOf ==
  ASSUME NEW n \in Nat, NEW l \in Nat, NEW k \in 1..(n * l)
  PROVE  ((k - 1) % n) + 1 \in 1..n /\ ((k - 1) \div n) + 1 \in 1..l
<1>1. n \in Nat \ {0}
  OBVIOUS
<1> QED
  BY <1>1

LEMMA IndexTo ==
  ASSUME NEW n \in Nat, NEW l \in Nat, NEW j \in 1..n, NEW i \in 1..l
  PROVE  \E k \in 1..(n * l) : Inner(n, k) = j /\ Outer(n, k) = i
<1>1. n \in Nat \ {0} /\ l \in Nat \ {0}
  OBVIOUS
<1> DEFINE k == (i - 1) * n + j
<1>2. k \in 1..(n * l)
  BY <1>1
<1>3. ((k - 1) % n) + 1 = j /\ ((k - 1) \div n) + 1 = i
  BY <1>1
<1> HIDE DEF k
<1> QED
  BY <1>2, <1>3 DEF Inner, Outer

LEMMA Pairs ==
  ASSUME NEW A, NEW B, NEW succ \in Seq(A), NEW order \in Seq(B)
  PROVE  /\ PairSeq(succ, order) \in Seq([at : A, locks : B])
         /\ \A y \in Els(succ), z \in Els(order) :
              [at |-> y, locks |-> z] \in Els(PairSeq(succ, order))
         /\ \A x \in Els(PairSeq(succ, order)) : x.at \in Els(succ) /\ x.locks \in Els(order)
<1> DEFINE n == Len(succ)
           l == Len(order)
           m == n * l
           P(k) == PairAt(succ, order, k)
<1>1. n \in Nat /\ l \in Nat
  OBVIOUS
<1>2. (\A j \in 1..n : succ[j] \in A) /\ (\A i \in 1..l : order[i] \in B)
  OBVIOUS
<1>3. Els(succ) = {succ[j] : j \in 1..n} /\ Els(order) = {order[i] : i \in 1..l}
  BY DEF Els
<1>4. PairSeq(succ, order) = [k \in 1..m |-> P(k)]
  BY DEF PairSeq
<1>5. \A k : P(k) = [at |-> succ[((k - 1) % n) + 1], locks |-> order[((k - 1) \div n) + 1]]
  BY DEF PairAt
<1>6. m \in Nat
  <2> HIDE DEF n, l
  <2> QED
    BY <1>1
<1> HIDE DEF n, l, P
<1>7. ASSUME NEW k \in 1..m
      PROVE  P(k).at \in Els(succ) /\ P(k).locks \in Els(order) /\ P(k) \in [at : A, locks : B]
  <2> DEFINE j == ((k - 1) % n) + 1
             i == ((k - 1) \div n) + 1
  <2>1. j \in 1..n /\ i \in 1..l
    BY <1>1, IndexOf
  <2>2. P(k) = [at |-> succ[j], locks |-> order[i]]
    BY <1>5
  <2> HIDE DEF j, i
  <2> QED
    BY <1>2, <1>3, <2>1, <2>2
<1>8. ASSUME NEW y \in Els(succ), NEW z \in Els(order)
      PROVE  \E k \in 1..m : P(k) = [at |-> y, locks |-> z]
  <2>1. PICK j \in 1..n : y = succ[j]
    BY <1>3
  <2>2. PICK i \in 1..l : z = order[i]
    BY <1>3
  <2>3. PICK k \in 1..m : Inner(n, k) = j /\ Outer(n, k) = i
    BY <1>1, IndexTo, ZenonT(60)
  <2>4. P(k) = [at |-> succ[((k - 1) % n) + 1], locks |-> order[((k - 1) \div n) + 1]]
    BY <1>5
  <2> HIDE DEF m
  <2> QED
    BY <2>1, <2>2, <2>3, <2>4 DEF Inner, Outer
<1> DEFINE s == PairSeq(succ, order)
<1> HIDE DEF m, s
<1>9. DOMAIN s = 1..m /\ \A k \in 1..m : s[k] = P(k)
  BY <1>4 DEF s
<1>10. s \in Seq([at : A, locks : B]) /\ Len(s) = m
  <2> DEFINE T == [at : A, locks : B]
  <2>1. s \in [1..m -> T]
    BY <1>4, <1>7 DEF s
  <2> HIDE DEF T
  <2>2. s \in Seq(T) /\ Len(s) = m
    BY <1>6, <2>1
  <2> QED
    BY <2>2 DEF T
<1>11. \A x \in Els(s) : \E k \in 1..m : x = P(k)
  BY <1>9, <1>10 DEF Els
<1>12. \A k \in 1..m : P(k) \in Els(s)
  BY <1>9, <1>10 DEF Els
<1>13. \A x \in Els(s) : x.at \in Els(succ) /\ x.locks \in Els(order)
  BY <1>7, <1>11
<1>14. \A y \in Els(succ), z \in Els(order) : [at |-> y, locks |-> z] \in Els(s)
  BY <1>8, <1>12
<1> QED
  BY <1>10, <1>13, <1>14 DEF s

LEMMA Spliced ==
  ASSUME NEW T, NEW a \in Seq(T), NEW b \in Seq(T), b # <<>>, NEW c, c = a \o Tail(b)
  PROVE  /\ c \in Seq(T)
         /\ Els(a) \subseteq Els(c)
         /\ \A y \in Els(b) : y = Head(b) \/ y \in Els(c)
         /\ \A y \in Els(c) : y \in Els(a) \/ y \in Els(b)
<1> DEFINE t == Tail(b)
<1>1. /\ t \in Seq(T) /\ Len(t) = Len(b) - 1 /\ Len(b) \in Nat /\ Len(b) >= 1
      /\ \A j \in 1..Len(t) : t[j] = b[j + 1]
      /\ Head(b) = b[1]
  OBVIOUS
<1>2. c = a \o t
  OBVIOUS
<1> HIDE DEF t
<1>3. /\ c \in Seq(T) /\ Len(c) = Len(a) + Len(t) /\ Len(a) \in Nat /\ Len(t) \in Nat
      /\ \A i \in 1..Len(c) : c[i] = IF i <= Len(a) THEN a[i] ELSE t[i - Len(a)]
  <2>1. t \in Seq(T)
    BY <1>1
  <2>2. /\ a \o t \in Seq(T) /\ Len(a \o t) = Len(a) + Len(t)
        /\ \A i \in 1..(Len(a) + Len(t)) : (a \o t)[i] = IF i <= Len(a) THEN a[i] ELSE t[i - Len(a)]
    BY <2>1, ConcatProperties
  <2>3. Len(a) \in Nat /\ Len(t) \in Nat
    BY <2>1
  <2> QED
    BY <1>2, <2>2, <2>3
<1>4. Els(a) \subseteq Els(c)
  <2>1. \A j \in 1..Len(a) : j \in 1..Len(c) /\ c[j] = a[j]
    BY <1>3
  <2> QED
    BY <2>1 DEF Els
<1>5. ASSUME NEW j \in 1..Len(b), j # 1 PROVE b[j] \in Els(c)
  <2> DEFINE i == Len(a) + (j - 1)
  <2>1. i \in 1..Len(c) /\ ~(i <= Len(a)) /\ i - Len(a) = j - 1 /\ j - 1 \in 1..Len(t)
    BY <1>1, <1>3, <1>5
  <2>2. c[i] = t[j - 1] /\ t[j - 1] = b[(j - 1) + 1] /\ (j - 1) + 1 = j
    BY <1>1, <1>3, <2>1
  <2> HIDE DEF i
  <2> QED
    BY <2>1, <2>2 DEF Els
<1>6. ASSUME NEW i \in 1..Len(c) PROVE c[i] \in Els(a) \/ c[i] \in Els(b)
  <2>1. CASE i <= Len(a)
    BY <1>3, <2>1 DEF Els
  <2>2. CASE ~(i <= Len(a))
    <3>1. i - Len(a) \in 1..Len(t) /\ c[i] = t[i - Len(a)]
      BY <1>3, <2>2
    <3>2. (i - Len(a)) + 1 \in 1..Len(b) /\ c[i] = b[(i - Len(a)) + 1]
      BY <1>1, <3>1
    <3> QED
      BY <3>2 DEF Els
  <2> QED
    BY <2>1, <2>2
<1>7. \A y \in Els(b) : y = Head(b) \/ y \in Els(c)
  BY <1>1, <1>5 DEF Els
<1>8. \A y \in Els(c) : y \in Els(a) \/ y \in Els(b)
  BY <1>6 DEF Els
<1> QED
  BY <1>3, <1>4, <1>7, <1>8

(* Follow puts every pair of a successor and a lock set into the top frame *)
(* in place of its first item.                                             *)
LEMMA FollowFacts ==
  ASSUME Env, NEW ws, NEW o, WorkerAt(ws, o), ws.stack # <<>>, ws.stack[1].todo # <<>>,
         NEW order \in Seq(LockSets(mod))
  PROVE  \E G \in FrameType :
           /\ Follow(ws, order) = Rec([ws.stack EXCEPT ![1] = G], ws.stmtCache, ws.fnCache,
                                      ws.mt, ws.parent, ws.accesses)
           /\ G.fn = ws.stack[1].fn /\ G.entry = ws.stack[1].entry
           /\ G.exits = ws.stack[1].exits
           /\ \A x \in ItemsOf(ws.stack[1]) : x = Head(ws.stack[1].todo) \/ x \in ItemsOf(G)
           /\ \A x \in ItemsOf(G) :
                \/ x \in ItemsOf(ws.stack[1])
                \/ /\ x.at \in Successors(mod)[Head(ws.stack[1].todo).at]
                   /\ x.locks \in Els(order)
           /\ \A s \in Successors(mod)[Head(ws.stack[1].todo).at], L \in Els(order) :
                [at |-> s, locks |-> L] \in ItemsOf(G)
<1> DEFINE F == ws.stack[1]
           x0 == Head(F.todo)
           succ == Code(x0.at).succ
           new == PairSeq(succ, order)
           G == [F EXCEPT !.todo = new \o Tail(@)]
<1>1. Core(ws.stack, ws.stmtCache, ws.fnCache, o) /\ ws = Rec(ws.stack, ws.stmtCache, ws.fnCache, ws.mt, ws.parent, ws.accesses)
  BY WorkerFields
<1>2. ws.stack \in Seq(FrameType) /\ F \in FrameType
  BY <1>1 DEF Core, CoreTypes
<1>3. /\ F.todo \in Seq(ItemType) /\ x0 \in ItemsOf(F) /\ x0.at \in Stmts(mod)
      /\ F.fn \in Functions
  BY <1>2, FrameFacts, SMTT(60)
<1>4. /\ succ \in Seq(Stmts(mod))
      /\ Successors(mod)[x0.at] = {succ[i] : i \in 1..Len(succ)}
  BY <1>3, CodeFacts
<1>5. /\ new \in Seq(ItemType)
      /\ \A y \in Els(succ), z \in Els(order) : [at |-> y, locks |-> z] \in Els(new)
      /\ \A x \in Els(new) : x.at \in Els(succ) /\ x.locks \in Els(order)
  <2>1. succ \in Seq(Stmts(mod)) /\ ItemType = [at : Stmts(mod), locks : LockSets(mod)]
    BY <1>4 DEF ItemType
  <2> HIDE DEF succ
  <2> QED
    BY <2>1, Pairs
<1>6. Follow(ws, order) = [ws EXCEPT !.stack[1].todo = new \o Tail(@)]
  BY SMTT(60) DEF Follow, Item, Top, PairSeq, PairAt
<1> HIDE DEF new
<1> DEFINE c == new \o Tail(F.todo)
<1>7. F.todo # <<>> /\ c = new \o Tail(F.todo) /\ G = [F EXCEPT !.todo = c]
  OBVIOUS
<1> HIDE DEF F, c, G
<1>8. /\ c \in Seq(ItemType) /\ Els(new) \subseteq Els(c)
      /\ \A y \in Els(F.todo) : y = x0 \/ y \in Els(c)
      /\ \A y \in Els(c) : y \in Els(new) \/ y \in Els(F.todo)
  <2> DEFINE b == F.todo
  <2>1. new \in Seq(ItemType)
    BY <1>5
  <2>2. b \in Seq(ItemType)
    BY <1>3
  <2>3. b # <<>> /\ c = new \o Tail(b) /\ x0 = Head(b)
    BY <1>7
  <2> HIDE DEF b, x0
  <2>4. /\ c \in Seq(ItemType) /\ Els(new) \subseteq Els(c)
        /\ \A y \in Els(b) : y = Head(b) \/ y \in Els(c)
        /\ \A y \in Els(c) : y \in Els(new) \/ y \in Els(b)
    BY <2>1, <2>2, <2>3, Spliced
  <2> QED
    BY <2>3, <2>4 DEF b
<1>9. /\ G \in FrameType /\ G.todo = c
      /\ G.fn = F.fn /\ G.entry = F.entry /\ G.exits = F.exits
  BY <1>2, <1>7, <1>8 DEF FrameType
<1>10. Follow(ws, order) = Rec([ws.stack EXCEPT ![1] = G], ws.stmtCache, ws.fnCache,
                               ws.mt, ws.parent, ws.accesses)
  <2>1. Follow(ws, order) = [ws EXCEPT !.stack = [@ EXCEPT ![1] = G]]
    BY <1>1, <1>2, <1>6, <1>7 DEF Rec, F
  <2> QED
    BY <1>1, <2>1 DEF Rec
<1>11. ItemsOf(F) = Els(F.todo) /\ ItemsOf(G) = Els(c)
  BY <1>9 DEF ItemsOf, Els
<1>12. Els(succ) = Successors(mod)[x0.at]
  BY <1>4 DEF Els
<1>13. ASSUME NEW s \in Successors(mod)[x0.at], NEW z \in Els(order)
       PROVE  [at |-> s, locks |-> z] \in ItemsOf(G)
  <2> HIDE DEF succ, x0
  <2> QED
    BY <1>5, <1>8, <1>11, <1>12
<1>14. ASSUME NEW x \in ItemsOf(G)
       PROVE  \/ x \in ItemsOf(F)
              \/ x.at \in Successors(mod)[x0.at] /\ x.locks \in Els(order)
  <2> HIDE DEF succ, x0
  <2> QED
    BY <1>5, <1>8, <1>11, <1>12
<1>15. \A x \in ItemsOf(F) : x = x0 \/ x \in ItemsOf(G)
  BY <1>8, <1>11
<1> QED
  BY <1>9, <1>10, <1>13, <1>14, <1>15 DEF F

-----------------------------------------------------------------------------
(* Steps of a worker that keep its frames.                                 *)
SameFrames(st, st2) ==
  /\ Len(st2) = Len(st) /\ \A i \in 1..Len(st) : st2[i].fn = st[i].fn
  /\ \A i \in 2..Len(st) : st2[i] = st[i]

StillBegun(ws, ws2) ==
  \A f, L : Begun(ws.stack, ws.fnCache, f, L) => Begun(ws2.stack, ws2.fnCache, f, L)

(* The top of a stack that is not empty.                                   *)
LEMMA TopFacts ==
  ASSUME Env, NEW ws, NEW o, WorkerAt(ws, o), ws.stack # <<>>
  PROVE  /\ Core(ws.stack, ws.stmtCache, ws.fnCache, o)
         /\ ws.stack \in Seq(FrameType) /\ Len(ws.stack) \in Nat /\ 1 \in 1..Len(ws.stack)
         /\ Top(ws) = ws.stack[1] /\ ws.stack[1] \in FrameType
         /\ ws.stack[1].fn \in Functions /\ ws.stack[1].entry \in LockSets(mod)
         /\ o = 1 => ws.stack[1].todo # <<>>
         /\ ws.stack[1].todo # <<>> =>
              LET x == Head(ws.stack[1].todo)
              IN /\ x \in ItemsOf(ws.stack[1])
                 /\ x.at \in Stmts(mod) /\ x.locks \in LockSets(mod)
                 /\ x.at \in Flow(ws.stack[1].fn)
                 /\ Regular => PointOf(ws.stack[1]) \in Points
                 /\ Key(ws) = KeyOf(ws.stack[1]) /\ Item(ws) = x
<1>1. Core(ws.stack, ws.stmtCache, ws.fnCache, o)
  BY WorkerFields
<1>2. ws.stack \in Seq(FrameType) /\ StackInv(ws.stack, ws.stmtCache, o)
  BY <1>1 DEF Core, CoreTypes
<1>3. /\ Len(ws.stack) \in Nat /\ 1 \in 1..Len(ws.stack)
      /\ Top(ws) = ws.stack[1] /\ ws.stack[1] \in FrameType
  BY <1>2 DEF Top
<1>4. ws.stack[1].fn \in Functions /\ ws.stack[1].entry \in LockSets(mod)
  BY <1>3, FrameFacts
<1>5. o = 1 => ws.stack[1].todo # <<>>
  BY <1>2, <1>3 DEF StackInv
<1>6. ASSUME ws.stack[1].todo # <<>>
      PROVE LET x == Head(ws.stack[1].todo)
            IN /\ x \in ItemsOf(ws.stack[1])
               /\ x.at \in Stmts(mod) /\ x.locks \in LockSets(mod)
               /\ x.at \in Flow(ws.stack[1].fn)
               /\ Regular => PointOf(ws.stack[1]) \in Points
               /\ Key(ws) = KeyOf(ws.stack[1]) /\ Item(ws) = x
  <2>1. /\ Head(ws.stack[1].todo) \in ItemsOf(ws.stack[1])
        /\ Head(ws.stack[1].todo).at \in Stmts(mod) /\ Head(ws.stack[1].todo).locks \in LockSets(mod)
    BY <1>3, <1>6, FrameFacts
  <2>2. Head(ws.stack[1].todo).at \in Flow(ws.stack[1].fn)
    BY <1>2, <1>3, <2>1 DEF StackInv
  <2>3. Regular => PointOf(ws.stack[1]) \in Points
    BY <1>1, <1>3, <2>1 DEF Core, SoundInv, PointOf
  <2>4. Key(ws) = KeyOf(ws.stack[1]) /\ Item(ws) = Head(ws.stack[1].todo)
    BY <1>3 DEF Key, KeyOf, Item
  <2> QED
    BY <2>1, <2>2, <2>3, <2>4
<1> QED
  BY <1>1, <1>2, <1>3, <1>4, <1>5, <1>6

(* The lock sets E with which the statement of F may be followed.          *)
GoesOn(F, fc, E) ==
  LET x == Head(F.todo)
      c == Code(x.at)
  IN /\ E # {} /\ c.op # "ret"
     /\ Regular =>
          /\ \A s \in Successors(mod)[x.at], L \in E : <<F.fn, F.entry, s, L>> \in Points
          /\ c.op \notin CallOps => Straight(x.at, x.locks) \in E
          /\ c.op \in CallOps /\ mod.first[c.fn] = NoValue => x.locks \in E
          /\ c.op \in CallOps /\ mod.first[c.fn] # NoValue /\ NonRecursive =>
               \E e \in fc : /\ e.fn = c.fn /\ e.entry = x.locks
                             /\ Going(e.exits, x.locks) \subseteq E

LEMMA FollowInv ==
  ASSUME Env, NEW ws, WorkerAt(ws, 1), ws.stack # <<>>,
         NEW order \in Seq(LockSets(mod)), GoesOn(ws.stack[1], ws.fnCache, Els(order))
  PROVE  /\ WorkerAt(Follow(ws, order), 2)
         /\ SameFrames(ws.stack, Follow(ws, order).stack) /\ StillBegun(ws, Follow(ws, order))
         /\ \E st2 : Follow(ws, order) = Rec(st2, ws.stmtCache, ws.fnCache, ws.mt, ws.parent, ws.accesses)
<1> DEFINE st == ws.stack
           sc == ws.stmtCache
           fc == ws.fnCache
           F == st[1]
           x == Head(F.todo)
           c == Code(x.at)
           k == KeyOf(F)
           next == Successors(mod)[x.at]
<1>1. /\ Core(st, sc, fc, 1) /\ st \in Seq(FrameType) /\ Len(st) \in Nat /\ 1 \in 1..Len(st)
      /\ F \in FrameType /\ F.fn \in Functions /\ F.todo # <<>>
      /\ x \in ItemsOf(F) /\ x.at \in Stmts(mod) /\ x.locks \in LockSets(mod)
      /\ x.at \in Flow(F.fn)
  BY TopFacts, SMTT(60)
<1>2. PICK G \in FrameType :
           /\ Follow(ws, order) = Rec([st EXCEPT ![1] = G], sc, fc, ws.mt, ws.parent, ws.accesses)
           /\ G.fn = F.fn /\ G.entry = F.entry /\ G.exits = F.exits
           /\ \A y \in ItemsOf(F) : y = x \/ y \in ItemsOf(G)
           /\ \A y \in ItemsOf(G) : y \in ItemsOf(F) \/ (y.at \in next /\ y.locks \in Els(order))
           /\ \A s \in next, L \in Els(order) : [at |-> s, locks |-> L] \in ItemsOf(G)
  BY <1>1, FollowFacts
<1> DEFINE st2 == [st EXCEPT ![1] = G]
<1>3. /\ st2 \in Seq(FrameType) /\ Len(st2) = Len(st) /\ st2[1] = G
      /\ \A i \in 2..Len(st) : st2[i] = st[i]
  BY <1>1, TopReplaced
<1>4. k \in sc
  BY <1>1 DEF Core, StackInv
<1>5. NextFrame(F, G)
  <2>1. \A y \in ItemsOf(G) : y.at \in Flow(G.fn)
    <3>1. \A y \in ItemsOf(F) : y.at \in Flow(F.fn)
      BY <1>1, SMTT(60) DEF Core, StackInv
    <3>2. next \subseteq Flow(F.fn)
      BY <1>1, FlowFacts DEF Env, Functions, Flow
    <3> QED
      BY <1>2, <3>1, <3>2, SMTT(60)
  <2>2. ASSUME Regular
        PROVE  /\ \A y \in ItemsOf(G) : <<G.fn, G.entry, y.at, y.locks>> \in Points
               /\ G.exits \subseteq Exits(mod, Points, G.fn, G.entry)
    <3>1. /\ \A y \in ItemsOf(F) : <<F.fn, F.entry, y.at, y.locks>> \in Points
          /\ F.exits \subseteq Exits(mod, Points, F.fn, F.entry)
      BY <1>1, <2>2, SMTT(60) DEF Core, SoundInv
    <3>2. \A s \in next, L \in Els(order) : <<F.fn, F.entry, s, L>> \in Points
      BY <2>2 DEF GoesOn
    <3> HIDE DEF F, next, x
    <3> QED
      BY <1>2, <3>1, <3>2
  <2> HIDE DEF F
  <2> QED
    BY <1>2, <2>1, <2>2, SMTT(60) DEF NextFrame
<1>6. ASSUME NEW s \in next, NEW L \in Els(order)
      PROVE  Seen(st2, sc, F.fn, F.entry, s, L)
  <2>1. [at |-> s, locks |-> L] \in ItemsOf(G) /\ G.fn = F.fn /\ G.entry = F.entry
    BY <1>2
  <2>2. 1 \in 1..Len(st2) /\ st2[1] = G
    BY <1>1, <1>3
  <2> HIDE DEF st2
  <2> QED
    BY <2>1, <2>2 DEF Seen
<1>7. k[1] = x.at /\ k[2] = F.entry /\ k[3] = x.locks
  BY DEF KeyOf
<1>8. ASSUME Regular PROVE Settled(st2, sc, fc, F.fn, k) /\ RetKept(st2, fc, F.fn, k)
  <2> DEFINE S(s, L) == Seen(st2, sc, F.fn, F.entry, s, L)
             E == Els(order)
  <2>1. \A s \in next : \A L \in E : S(s, L)
    BY <1>6
  <2>2. E \subseteq LockSets(mod)
    BY DEF Els
  <2>3. /\ E # {} /\ c.op # "ret"
        /\ c.op \notin CallOps => Straight(x.at, x.locks) \in E
        /\ c.op \in CallOps /\ mod.first[c.fn] = NoValue => x.locks \in E
        /\ c.op \in CallOps /\ mod.first[c.fn] # NoValue /\ NonRecursive =>
             \E e \in fc : /\ e.fn = c.fn /\ e.entry = x.locks
                           /\ Going(e.exits, x.locks) \subseteq E
    BY <1>8, ZenonT(60) DEF GoesOn
  <2> HIDE DEF S, k, st2, E
  <2>4. \A s \in next : \E L \in LockSets(mod) : S(s, L)
    BY <2>1, <2>2, <2>3, SMTT(60)
  <2>5. c.op \notin CallOps => \A s \in next : S(s, Straight(x.at, x.locks))
    BY <2>1, <2>3, SMTT(60)
  <2>6. c.op \in CallOps /\ mod.first[c.fn] = NoValue => \A s \in next : S(s, x.locks)
    BY <2>1, <2>3, SMTT(60)
  <2>7. ASSUME c.op \in CallOps, mod.first[c.fn] # NoValue, NonRecursive
        PROVE  \E e \in fc : /\ e.fn = c.fn /\ e.entry = x.locks
                             /\ \A s \in next : \A L \in Going(e.exits, x.locks) : S(s, L)
    <3>1. PICK e \in fc : e.fn = c.fn /\ e.entry = x.locks /\ Going(e.exits, x.locks) \subseteq E
      BY <2>3, <2>7, ZenonT(60)
    <3> QED
      BY <2>1, <3>1, SMTT(60)
  <2>8. Settled(st2, sc, fc, F.fn, k)
    BY <1>7, <2>4, <2>5, <2>6, <2>7, ZenonT(60) DEF Settled, S
  <2>9. RetKept(st2, fc, F.fn, k)
    BY <1>7, <2>3 DEF RetKept
  <2> QED
    BY <2>8, <2>9
<1>9. st2 = [st EXCEPT ![1] = G] /\ 1 \in {1, 2}
  OBVIOUS
<1> HIDE DEF st2
<1>10. Core(st2, sc, fc, 2) /\ \A f, L : Begun(st2, fc, f, L) <=> Begun(st, fc, f, L)
  <2>1. Closes(st, st2, sc, fc, 1)
    BY <1>8 DEF Closes
  <2>2. Advances(st, st2, sc, fc, G, 1)
    BY <1>1, <1>4, <1>5, <1>9, <2>1 DEF Advances
  <2> QED
    BY <1>9, <2>2, Advance
<1>11. Follow(ws, order) = Rec(st2, sc, fc, ws.mt, ws.parent, ws.accesses)
  BY <1>2, <1>9
<1>12. WorkerAt(Follow(ws, order), 2)
  BY <1>10, <1>11, NewCore
<1>13. Follow(ws, order).stack = st2 /\ Follow(ws, order).fnCache = fc
  BY <1>11, RecParts
<1>14. SameFrames(st, st2)
  <2>1. \A i \in 1..Len(st) : i = 1 \/ i \in 2..Len(st)
    BY <1>1
  <2> QED
    BY <1>2, <1>3, <2>1 DEF SameFrames
<1> QED
  BY <1>10, <1>11, <1>12, <1>13, <1>14 DEF StillBegun

(* A frame without its first item and with exits X added, and what this is *)
(* used for.                                                               *)
Dropped(F, X) == [F EXCEPT !.todo = Tail(@), !.exits = @ \cup X]
Cached(ws)    == [ws EXCEPT !.stack[1].todo = Tail(@)]
Returned(ws)  == [ws EXCEPT !.stack[1].todo = Tail(@), !.stack[1].exits = @ \cup {Item(ws).locks}]

LEMMA DropItem ==
  ASSUME NEW F \in FrameType, F.todo # <<>>, NEW X \in SUBSET LockSets(mod),
         NEW G, G = Dropped(F, X)
  PROVE  /\ G \in FrameType /\ G.fn = F.fn /\ G.entry = F.entry /\ G.exits = F.exits \cup X
         /\ \A y \in ItemsOf(F) : y = Head(F.todo) \/ y \in ItemsOf(G)
         /\ ItemsOf(G) \subseteq ItemsOf(F)
<1>1. F.todo \in Seq(ItemType) /\ F.exits \in SUBSET LockSets(mod)
  BY FrameFacts
<1>2. Tail(F.todo) \in Seq(ItemType)
  BY <1>1
<1>3. /\ G \in FrameType /\ G.fn = F.fn /\ G.entry = F.entry /\ G.exits = F.exits \cup X
      /\ G.todo = Tail(F.todo)
  BY <1>1, <1>2 DEF FrameType, Dropped
<1> DEFINE b == F.todo
           t == Tail(b)
<1>4. /\ Len(t) = Len(b) - 1 /\ Len(b) \in Nat /\ Len(b) >= 1 /\ Head(b) = b[1]
      /\ \A j \in 1..Len(t) : t[j] = b[j + 1]
  BY <1>1
<1>5. \A j \in 1..Len(t) : j + 1 \in 1..Len(b) /\ t[j] = b[j + 1]
  BY <1>4
<1>6. \A j \in 1..Len(b) : j = 1 \/ (j - 1 \in 1..Len(t) /\ t[j - 1] = b[j])
  BY <1>4
<1>7. ItemsOf(F) = {b[j] : j \in 1..Len(b)} /\ ItemsOf(G) = {t[j] : j \in 1..Len(t)}
  BY <1>3 DEF ItemsOf
<1> HIDE DEF t, b
<1>8. ItemsOf(G) \subseteq ItemsOf(F)
  BY <1>5, <1>7
<1>9. \A y \in ItemsOf(F) : y = Head(b) \/ y \in ItemsOf(G)
  BY <1>4, <1>6, <1>7
<1> QED
  BY <1>3, <1>8, <1>9 DEF b

(* A statement that is in the cache is taken off.                          *)
LEMMA CachedInv ==
  ASSUME Env, NEW ws, WorkerAt(ws, 2), ws.stack # <<>>, ws.stack[1].todo # <<>>,
         KeyOf(ws.stack[1]) \in ws.stmtCache,
         NEW ws2, ws2 = Cached(ws)
  PROVE  /\ WorkerAt(ws2, 2) /\ SameFrames(ws.stack, ws2.stack) /\ StillBegun(ws, ws2)
         /\ ws2.parent = ws.parent
<1> DEFINE st == ws.stack
           sc == ws.stmtCache
           fc == ws.fnCache
           F == st[1]
           G == Dropped(F, {})
           st2 == [st EXCEPT ![1] = G]
<1>1. /\ Core(st, sc, fc, 2) /\ st \in Seq(FrameType) /\ Len(st) \in Nat /\ 1 \in 1..Len(st)
      /\ F \in FrameType /\ F.fn \in Functions
  BY TopFacts
<1>2. /\ G \in FrameType /\ G.fn = F.fn /\ G.entry = F.entry /\ G.exits = F.exits
      /\ \A y \in ItemsOf(F) : y = Head(F.todo) \/ y \in ItemsOf(G)
      /\ ItemsOf(G) \subseteq ItemsOf(F)
  <2>1. F \in FrameType /\ F.todo # <<>> /\ {} \in SUBSET LockSets(mod) /\ G = Dropped(F, {})
    BY <1>1
  <2> HIDE DEF F, G
  <2>2. /\ G \in FrameType /\ G.fn = F.fn /\ G.entry = F.entry /\ G.exits = F.exits \cup {}
        /\ \A y \in ItemsOf(F) : y = Head(F.todo) \/ y \in ItemsOf(G)
        /\ ItemsOf(G) \subseteq ItemsOf(F)
    BY <2>1, DropItem, ZenonT(60)
  <2> QED
    BY <2>2
<1>3. ws2 = Rec(st2, sc, fc, ws.mt, ws.parent, ws.accesses)
  <2>1. ws = Rec(st, sc, fc, ws.mt, ws.parent, ws.accesses)
    BY WorkerFields
  <2>2. G = [F EXCEPT !.todo = Tail(@)]
    BY <1>1 DEF FrameType, Dropped
  <2>3. ws2 = [ws EXCEPT !.stack = [@ EXCEPT ![1] = G]]
    BY <1>1, <2>1, <2>2 DEF Rec, Cached
  <2> QED
    BY <2>1, <2>3 DEF Rec
<1> HIDE DEF G
<1>4. /\ st2 \in Seq(FrameType) /\ Len(st2) = Len(st) /\ st2[1] = G
      /\ \A i \in 2..Len(st) : st2[i] = st[i]
  BY <1>1, <1>2, TopReplaced
<1>5. \A y \in ItemsOf(G) : y.at \in Flow(G.fn)
  BY <1>1, <1>2 DEF Core, StackInv
<1>6. Regular => /\ \A y \in ItemsOf(G) : <<G.fn, G.entry, y.at, y.locks>> \in Points
                 /\ G.exits \subseteq Exits(mod, Points, G.fn, G.entry)
  BY <1>1, <1>2 DEF Core, SoundInv
<1>7. st2 = [st EXCEPT ![1] = G] /\ 2 \in {1, 2} /\ NextFrame(F, G)
  BY <1>2, <1>5, <1>6 DEF NextFrame
<1> HIDE DEF st2
<1>8. Core(st2, sc, fc, 2) /\ \A f, L : Begun(st2, fc, f, L) <=> Begun(st, fc, f, L)
  <2>1. Closes(st, st2, sc, fc, 2)
    BY DEF Closes
  <2>2. Advances(st, st2, sc, fc, G, 2)
    BY <1>1, <1>7, <2>1 DEF Advances
  <2> QED
    BY <1>7, <2>2, Advance
<1>9. WorkerAt(ws2, 2)
  BY <1>3, <1>8, NewCore
<1>10. ws2.stack = st2 /\ ws2.fnCache = fc /\ ws2.parent = ws.parent
  BY <1>3, RecParts
<1>11. SameFrames(st, st2)
  <2>1. \A i \in 1..Len(st) : i = 1 \/ i \in 2..Len(st)
    BY <1>1
  <2> QED
    BY <1>2, <1>4, <2>1 DEF SameFrames
<1> QED
  BY <1>8, <1>9, <1>10, <1>11 DEF StillBegun

(* A return statement.                                                     *)
LEMMA RetInv ==
  ASSUME Env, NEW ws, WorkerAt(ws, 1), ws.stack # <<>>,
         NEW x, x = Head(ws.stack[1].todo), Code(x.at).op = "ret",
         NEW ws2, ws2 = Returned(ws)
  PROVE  /\ WorkerAt(ws2, 2) /\ SameFrames(ws.stack, ws2.stack) /\ StillBegun(ws, ws2)
         /\ ws2.parent = ws.parent
<1> DEFINE st == ws.stack
           sc == ws.stmtCache
           fc == ws.fnCache
           F == st[1]
           k == KeyOf(F)
           G == Dropped(F, {x.locks})
           st2 == [st EXCEPT ![1] = G]
<1>1. /\ Core(st, sc, fc, 1) /\ st \in Seq(FrameType) /\ Len(st) \in Nat /\ 1 \in 1..Len(st)
      /\ F \in FrameType /\ F.fn \in Functions /\ F.todo # <<>>
      /\ x.at \in Stmts(mod) /\ x.locks \in LockSets(mod)
      /\ Regular => PointOf(F) \in Points
  BY TopFacts
<1>2. /\ G \in FrameType /\ G.fn = F.fn /\ G.entry = F.entry /\ G.exits = F.exits \cup {x.locks}
      /\ \A y \in ItemsOf(F) : y = Head(F.todo) \/ y \in ItemsOf(G)
      /\ ItemsOf(G) \subseteq ItemsOf(F)
  <2>1. F \in FrameType /\ F.todo # <<>> /\ {x.locks} \in SUBSET LockSets(mod)
    BY <1>1
  <2> HIDE DEF F
  <2> QED
    BY <2>1, DropItem
<1>3. ws2 = Rec(st2, sc, fc, ws.mt, ws.parent, ws.accesses)
  <2>1. ws = Rec(st, sc, fc, ws.mt, ws.parent, ws.accesses)
    BY WorkerFields
  <2>2. Item(ws) = x
    BY <1>1, TopFacts
  <2>3. ws2 = [ws EXCEPT !.stack = [@ EXCEPT ![1] = G]]
    BY <1>1, <2>1, <2>2 DEF Rec, Returned, Dropped
  <2> QED
    BY <2>1, <2>3 DEF Rec
<1> HIDE DEF G
<1>4. /\ st2 \in Seq(FrameType) /\ Len(st2) = Len(st) /\ st2[1] = G
      /\ \A i \in 2..Len(st) : st2[i] = st[i]
  BY <1>1, <1>2, TopReplaced
<1>5. \A y \in ItemsOf(G) : y.at \in Flow(G.fn)
  BY <1>1, <1>2 DEF Core, StackInv
<1>6. ASSUME Regular
      PROVE  /\ \A y \in ItemsOf(G) : <<G.fn, G.entry, y.at, y.locks>> \in Points
             /\ G.exits \subseteq Exits(mod, Points, G.fn, G.entry)
  <2>1. /\ \A y \in ItemsOf(F) : <<F.fn, F.entry, y.at, y.locks>> \in Points
        /\ F.exits \subseteq Exits(mod, Points, F.fn, F.entry)
    BY <1>1, <1>6, SMTT(60) DEF Core, SoundInv
  <2>2. x.locks \in Exits(mod, Points, F.fn, F.entry)
    <3> DEFINE p == PointOf(F)
    <3>1. /\ p \in Points /\ p[1] = F.fn /\ p[2] = F.entry /\ p[4] = x.locks
          /\ mod.code[p[3]].op = "ret"
      BY <1>1, <1>6 DEF PointOf, Code
    <3> HIDE DEF p
    <3> QED
      BY <3>1, SMTT(60) DEF Exits
  <2> QED
    BY <1>2, <2>1, <2>2
<1>7. st2 = [st EXCEPT ![1] = G] /\ 1 \in {1, 2} /\ NextFrame(F, G) /\ KeyOf(F) \in sc
  <2>1. KeyOf(F) \in sc
    BY <1>1 DEF Core, StackInv
  <2>2. NextFrame(F, G)
    BY <1>2, <1>5, <1>6 DEF NextFrame
  <2> QED
    BY <2>1, <2>2
<1>8. ASSUME Regular PROVE Settled(st2, sc, fc, F.fn, k) /\ RetKept(st2, fc, F.fn, k)
  <2>1. k[1] = x.at /\ k[2] = F.entry /\ k[3] = x.locks
    BY DEF KeyOf
  <2>2. Successors(mod)[x.at] = {}
    BY <1>1, CodeFacts
  <2>3. Code(k[1]).op \notin CallOps
    BY <2>1, SMTT(60) DEF CallOps
  <2> HIDE DEF k, st2
  <2>4. Settled(st2, sc, fc, F.fn, k)
    BY <2>1, <2>2, <2>3, ZenonT(60) DEF Settled
  <2>5. ASSUME NEW i \in 1..Len(st2), st2[i].fn = F.fn, st2[i].entry = k[2]
        PROVE  k[3] \in st2[i].exits
    <3>1. i = 1
      <4>1. \A j \in 1..Len(st) : st[1].fn = st[j].fn => 1 = j
        BY <1>1 DEF Core, StackInv
      <4>2. st2[i].fn = st[i].fn
        BY <1>2, <1>4, <2>5
      <4> QED
        BY <1>4, <2>5, <4>1, <4>2
    <3> QED
      BY <1>2, <1>4, <2>1, <3>1
  <2>6. \A e \in fc : ~(e.fn = F.fn /\ e.entry = F.entry)
    BY <1>1, <1>8 DEF Core, CacheInv, Summarised
  <2>7. RetKept(st2, fc, F.fn, k)
    BY <2>1, <2>5, <2>6 DEF RetKept
  <2> QED
    BY <2>4, <2>7
<1> HIDE DEF st2
<1>9. Core(st2, sc, fc, 2) /\ \A f, L : Begun(st2, fc, f, L) <=> Begun(st, fc, f, L)
  <2>1. Closes(st, st2, sc, fc, 1)
    BY <1>8 DEF Closes
  <2>2. Advances(st, st2, sc, fc, G, 1)
    BY <1>1, <1>7, <2>1 DEF Advances
  <2> QED
    BY <1>7, <2>2, Advance
<1>10. WorkerAt(ws2, 2)
  BY <1>3, <1>9, NewCore
<1>11. ws2.stack = st2 /\ ws2.fnCache = fc /\ ws2.parent = ws.parent
  BY <1>3, RecParts
<1>12. SameFrames(st, st2)
  <2>1. \A i \in 1..Len(st) : i = 1 \/ i \in 2..Len(st)
    BY <1>1
  <2> QED
    BY <1>2, <1>4, <2>1 DEF SameFrames
<1> QED
  BY <1>9, <1>10, <1>11, <1>12 DEF StillBegun

-----------------------------------------------------------------------------
(* The parts of a worker's record that a step changes.                     *)

(* A set put into a sequence.                                              *)
LEMMA OrdersFacts ==
  ASSUME Env, NEW S \in SUBSET LockSets(mod), NEW order \in Orders(S)
  PROVE  order \in Seq(LockSets(mod)) /\ Els(order) = S
<1> DEFINE n == Cardinality(S)
<1>1. n \in Nat
  <2>1. IsFiniteSet(S)
    BY FinitePoints, FS_Subset DEF Env
  <2> QED
    BY <2>1, FS_CardinalityType
<1>2. order \in [1..n -> S] /\ \A x \in S : \E i \in 1..n : order[i] = x
  BY DEF Orders
<1> HIDE DEF n
<1>3. order \in Seq(S) /\ Len(order) = n
  BY <1>1, <1>2
<1> QED
  BY <1>2, <1>3 DEF Els

LEMMA One ==
  ASSUME NEW L \in LockSets(mod)
  PROVE  <<L>> \in Seq(LockSets(mod)) /\ Els(<<L>>) = {L}
BY DEF Els

LEMMA NewMarks ==
  ASSUME NEW ws, NEW o, WorkerAt(ws, o), NEW mt, NEW ac, MarksOK(mt, ac),
         NEW ws2, ws2 = Rec(ws.stack, ws.stmtCache, ws.fnCache, mt, ws.parent, ac)
  PROVE  /\ WorkerAt(ws2, o) /\ ws2.stack = ws.stack /\ ws2.fnCache = ws.fnCache
         /\ ws2.stmtCache = ws.stmtCache /\ ws2.parent = ws.parent
         /\ ws2.mt = mt /\ ws2.accesses = ac
<1>1. /\ Core(ws.stack, ws.stmtCache, ws.fnCache, o)
      /\ ParentOK(ws.parent) /\ ParentInv(ws.parent)
  BY WorkerFields
<1>2. WorkerAt(ws2, o)
  BY <1>1, RecFields
<1> QED
  BY <1>2, RecParts

WithParent(ws, pa) == [ws EXCEPT !.parent = pa]

LEMMA NewParent ==
  ASSUME NEW ws, NEW o, WorkerAt(ws, o), NEW pa, ParentOK(pa), ParentInv(pa),
         NEW ws2, ws2 = WithParent(ws, pa)
  PROVE  /\ WorkerAt(ws2, o) /\ ws2.stack = ws.stack /\ ws2.fnCache = ws.fnCache
         /\ ws2.parent = pa
         /\ ws2 = Rec(ws.stack, ws.stmtCache, ws.fnCache, ws.mt, pa, ws.accesses)
<1>1. /\ ws = Rec(ws.stack, ws.stmtCache, ws.fnCache, ws.mt, ws.parent, ws.accesses)
      /\ Core(ws.stack, ws.stmtCache, ws.fnCache, o) /\ MarksOK(ws.mt, ws.accesses)
  BY WorkerFields
<1>2. ws2 = Rec(ws.stack, ws.stmtCache, ws.fnCache, ws.mt, pa, ws.accesses)
  BY <1>1 DEF Rec, WithParent
<1>3. WorkerAt(ws2, o)
  BY <1>1, <1>2, RecFields
<1> QED
  BY <1>2, <1>3, RecParts

(* Binding and unbinding a parameter.                                      *)
AgreeBut(parent, pa, v) ==
  /\ \A u : u # v => (u \in DOMAIN pa <=> u \in DOMAIN parent)
  /\ \A u \in DOMAIN parent : u # v => pa[u] = parent[u]

LEMMA BindOK ==
  ASSUME NEW parent, ParentOK(parent), ParentInv(parent), NEW v, NEW to,
         v # NoValue => v \in mod.values /\ to \in mod.values /\ to \in Arguments(mod)[v],
         NEW pa, pa = Bind(parent, v, to)
  PROVE  /\ ParentOK(pa) /\ ParentInv(pa)
         /\ v # NoValue => v \in DOMAIN pa /\ pa[v] = to
         /\ AgreeBut(parent, pa, v)
<1>1. CASE v = NoValue
  BY <1>1 DEF Bind, AgreeBut
<1>2. CASE v # NoValue
  <2>1. pa = [u \in DOMAIN parent \cup {v} |-> IF u = v THEN to ELSE parent[u]]
    BY <1>2 DEF Bind
  <2>2. /\ DOMAIN pa = DOMAIN parent \cup {v}
        /\ \A u \in DOMAIN pa : pa[u] = IF u = v THEN to ELSE parent[u]
    BY <2>1
  <2>3. ParentOK(pa)
    BY <1>2, <2>1 DEF ParentOK
  <2>4. ParentInv(pa)
    BY <1>2, <2>2 DEF ParentInv
  <2> QED
    BY <1>2, <2>2, <2>3, <2>4 DEF AgreeBut
<1> QED
  BY <1>1, <1>2

LEMMA UnbindOK ==
  ASSUME NEW parent, ParentOK(parent), ParentInv(parent), NEW v,
         NEW pa, pa = Unbind(parent, v)
  PROVE  /\ ParentOK(pa) /\ ParentInv(pa)
         /\ v \notin DOMAIN pa
         /\ AgreeBut(parent, pa, v)
<1>1. /\ DOMAIN pa = DOMAIN parent \ {v}
      /\ \A u \in DOMAIN pa : pa[u] = parent[u]
  BY DEF Unbind
<1>2. ParentOK(pa)
  BY DEF Unbind, ParentOK
<1>3. ParentInv(pa)
  BY <1>1 DEF ParentInv
<1> QED
  BY <1>1, <1>2, <1>3 DEF AgreeBut

(* What a multithreaded function calls is multithreaded.                   *)
LEMMA MultiClosed ==
  ASSUME Env
  PROVE  /\ Multithreaded \subseteq Functions
         /\ \A f \in Multithreaded : Calls(mod)[f] \subseteq Multithreaded
         /\ \A p \in Points : Code(p[3]).op \in MultiThreadedAPI => p[1] \in Multithreaded
<1>1. \A p \in Points : p[1] \in DOMAIN mod.first
  BY PointsInFlow DEF Env, AllPoints
<1>2. \A g \in DOMAIN mod.first :
        /\ CalleesOf[mod][g] \subseteq DOMAIN mod.first /\ g \in CalleesOf[mod][g]
        /\ \A h \in CalleesOf[mod][g] : Calls(mod)[h] \subseteq CalleesOf[mod][g]
  BY CalleesFacts DEF Env
<1>3. \A f : f \in Multithreaded <=>
        \E p \in Points : Code(p[3]).op \in MultiThreadedAPI /\ f \in CalleesOf[mod][p[1]]
  BY DEF Multithreaded
<1>4. ASSUME NEW f \in Multithreaded PROVE f \in Functions /\ Calls(mod)[f] \subseteq Multithreaded
  <2>1. PICK p \in Points : Code(p[3]).op \in MultiThreadedAPI /\ f \in CalleesOf[mod][p[1]]
    BY <1>3
  <2>2. Calls(mod)[f] \subseteq CalleesOf[mod][p[1]] /\ f \in Functions
    BY <1>1, <1>2, <2>1 DEF Functions
  <2> QED
    BY <1>3, <2>1, <2>2
<1> QED
  BY <1>1, <1>2, <1>3, <1>4

(* A visit is noted before anything else.                                  *)
LEMMA VisitedInv ==
  ASSUME Env, NEW ws, WorkerAt(ws, 2), ws.stack # <<>>, ws.stack[1].todo # <<>>,
         NEW v, v = Visited(ws)
  PROVE  /\ WorkerAt(v, 1)
         /\ v.stack = ws.stack /\ v.fnCache = ws.fnCache /\ v.parent = ws.parent
<1> DEFINE st == ws.stack
           F == st[1]
           x == Head(F.todo)
           sc2 == ws.stmtCache \cup {KeyOf(F)}
           mt2 == IF Code(x.at).op \in MultiThreadedAPI THEN ws.mt \cup {F.fn} ELSE ws.mt
<1>1. /\ ws = Rec(st, ws.stmtCache, ws.fnCache, ws.mt, ws.parent, ws.accesses)
      /\ Core(st, ws.stmtCache, ws.fnCache, 2) /\ MarksOK(ws.mt, ws.accesses)
      /\ ParentOK(ws.parent) /\ ParentInv(ws.parent)
  BY WorkerFields
<1>2. /\ Top(ws) = F /\ F.fn \in Functions /\ Key(ws) = KeyOf(F) /\ Item(ws) = x
      /\ Regular => PointOf(F) \in Points
  BY TopFacts
<1>3. v = Rec(st, sc2, ws.fnCache, mt2, ws.parent, ws.accesses)
  <2>1. v = [ws EXCEPT !.stmtCache = sc2, !.mt = mt2]
    BY <1>2 DEF Visited
  <2> HIDE DEF sc2, mt2
  <2> QED
    BY <1>1, <2>1 DEF Rec
<1>4. Core(st, sc2, ws.fnCache, 1)
  BY <1>1, Visit
<1>5. MarksOK(mt2, ws.accesses)
  <2>1. Regular /\ Code(x.at).op \in MultiThreadedAPI => F.fn \in Multithreaded
    <3>1. PointOf(F)[1] = F.fn /\ PointOf(F)[3] = x.at
      BY DEF PointOf
    <3> QED
      BY <1>2, <3>1, MultiClosed
  <2> HIDE DEF F, x
  <2> QED
    BY <1>1, <1>2, <2>1 DEF MarksOK
<1> HIDE DEF sc2, mt2
<1>6. WorkerAt(v, 1)
  BY <1>1, <1>3, <1>4, <1>5, RecFields
<1> QED
  BY <1>3, <1>6, RecParts

-----------------------------------------------------------------------------
(* The bindings of parameters, step by step.                               *)
LEMMA FormalFacts ==
  ASSUME Env
  PROVE  /\ \A f \in Functions : mod.formal[f] # NoValue => mod.formal[f] \in mod.values
         /\ \A f, g \in Functions :
              mod.formal[f] = mod.formal[g] /\ mod.formal[f] # NoValue => f = g
         /\ \A parent : ParentOK(parent) => NoValue \notin DOMAIN parent
<1>1. WellFormed(mod)
  BY ModulesAssumption DEF Env
<1>2. NoValue \notin mod.values
  BY <1>1 DEF WellFormed
<1> QED
  BY <1>1, <1>2 DEF WellFormed, Functions, ParentOK

LEMMA BoundSame ==
  ASSUME NEW st, NEW st2, NEW parent, Len(st) \in Nat, BoundInv(st, parent), SameFrames(st, st2)
  PROVE  BoundInv(st2, parent)
<1>1. Len(st2) = Len(st)
  BY DEF SameFrames
<1>2. \A i \in 1..(Len(st) - 1) : st2[i].fn = st[i].fn /\ st2[i + 1] = st[i + 1]
  <2>1. \A i \in 1..(Len(st) - 1) : i \in 1..Len(st) /\ i + 1 \in 2..Len(st)
    OBVIOUS
  <2> QED
    BY <2>1 DEF SameFrames
<1>3. ASSUME NEW f \in Functions, \A i \in 1..(Len(st2) - 1) : st2[i].fn # f
      PROVE  mod.formal[f] \notin DOMAIN parent
  <2>1. \A i \in 1..(Len(st) - 1) : st[i].fn # f
    BY <1>1, <1>2, <1>3
  <2> QED
    BY <2>1 DEF BoundInv
<1>4. ASSUME NEW i \in 1..(Len(st2) - 1), mod.formal[st2[i].fn] # NoValue
      PROVE  /\ mod.formal[st2[i].fn] \in DOMAIN parent
             /\ parent[mod.formal[st2[i].fn]] = Code(Head(st2[i + 1].todo).at).arg
  <2>1. st2[i].fn = st[i].fn /\ st2[i + 1] = st[i + 1] /\ i \in 1..(Len(st) - 1)
    BY <1>1, <1>2
  <2>2. mod.formal[st[i].fn] # NoValue
    BY <1>4, <2>1
  <2>3. /\ mod.formal[st[i].fn] \in DOMAIN parent
        /\ parent[mod.formal[st[i].fn]] = Code(Head(st[i + 1].todo).at).arg
    BY <2>1, <2>2 DEF BoundInv
  <2> QED
    BY <2>1, <2>3
<1> QED
  BY <1>3, <1>4 DEF BoundInv

(* Other values, and the parameter of a function that is not traversed,    *)
(* do not matter.                                                          *)
LEMMA BoundElse ==
  ASSUME NEW st, NEW parent, NEW pa, NEW v, BoundInv(st, parent),
         AgreeBut(parent, pa, v),
         \A f \in Functions : mod.formal[f] = v => v \notin DOMAIN pa,
         \A i \in 1..(Len(st) - 1) : mod.formal[st[i].fn] # NoValue => mod.formal[st[i].fn] # v
  PROVE  BoundInv(st, pa)
<1>1. ASSUME NEW f \in Functions, \A i \in 1..(Len(st) - 1) : st[i].fn # f
      PROVE  mod.formal[f] \notin DOMAIN pa
  <2>1. mod.formal[f] \notin DOMAIN parent
    BY <1>1 DEF BoundInv
  <2> QED
    BY <2>1 DEF AgreeBut
<1>2. ASSUME NEW i \in 1..(Len(st) - 1), mod.formal[st[i].fn] # NoValue
      PROVE  /\ mod.formal[st[i].fn] \in DOMAIN pa
             /\ pa[mod.formal[st[i].fn]] = Code(Head(st[i + 1].todo).at).arg
  <2>1. /\ mod.formal[st[i].fn] \in DOMAIN parent
        /\ parent[mod.formal[st[i].fn]] = Code(Head(st[i + 1].todo).at).arg
    BY <1>2 DEF BoundInv
  <2>2. mod.formal[st[i].fn] # v
    BY <1>2
  <2> QED
    BY <2>1, <2>2 DEF AgreeBut
<1> QED
  BY <1>1, <1>2 DEF BoundInv

(* f is called from the top frame: its parameter is bound.                 *)
LEMMA BoundPush ==
  ASSUME Env, NEW st \in Seq(FrameType), st # <<>>, NEW parent, BoundInv(st, parent),
         NEW F \in FrameType, NEW st2, st2 = <<F>> \o st,
         \A i \in 1..Len(st) : st[i].fn # F.fn,
         NEW pa, ParentOK(pa), NEW v, v = mod.formal[F.fn],
         v # NoValue => v \in DOMAIN pa /\ pa[v] = Code(Head(st[1].todo).at).arg,
         AgreeBut(parent, pa, v)
  PROVE  BoundInv(st2, pa)
<1>1. /\ st2 \in Seq(FrameType) /\ Len(st2) = Len(st) + 1 /\ Len(st) \in Nat /\ st2[1] = F
      /\ \A i \in 2..Len(st2) : st2[i] = st[i - 1] /\ i - 1 \in 1..Len(st)
  BY Pushed
<1>2. Len(st) >= 1
  OBVIOUS
<1>3. F.fn \in Functions /\ \A i \in 1..Len(st) : st[i].fn \in Functions
  BY FrameFacts
<1>4. ASSUME NEW g \in Functions, \A i \in 1..(Len(st2) - 1) : st2[i].fn # g
      PROVE  mod.formal[g] \notin DOMAIN pa
  <2>1. g # F.fn
    <3>1. 1 \in 1..(Len(st2) - 1)
      BY <1>1, <1>2
    <3> QED
      BY <1>1, <1>4, <3>1
  <2>2. \A i \in 1..(Len(st) - 1) : st[i].fn # g
    <3>1. \A i \in 1..(Len(st) - 1) : i + 1 \in 1..(Len(st2) - 1) /\ i + 1 \in 2..Len(st2) /\ (i + 1) - 1 = i
      BY <1>1, <1>2
    <3> QED
      BY <1>1, <1>4, <3>1
  <2>3. mod.formal[g] \notin DOMAIN parent
    BY <2>2 DEF BoundInv
  <2>4. mod.formal[g] = NoValue \/ mod.formal[g] # v
    BY <1>3, <2>1, FormalFacts
  <2> QED
    BY <2>3, <2>4, FormalFacts DEF AgreeBut
<1>5. ASSUME NEW i \in 1..(Len(st2) - 1), mod.formal[st2[i].fn] # NoValue
      PROVE  /\ mod.formal[st2[i].fn] \in DOMAIN pa
             /\ pa[mod.formal[st2[i].fn]] = Code(Head(st2[i + 1].todo).at).arg
  <2>1. CASE i = 1
    <3>1. st2[2] = st[1] /\ i + 1 = 2 /\ st2[i] = F
      BY <1>1, <1>2, <2>1
    <3> QED
      BY <1>5, <3>1, ZenonT(60)
  <2>2. CASE i # 1
    <3> DEFINE j == i - 1
    <3>1. /\ j \in 1..(Len(st) - 1) /\ j \in 1..Len(st) /\ i \in 2..Len(st2)
          /\ i + 1 \in 2..Len(st2) /\ (i + 1) - 1 = j + 1
      BY <1>1, <2>2
    <3>2. st2[i] = st[j] /\ st2[i + 1] = st[j + 1]
      BY <1>1, <3>1
    <3> HIDE DEF j
    <3>3. /\ mod.formal[st[j].fn] \in DOMAIN parent
          /\ parent[mod.formal[st[j].fn]] = Code(Head(st[j + 1].todo).at).arg
      BY <1>5, <3>1, <3>2 DEF BoundInv
    <3>4. mod.formal[st[j].fn] # v
      BY <1>3, <1>5, <3>1, <3>2, FormalFacts, SMTT(60)
    <3> QED
      BY <3>2, <3>3, <3>4, ZenonT(60) DEF AgreeBut
  <2> QED
    BY <2>1, <2>2, ZenonT(60)
<1> QED
  BY <1>4, <1>5, ZenonT(60) DEF BoundInv

(* The function of the top frame has ended: its parameter is unbound.      *)
LEMMA BoundPop ==
  ASSUME Env, NEW st \in Seq(FrameType), NEW st2, st2 = Tail(st), st2 # <<>>, st # <<>>,
         NEW parent, ParentOK(parent), BoundInv(st, parent),
         \A i \in 2..Len(st) : st[i].fn # st[1].fn,
         NEW pa, NEW v, v = mod.formal[st[1].fn], v \notin DOMAIN pa,
         AgreeBut(parent, pa, v)
  PROVE  BoundInv(st2, pa)
<1>1. /\ Len(st2) = Len(st) - 1 /\ Len(st) \in Nat /\ Len(st) >= 2
      /\ \A i \in 1..Len(st2) : st2[i] = st[i + 1] /\ i + 1 \in 2..Len(st)
      /\ \A i \in 2..Len(st) : st2[i - 1] = st[i] /\ i - 1 \in 1..Len(st2)
  <2>1. Len(st2) >= 1
    OBVIOUS
  <2> QED
    BY <2>1, Popped
<1>2. \A i \in 1..Len(st) : st[i].fn \in Functions
  BY FrameFacts
<1>3. ASSUME NEW g \in Functions, \A i \in 1..(Len(st2) - 1) : st2[i].fn # g
      PROVE  mod.formal[g] \notin DOMAIN pa
  <2>1. CASE g = st[1].fn
    BY <2>1
  <2>2. CASE g # st[1].fn
    <3>1. ASSUME NEW i \in 1..(Len(st) - 1) PROVE st[i].fn # g
      <4>1. CASE i = 1
        BY <2>2, <4>1
      <4>2. CASE i # 1
        <5>1. i - 1 \in 1..(Len(st2) - 1) /\ i \in 2..Len(st)
          BY <1>1, <4>2
        <5> QED
          BY <1>1, <1>3, <5>1
      <4> QED
        BY <4>1, <4>2
    <3>2. mod.formal[g] \notin DOMAIN parent
      BY <3>1 DEF BoundInv
    <3> QED
      BY <3>2 DEF AgreeBut
  <2> QED
    BY <2>1, <2>2
<1>4. ASSUME NEW i \in 1..(Len(st2) - 1), mod.formal[st2[i].fn] # NoValue
      PROVE  /\ mod.formal[st2[i].fn] \in DOMAIN pa
             /\ pa[mod.formal[st2[i].fn]] = Code(Head(st2[i + 1].todo).at).arg
  <2> DEFINE j == i + 1
  <2>1. /\ j \in 1..(Len(st) - 1) /\ i \in 1..Len(st2) /\ j \in 2..Len(st)
        /\ i + 1 \in 1..Len(st2) /\ (i + 1) + 1 = j + 1
    BY <1>1
  <2>2. st2[i] = st[j] /\ st2[i + 1] = st[j + 1]
    BY <1>1, <2>1
  <2> HIDE DEF j
  <2>3. /\ mod.formal[st[j].fn] \in DOMAIN parent
        /\ parent[mod.formal[st[j].fn]] = Code(Head(st[j + 1].todo).at).arg
    BY <1>4, <2>1, <2>2 DEF BoundInv
  <2>4. mod.formal[st[j].fn] # v
    <3>1. st[j].fn # st[1].fn /\ st[j].fn \in Functions /\ st[1].fn \in Functions
      BY <1>1, <1>2, <2>1
    <3> QED
      BY <1>4, <2>2, <3>1, FormalFacts
  <2> QED
    BY <2>2, <2>3, <2>4 DEF AgreeBut
<1> QED
  BY <1>3, <1>4 DEF BoundInv

(* In a program without recursion the function that is called is not among *)
(* those that are being traversed.                                         *)
LEMMA CalledFresh ==
  ASSUME Env, NonRecursive, NEW st, NEW sc, NEW o, StackInv(st, sc, o), st \in Seq(FrameType),
         st # <<>>, st[1].todo # <<>>, NEW c, c = Code(Head(st[1].todo).at), c.op \in CallOps,
         NEW i \in 1..Len(st)
  PROVE  st[i].fn # c.fn
<1> DEFINE f == st[1].fn
           g == c.fn
<1>1. 1 \in 1..Len(st) /\ st[1] \in FrameType /\ 1 \in 1..i
  OBVIOUS
<1>2. f \in Functions /\ Head(st[1].todo) \in ItemsOf(st[1])
  BY <1>1, FrameFacts
<1>3. Head(st[1].todo).at \in Flow(f)
  BY <1>1, <1>2 DEF StackInv
<1>4. g \in Calls(mod)[f]
  BY <1>2, <1>3, CallFacts DEF Env, Functions, Flow, Code
<1>5. \E r \in Roots(mod, mode) : f \in CalleesOf[mod][r]
  BY <1>1 DEF StackInv
<1>6. f \notin CalleesOf[mod][g]
  BY <1>2, <1>4, <1>5, NoWayBack
<1>7. f \in CalleesOf[mod][st[i].fn]
  BY <1>1 DEF StackInv
<1> QED
  BY <1>6, <1>7

-----------------------------------------------------------------------------
(* How the traversal goes on after each kind of statement.                 *)

(* A call that returned with these exits, or that was not traversed.       *)
CallEnds(st, fc, f, L, exits) ==
  /\ exits \subseteq LockSets(mod)
  /\ \/ mod.first[f] = NoValue
     \/ Summarised(fc, f, L)
     \/ \E i \in 1..Len(st) : st[i].fn = f
  /\ Regular => exits = UNION {e.exits : e \in {d \in fc : d.fn = f /\ d.entry = L}}

LEMMA CallGoesOn ==
  ASSUME Env, NEW st, NEW sc, NEW fc, Core(st, sc, fc, 1), st # <<>>, st[1].todo # <<>>,
         NEW x, x = Head(st[1].todo), Code(x.at).op \in CallOps,
         NEW exits, CallEnds(st, fc, Code(x.at).fn, x.locks, exits)
  PROVE  GoesOn(st[1], fc, Going(exits, x.locks))
<1> DEFINE F == st[1]
           c == Code(x.at)
           f == c.fn
           L == x.locks
           p == PointOf(F)
<1>1. Going(exits, L) # {} /\ c.op # "ret"
  BY DEF Going, CallOps
<1>2. ASSUME Regular
      PROVE  /\ \A s \in Successors(mod)[x.at], M \in Going(exits, L) : <<F.fn, F.entry, s, M>> \in Points
             /\ mod.first[f] = NoValue => L \in Going(exits, L)
             /\ mod.first[f] # NoValue /\ NonRecursive =>
                  \E e \in fc : /\ e.fn = f /\ e.entry = L
                                /\ Going(e.exits, L) \subseteq Going(exits, L)
  <2>1. /\ CoreTypes(st, sc, fc) /\ StackInv(st, sc, 1) /\ CacheInv(st, sc, fc) /\ SoundInv(st, fc)
    BY <1>2 DEF Core
  <2>2. /\ st \in Seq(FrameType) /\ 1 \in 1..Len(st) /\ F \in FrameType
    BY <2>1 DEF CoreTypes
  <2>3. /\ F.fn \in Functions /\ x \in ItemsOf(F) /\ x.at \in Stmts(mod) /\ L \in LockSets(mod)
    BY <2>2, FrameFacts
  <2>4. p \in Points /\ p[1] = F.fn /\ p[2] = F.entry /\ p[3] = x.at /\ p[4] = L
    BY <2>1, <2>2, <2>3 DEF SoundInv, PointOf
  <2>5. f \in Functions
    BY <2>3, CodeFacts, SMTT(60)
  <2>6. exits = UNION {e.exits : e \in {d \in fc : d.fn = f /\ d.entry = L}}
    BY <1>2, SMTT(60) DEF CallEnds
  <2>7. exits \subseteq Exits(mod, Points, f, L)
    BY <2>1, <2>6, SMTT(60) DEF SoundInv
  <2>8. ASSUME NEW e \in fc, e.fn = f, e.entry = L PROVE exits = e.exits
    <3>1. {d \in fc : d.fn = f /\ d.entry = L} = {e}
      BY <2>1, <2>8 DEF CacheInv
    <3> QED
      BY <2>6, <3>1
  <2>9. ~Returns(mod, f) => exits = {}
    BY <2>5, <2>7, NoReturnNoExits, SMTT(60)
  <2>10. exits = {} => ~Returns(mod, f) \/ F.fn \in CalleesOf[mod][f]
    <3>1. CASE mod.first[f] = NoValue
      BY <2>5, <3>1, DeclaredNoReturn, SMTT(60)
    <3>2. CASE Summarised(fc, f, L)
      <4>1. PICK e \in fc : e.fn = f /\ e.entry = L
        BY <3>2 DEF Summarised
      <4>2. exits = e.exits
        BY <2>8, <4>1, SMTT(60)
      <4> QED
        BY <2>1, <4>1, <4>2 DEF SoundInv
    <3>3. CASE \E i \in 1..Len(st) : st[i].fn = f
      <4>1. PICK i \in 1..Len(st) : st[i].fn = f
        BY <3>3
      <4>2. 1 \in 1..i
        BY <2>2
      <4> QED
        BY <2>1, <4>1, <4>2 DEF StackInv
    <3> QED
      BY <3>1, <3>2, <3>3, SMTT(60) DEF CallEnds
  <2>11. Going(exits, L) \subseteq LocksAfter(mod, Points, p)
    <3>1. CASE c.op = "call"
      <4>1. LocksAfter(mod, Points, p) =
              Exits(mod, Points, f, L) \cup (IF Returns(mod, f) /\ F.fn \notin CalleesOf[mod][f]
                                             THEN {} ELSE {L})
        BY <2>4, <3>1 DEF LocksAfter, Code
      <4> HIDE DEF p, f, L, F
      <4> QED
        BY <2>7, <2>10, <4>1, SMTT(60) DEF Going
    <3>2. CASE c.op = "create"
      <4>1. LocksAfter(mod, Points, p) = {L}
        BY <2>4, <3>2 DEF LocksAfter, Code
      <4>2. L = {} /\ Exits(mod, Points, f, {}) \subseteq {{}}
        BY <1>2, <2>4, <3>2 DEF Regular
      <4> HIDE DEF p, f, L, F
      <4> QED
        BY <2>7, <4>1, <4>2, SMTT(60) DEF Going
    <3> QED
      BY <3>1, <3>2 DEF CallOps
  <2>12. \A s \in Successors(mod)[x.at], M \in LocksAfter(mod, Points, p) : <<F.fn, F.entry, s, M>> \in Points
    BY <2>4, PointsClosed, SMTT(60) DEF Env
  <2>13. mod.first[f] = NoValue => L \in Going(exits, L)
    BY <2>5, <2>9, DeclaredNoReturn DEF Going
  <2>14. ASSUME mod.first[f] # NoValue, NonRecursive
         PROVE  \E e \in fc : /\ e.fn = f /\ e.entry = L
                              /\ Going(e.exits, L) \subseteq Going(exits, L)
    <3>1. \A i \in 1..Len(st) : st[i].fn # f
      BY <2>1, <2>2, <2>14, CalledFresh
    <3>2. PICK e \in fc : e.fn = f /\ e.entry = L
      BY <2>14, <3>1, ZenonT(60) DEF CallEnds, Summarised
    <3>3. exits = e.exits
      BY <2>8, <3>2
    <3> QED
      BY <3>2, <3>3, SMTT(60)
  <2> HIDE DEF p, f, L, F
  <2> QED
    BY <2>11, <2>12, <2>13, <2>14
<1> QED
  BY <1>1, <1>2, ZenonT(60) DEF GoesOn

(* A statement that is no call and no return is followed with one lock set.*)
LEMMA PlainGoesOn ==
  ASSUME Env, NEW st, NEW sc, NEW fc, NEW o, Core(st, sc, fc, o), st # <<>>, st[1].todo # <<>>,
         NEW x, x = Head(st[1].todo), Code(x.at).op \notin CallOps \cup {"ret"},
         NEW L, Regular => L = Straight(x.at, x.locks)
  PROVE  GoesOn(st[1], fc, {L})
<1> DEFINE F == st[1]
           c == Code(x.at)
           p == PointOf(F)
<1>1. ASSUME Regular PROVE \A s \in Successors(mod)[x.at] : <<F.fn, F.entry, s, L>> \in Points
  <2>1. CoreTypes(st, sc, fc) /\ SoundInv(st, fc)
    BY <1>1 DEF Core
  <2>2. 1 \in 1..Len(st) /\ F \in FrameType
    BY <2>1 DEF CoreTypes
  <2>3. x \in ItemsOf(F)
    BY <2>2, FrameFacts
  <2>4. p \in Points /\ p[1] = F.fn /\ p[2] = F.entry /\ p[3] = x.at /\ p[4] = x.locks
    BY <2>1, <2>2, <2>3 DEF SoundInv, PointOf
  <2>5. LocksAfter(mod, Points, p) = {L}
    <3> HIDE DEF p
    <3> QED
      BY <1>1, <2>4, ZenonT(60) DEF LocksAfter, Straight, Code, CallOps
  <2>6. \A s \in Successors(mod)[x.at], M \in LocksAfter(mod, Points, p) : <<F.fn, F.entry, s, M>> \in Points
    BY <2>4, PointsClosed DEF Env
  <2> QED
    BY <2>5, <2>6
<1> QED
  BY <1>1 DEF GoesOn

-----------------------------------------------------------------------------
(* The steps of a worker keep its invariant.                               *)
Steps(ws, ws2) == WorkerInv(ws2) /\ StillBegun(ws, ws2)

(* The worker is about to visit x.                                         *)
At(ws, x) ==
  WorkerInv(ws) /\ ws.stack # <<>> /\ ws.stack[1].todo # <<>> /\ x = Head(ws.stack[1].todo)

LEMMA AtFacts ==
  ASSUME Env, NEW ws, NEW x, At(ws, x), NEW v, v = Visited(ws)
  PROVE  /\ WorkerAt(ws, 2) /\ ws.stack # <<>> /\ ws.stack[1].todo # <<>>
         /\ x = Head(ws.stack[1].todo) /\ Item(ws) = x /\ Top(ws) = ws.stack[1]
         /\ Len(ws.stack) \in Nat /\ ParentOK(ws.parent) /\ ParentInv(ws.parent)
         /\ x.at \in Stmts(mod) /\ x.locks \in LockSets(mod)
         /\ WorkerAt(v, 1)
         /\ v.stack = ws.stack /\ v.fnCache = ws.fnCache /\ v.parent = ws.parent
         /\ Item(v) = x
         /\ NonRecursive => BoundInv(ws.stack, ws.parent)
<1>1. /\ WorkerAt(ws, 2) /\ ws.stack # <<>> /\ ws.stack[1].todo # <<>>
      /\ x = Head(ws.stack[1].todo) /\ (NonRecursive => BoundInv(ws.stack, ws.parent))
  BY DEF At, WorkerInv
<1>2. /\ Len(ws.stack) \in Nat /\ x.at \in Stmts(mod) /\ x.locks \in LockSets(mod)
      /\ Top(ws) = ws.stack[1] /\ Item(ws) = x
  BY <1>1, TopFacts
<1>3. ParentOK(ws.parent) /\ ParentInv(ws.parent)
  BY <1>1, WorkerFields
<1>4. /\ WorkerAt(v, 1)
      /\ v.stack = ws.stack /\ v.fnCache = ws.fnCache /\ v.parent = ws.parent
  BY <1>1, VisitedInv
<1>5. Item(v) = x
  BY <1>2, <1>4 DEF Item, Top
<1> QED
  BY <1>1, <1>2, <1>3, <1>4, <1>5

LEMMA BegunTrans ==
  ASSUME NEW ws, NEW v, NEW ws2, v.stack = ws.stack, v.fnCache = ws.fnCache, StillBegun(v, ws2)
  PROVE  StillBegun(ws, ws2)
BY DEF StillBegun

LEMMA SameSteps ==
  ASSUME Env, NEW ws, NEW x, At(ws, x), NEW ws2, WorkerAt(ws2, 2),
         SameFrames(ws.stack, ws2.stack), StillBegun(ws, ws2), ws2.parent = ws.parent
  PROVE  Steps(ws, ws2)
<1>1. Len(ws.stack) \in Nat /\ (NonRecursive => BoundInv(ws.stack, ws.parent))
  BY AtFacts
<1>2. NonRecursive => BoundInv(ws2.stack, ws2.parent)
  BY <1>1, BoundSame
<1> QED
  BY <1>2 DEF Steps, WorkerInv

LEMMA CachedStep ==
  ASSUME Env, NEW ws, NEW x, At(ws, x), Key(ws) \in ws.stmtCache, NEW ws2, ws2 = Cached(ws)
  PROVE  Steps(ws, ws2)
<1>1. WorkerAt(ws, 2) /\ ws.stack # <<>> /\ ws.stack[1].todo # <<>>
  BY AtFacts
<1>2. KeyOf(ws.stack[1]) \in ws.stmtCache
  BY <1>1, TopFacts
<1>3. /\ WorkerAt(ws2, 2) /\ SameFrames(ws.stack, ws2.stack) /\ StillBegun(ws, ws2)
      /\ ws2.parent = ws.parent
  BY <1>1, <1>2, CachedInv, SMTT(60)
<1> QED
  BY <1>3, SameSteps

LEMMA RetStep ==
  ASSUME Env, NEW ws, NEW x, At(ws, x), Code(x.at).op = "ret",
         NEW ws2, ws2 = [Visited(ws) EXCEPT !.stack[1].todo = Tail(@),
                                            !.stack[1].exits = @ \cup {Item(ws).locks}]
  PROVE  Steps(ws, ws2)
<1> DEFINE v == Visited(ws)
<1>1. /\ ws.stack # <<>> /\ x = Head(ws.stack[1].todo) /\ Item(ws) = x /\ Item(v) = x
      /\ WorkerAt(v, 1)
      /\ v.stack = ws.stack /\ v.fnCache = ws.fnCache /\ v.parent = ws.parent
  BY AtFacts
<1>2. ws2 = Returned(v)
  BY <1>1 DEF Returned
<1> HIDE DEF v
<1>3. /\ WorkerAt(ws2, 2) /\ SameFrames(v.stack, ws2.stack) /\ StillBegun(v, ws2)
      /\ ws2.parent = v.parent
  <2>1. v.stack # <<>> /\ x = Head(v.stack[1].todo)
    BY <1>1
  <2> QED
    BY <1>1, <1>2, <2>1, RetInv
<1>4. StillBegun(ws, ws2)
  BY <1>1, <1>3, BegunTrans
<1> QED
  BY <1>1, <1>3, <1>4, SameSteps

(* The next statements are visited, after something that leaves the frames *)
(* and the function cache alone.                                           *)
LEMMA FollowStep ==
  ASSUME Env, NEW ws, NEW x, At(ws, x), NEW v, WorkerAt(v, 1),
         v.stack = ws.stack, v.fnCache = ws.fnCache,
         NEW L \in LockSets(mod), GoesOn(ws.stack[1], ws.fnCache, {L}),
         NEW ws2, ws2 = Follow(v, <<L>>)
  PROVE  /\ WorkerAt(ws2, 2) /\ SameFrames(ws.stack, ws2.stack) /\ StillBegun(ws, ws2)
         /\ ws2.parent = v.parent
<1>1. <<L>> \in Seq(LockSets(mod)) /\ Els(<<L>>) = {L}
  BY One
<1>2. ws.stack # <<>> /\ v.stack # <<>> /\ GoesOn(v.stack[1], v.fnCache, Els(<<L>>))
  BY <1>1, AtFacts
<1> DEFINE order == <<L>>
<1> HIDE DEF order
<1>3. /\ WorkerAt(ws2, 2) /\ SameFrames(v.stack, ws2.stack) /\ StillBegun(v, ws2)
      /\ \E st2 : ws2 = Rec(st2, v.stmtCache, v.fnCache, v.mt, v.parent, v.accesses)
  <2>1. order \in Seq(LockSets(mod)) /\ GoesOn(v.stack[1], v.fnCache, Els(order)) /\ ws2 = Follow(v, order)
    BY <1>1, <1>2 DEF order
  <2> QED
    BY <1>2, <2>1, FollowInv
<1>4. ws2.parent = v.parent
  BY <1>3, RecParts
<1>5. StillBegun(ws, ws2)
  BY <1>3, BegunTrans
<1> QED
  BY <1>3, <1>4, <1>5

(* A recorded access is one of a path, in a multithreaded function.        *)
LEMMA DetectRacesInv ==
  ASSUME Env, NEW v, WorkerAt(v, 1), v.stack # <<>>, NEW x, x = Head(v.stack[1].todo),
         Code(x.at).op \in {"load", "store"}, NEW d, d = DetectRaces(v)
  PROVE  /\ WorkerAt(d, 1)
         /\ d.stack = v.stack /\ d.fnCache = v.fnCache /\ d.parent = v.parent
<1> DEFINE F == v.stack[1]
           operand == GetDefOperand(v.parent, Code(x.at).val)
           a == [val |-> operand, store |-> Code(x.at).op = "store", inst |-> x.at,
                 entry |-> F.entry, locks |-> x.locks]
           ac == v.accesses \cup {a}
<1>1. /\ v = Rec(v.stack, v.stmtCache, v.fnCache, v.mt, v.parent, v.accesses)
      /\ MarksOK(v.mt, v.accesses) /\ ParentOK(v.parent) /\ ParentInv(v.parent)
  BY WorkerFields
<1>2. /\ Top(v) = F /\ F.fn \in Functions /\ F.entry \in LockSets(mod) /\ Item(v) = x
      /\ x.at \in Stmts(mod) /\ x.locks \in LockSets(mod)
      /\ Regular => PointOf(F) \in Points
  BY TopFacts, SMTT(60)
<1>3. operand \in mod.values /\ operand \in DenotesOf[mod][Code(x.at).val]
  <2>1. Code(x.at).val \in mod.values
    BY <1>2, CodeFacts, SMTT(60)
  <2> QED
    BY <1>1, <2>1, DefOperand
<1>4. d = IF operand \in mod.const \/ F.fn \notin v.mt THEN v ELSE [v EXCEPT !.accesses = ac]
  BY <1>2 DEF DetectRaces
<1>5. CASE operand \in mod.const \/ F.fn \notin v.mt
  BY <1>4, <1>5, ZenonT(60)
<1>6. CASE ~(operand \in mod.const \/ F.fn \notin v.mt)
  <2>1. a \in AccessType
    <3>1. (Code(x.at).op = "store") \in BOOLEAN
      BY SMTT(60)
    <3> HIDE DEF operand
    <3> QED
      BY <1>2, <1>3, <3>1 DEF AccessType
  <2>2. Regular => AccessReal(a)
    <3>1. Regular => /\ PointOf(F) \in Points /\ PointOf(F)[3] = x.at /\ PointOf(F)[4] = x.locks
                     /\ PointOf(F)[1] \in Multithreaded
      BY <1>1, <1>2, <1>6 DEF PointOf, MarksOK
    <3>2. /\ a.val = operand /\ a.store = (Code(x.at).op = "store") /\ a.inst = x.at /\ a.locks = x.locks
      OBVIOUS
    <3> HIDE DEF a, operand, F
    <3>3. Code(a.inst).op = (IF a.store THEN "store" ELSE "load")
      BY <3>2
    <3>4. Regular => \E p \in Points : p[3] = a.inst /\ p[4] = a.locks /\ p[1] \in Multithreaded
      BY <3>1, <3>2
    <3> QED
      BY <1>3, <3>2, <3>3, <3>4 DEF AccessReal
  <2> HIDE DEF a
  <2>3. MarksOK(v.mt, ac)
    BY <1>1, <2>1, <2>2 DEF MarksOK
  <2> HIDE DEF ac
  <2>4. d = Rec(v.stack, v.stmtCache, v.fnCache, v.mt, v.parent, ac)
    BY <1>1, <1>4, <1>6, SMTT(60) DEF Rec
  <2> QED
    BY <2>3, <2>4, NewMarks, SMTT(60)
<1> QED
  BY <1>5, <1>6

LEMMA AccessStep ==
  ASSUME Env, NEW ws, NEW x, At(ws, x), Code(x.at).op \in {"load", "store"},
         NEW ws2, ws2 = Follow(DetectRaces(Visited(ws)), <<Item(ws).locks>>)
  PROVE  Steps(ws, ws2)
<1> DEFINE v == Visited(ws)
           d == DetectRaces(v)
<1>1. /\ WorkerAt(ws, 2) /\ ws.stack # <<>> /\ ws.stack[1].todo # <<>>
      /\ x = Head(ws.stack[1].todo) /\ Item(ws) = x
      /\ x.locks \in LockSets(mod) /\ WorkerAt(v, 1)
      /\ v.stack = ws.stack /\ v.fnCache = ws.fnCache /\ v.parent = ws.parent
  BY AtFacts
<1> HIDE DEF v
<1>2. /\ WorkerAt(d, 1)
      /\ d.stack = v.stack /\ d.fnCache = v.fnCache /\ d.parent = v.parent
  <2>1. v.stack # <<>> /\ x = Head(v.stack[1].todo)
    BY <1>1, SMTT(60)
  <2> QED
    BY <1>1, <2>1, DetectRacesInv
<1> HIDE DEF d
<1>3. GoesOn(ws.stack[1], ws.fnCache, {x.locks})
  <2>1. Code(x.at).op \notin CallOps \cup {"ret"} /\ x.locks = Straight(x.at, x.locks)
    BY DEF CallOps, Straight
  <2>2. Core(ws.stack, ws.stmtCache, ws.fnCache, 2)
    BY <1>1, WorkerFields
  <2> QED
    BY <1>1, <2>1, <2>2, PlainGoesOn
<1>4. ws2 = Follow(d, <<x.locks>>)
  BY <1>1, SMTT(60) DEF d, v
<1>5. /\ WorkerAt(ws2, 2) /\ SameFrames(ws.stack, ws2.stack) /\ StillBegun(ws, ws2)
      /\ ws2.parent = d.parent
  <2>1. d.stack = ws.stack /\ d.fnCache = ws.fnCache
    BY <1>1, <1>2
  <2> QED
    BY <1>1, <1>2, <1>3, <1>4, <2>1, FollowStep, ZenonT(60)
<1> QED
  BY <1>1, <1>2, <1>5, SameSteps

(* getLockValue finds nothing behind the value a mutex goes by.            *)
LEMMA LockedStraight ==
  ASSUME Env, NEW ws, NEW x, At(ws, x), Code(x.at).op \in {"lock", "unlock"}
  PROVE  /\ Locked(ws) \in LockSets(mod)
         /\ Regular => Locked(ws) = Straight(x.at, x.locks)
<1> DEFINE val == Code(x.at).val
           base == mod.base[val]
           l == GetLockValue(ws, val)
<1>1. /\ Item(ws) = x /\ x.at \in Stmts(mod) /\ x.locks \in LockSets(mod)
      /\ ParentOK(ws.parent) /\ ParentInv(ws.parent)
  BY AtFacts
<1>2. val \in mod.values /\ base \in mod.values \cup {NoValue}
  BY <1>1, CodeFacts, MutexType DEF Env
<1>3. base # NoValue =>
        /\ GetDefOperand(ws.parent, base) \in mod.values
        /\ base \notin DOMAIN ws.parent /\ mod.cast[base] = NoValue => GetDefOperand(ws.parent, base) = base
  BY <1>1, <1>2, DefOperand
<1>4. l \in mod.values
  BY <1>2, <1>3 DEF GetLockValue
<1>5. Regular => l = MutexOf(mod, val)
  <2>1. CASE base = NoValue
    BY <2>1 DEF GetLockValue, MutexOf
  <2>2. CASE base # NoValue
    <3>1. ASSUME Regular PROVE base \notin Traced(mod)
      BY <1>1, <2>2, <3>1 DEF Regular
    <3>2. ASSUME Regular PROVE mod.cast[base] = NoValue
      BY <1>2, <2>2, <3>1, <3>2 DEF Traced
    <3>3. ASSUME Regular, base \in DOMAIN ws.parent PROVE FALSE
      <4>1. ws.parent[base] \in Arguments(mod)[base]
        BY <1>1, <3>3 DEF ParentInv
      <4>2. PICK t \in Stmts(mod) : \/ mod.code[t].op \in CallOps /\ mod.formal[mod.code[t].fn] = base
                                    \/ mod.code[t].op = "bitcast" /\ mod.code[t].val = base
        BY <1>2, <2>2, <4>1, ZenonT(60) DEF Arguments
      <4>3. mod.code[t].op \in CallOps => mod.code[t].fn \in DOMAIN mod.first
        BY CallFacts DEF Env
      <4>4. base \in Traced(mod)
        BY <4>2, <4>3 DEF Traced
      <4> QED
        BY <3>1, <3>3, <4>4
    <3>4. l = GetDefOperand(ws.parent, base) /\ MutexOf(mod, val) = base
      BY <2>2 DEF GetLockValue, MutexOf
    <3> HIDE DEF l, base
    <3> QED
      BY <1>3, <2>2, <3>2, <3>3, <3>4
  <2> QED
    BY <2>1, <2>2
<1>6. Locked(ws) = IF Code(x.at).op = "lock" THEN x.locks \cup {l} ELSE x.locks \ {l}
  BY <1>1 DEF Locked
<1> HIDE DEF l
<1>7. Locked(ws) \in LockSets(mod)
  BY <1>1, <1>4, <1>6 DEF LockSets
<1> QED
  BY <1>5, <1>6, <1>7 DEF Straight

LEMMA LockStep ==
  ASSUME Env, NEW ws, NEW x, At(ws, x), Code(x.at).op \in {"lock", "unlock"},
         NEW ws2, ws2 = Follow(Visited(ws), <<Locked(ws)>>)
  PROVE  Steps(ws, ws2)
<1> DEFINE v == Visited(ws)
           L == Locked(ws)
<1>1. /\ WorkerAt(ws, 2) /\ ws.stack # <<>> /\ ws.stack[1].todo # <<>>
      /\ x = Head(ws.stack[1].todo) /\ WorkerAt(v, 1)
      /\ v.stack = ws.stack /\ v.fnCache = ws.fnCache /\ v.parent = ws.parent
  BY AtFacts
<1>2. L \in LockSets(mod) /\ (Regular => L = Straight(x.at, x.locks))
  BY LockedStraight, SMTT(60)
<1> HIDE DEF v, L
<1>3. GoesOn(ws.stack[1], ws.fnCache, {L})
  <2>1. Code(x.at).op \notin CallOps \cup {"ret"}
    BY DEF CallOps
  <2>2. Core(ws.stack, ws.stmtCache, ws.fnCache, 2)
    BY <1>1, WorkerFields
  <2> QED
    BY <1>1, <1>2, <2>1, <2>2, PlainGoesOn
<1>4. ws2 = Follow(v, <<L>>)
  BY DEF v, L
<1>5. /\ WorkerAt(ws2, 2) /\ SameFrames(ws.stack, ws2.stack) /\ StillBegun(ws, ws2)
      /\ ws2.parent = v.parent
  BY <1>1, <1>2, <1>3, <1>4, FollowStep, ZenonT(60)
<1> QED
  BY <1>1, <1>5, SameSteps

(* What Plain does when the next statements are in the frame.              *)
Casted(ws, c) == IF c.op = "bitcast" THEN [ws EXCEPT !.parent = Bind(@, c.val, c.arg)] ELSE ws

LEMMA PlainStep ==
  ASSUME Env, NEW ws, NEW x, At(ws, x), Code(x.at).op \in {"skip", "pthread", "bitcast"},
         NEW ws1, ws1 = Follow(Visited(ws), <<Item(ws).locks>>),
         NEW ws2, ws2 = Casted(ws1, Code(x.at))
  PROVE  Steps(ws, ws2)
<1> DEFINE v == Visited(ws)
           c == Code(x.at)
<1>1. /\ WorkerAt(ws, 2) /\ ws.stack # <<>> /\ ws.stack[1].todo # <<>>
      /\ x = Head(ws.stack[1].todo) /\ Item(ws) = x
      /\ x.at \in Stmts(mod) /\ x.locks \in LockSets(mod) /\ WorkerAt(v, 1)
      /\ v.stack = ws.stack /\ v.fnCache = ws.fnCache /\ v.parent = ws.parent
      /\ ParentOK(ws.parent) /\ ParentInv(ws.parent) /\ Len(ws.stack) \in Nat
      /\ NonRecursive => BoundInv(ws.stack, ws.parent)
  BY AtFacts
<1>2. ws1 = Follow(v, <<x.locks>>)
  BY <1>1, SMTT(60)
<1> HIDE DEF v
<1>3. GoesOn(ws.stack[1], ws.fnCache, {x.locks})
  <2>1. Code(x.at).op \notin CallOps \cup {"ret"} /\ x.locks = Straight(x.at, x.locks)
    BY DEF CallOps, Straight
  <2>2. Core(ws.stack, ws.stmtCache, ws.fnCache, 2)
    BY <1>1, WorkerFields, SMTT(60)
  <2> QED
    BY <1>1, <2>1, <2>2, PlainGoesOn
<1>4. /\ WorkerAt(ws1, 2) /\ SameFrames(ws.stack, ws1.stack) /\ StillBegun(ws, ws1)
      /\ ws1.parent = ws.parent
  BY <1>1, <1>2, <1>3, FollowStep, ZenonT(60)
<1>5. CASE c.op # "bitcast"
  <2>1. ws2 = ws1
    BY <1>5 DEF Casted
  <2> QED
    BY <1>4, <2>1, SameSteps
<1>6. CASE c.op = "bitcast"
  <2> DEFINE pa == Bind(ws.parent, c.val, c.arg)
  <2>1. ws2 = WithParent(ws1, pa)
    BY <1>4, <1>6 DEF WithParent, Casted
  <2>2. /\ c.val \in mod.values /\ c.arg \in mod.values
        /\ \A f \in Functions : mod.formal[f] # c.val
    BY <1>1, <1>6, CodeFacts, ZenonT(60)
  <2>3. c.arg \in Arguments(mod)[c.val]
    BY <1>1, <1>6, <2>2, ZenonT(60) DEF Arguments, Code
  <2>4. ParentOK(pa) /\ ParentInv(pa) /\ AgreeBut(ws.parent, pa, c.val)
    BY <1>1, <2>2, <2>3, BindOK, ZenonT(60)
  <2> HIDE DEF pa
  <2>5. WorkerAt(ws2, 2) /\ ws2.stack = ws1.stack /\ ws2.fnCache = ws1.fnCache /\ ws2.parent = pa
    BY <1>4, <2>1, <2>4, NewParent
  <2>6. ASSUME NonRecursive PROVE BoundInv(ws2.stack, ws2.parent)
    <3>1. BoundInv(ws1.stack, ws.parent)
      BY <1>1, <1>4, <2>6, BoundSame
    <3>2. \A i \in 1..(Len(ws1.stack) - 1) : mod.formal[ws1.stack[i].fn] # c.val
      <4>1. Core(ws1.stack, ws1.stmtCache, ws1.fnCache, 2)
        BY <1>4, WorkerFields
      <4>2. ws1.stack \in Seq(FrameType)
        BY <4>1 DEF Core, CoreTypes
      <4>3. \A i \in 1..(Len(ws1.stack) - 1) : ws1.stack[i] \in FrameType
        BY <4>2
      <4> QED
        BY <2>2, <4>3, FrameFacts
    <3>3. BoundInv(ws1.stack, pa)
      BY <2>2, <2>4, <3>1, <3>2, BoundElse
    <3> QED
      BY <2>5, <3>3
  <2>7. StillBegun(ws, ws2)
    BY <1>4, <2>5 DEF StillBegun
  <2> QED
    BY <2>5, <2>6, <2>7 DEF Steps, WorkerInv
<1> QED
  BY <1>5, <1>6

(* A call has ended, with a summary, at a declaration or by recursion.     *)
AtCall(b, x, f) ==
  /\ WorkerAt(b, 1) /\ b.stack # <<>> /\ x = Head(b.stack[1].todo)
  /\ Code(x.at).op \in CallOps /\ f = Code(x.at).fn

LEMMA AfterCallInv ==
  ASSUME Env, NEW b, NEW x, NEW f, AtCall(b, x, f),
         NEW exits, CallEnds(b.stack, b.fnCache, f, x.locks, exits),
         NEW ws2 \in AfterCall(b, f, exits)
  PROVE  /\ WorkerAt(ws2, 2) /\ SameFrames(b.stack, ws2.stack) /\ StillBegun(b, ws2)
         /\ ws2.parent = Unbind(b.parent, mod.formal[f])
<1> SUFFICES
      ASSUME WorkerAt(b, 1), b.stack # <<>>, x = Head(b.stack[1].todo),
             Code(x.at).op \in CallOps, f = Code(x.at).fn
      PROVE  /\ WorkerAt(ws2, 2) /\ SameFrames(b.stack, ws2.stack) /\ StillBegun(b, ws2)
             /\ ws2.parent = Unbind(b.parent, mod.formal[f])
  BY ZenonT(60) DEF AtCall
<1> DEFINE E == Going(exits, x.locks)
           pa == Unbind(b.parent, mod.formal[f])
<1>1. /\ Item(b) = x /\ x.locks \in LockSets(mod) /\ b.stack[1].todo # <<>>
      /\ Core(b.stack, b.stmtCache, b.fnCache, 1)
  BY TopFacts, ZenonT(60)
<1>2. GoesOn(b.stack[1], b.fnCache, E)
  BY <1>1, CallGoesOn, ZenonT(60)
<1>3. E \in SUBSET LockSets(mod)
  BY <1>1, ZenonT(60) DEF CallEnds, Going
<1>4. PICK order \in Orders(E) :
        ws2 = [Follow(b, order) EXCEPT !.parent = Unbind(@, mod.formal[f])]
  BY <1>1, ZenonT(60) DEF AfterCall, Going
<1> HIDE DEF E
<1>5. order \in Seq(LockSets(mod)) /\ Els(order) = E
  BY <1>3, OrdersFacts, ZenonT(60)
<1> DEFINE ws1 == Follow(b, order)
<1>6. /\ WorkerAt(ws1, 2) /\ SameFrames(b.stack, ws1.stack) /\ StillBegun(b, ws1)
      /\ \E st2 : ws1 = Rec(st2, b.stmtCache, b.fnCache, b.mt, b.parent, b.accesses)
  BY <1>2, <1>5, FollowInv, ZenonT(60)
<1>7. ws1.parent = b.parent
  <2> HIDE DEF ws1
  <2>1. PICK st2 : ws1 = Rec(st2, b.stmtCache, b.fnCache, b.mt, b.parent, b.accesses)
    BY <1>6, ZenonT(60)
  <2> QED
    BY ONLY <2>1, RecParts
<1>8. ws2 = WithParent(ws1, pa)
  BY <1>4, <1>7, ZenonT(60) DEF WithParent
<1>9. ParentOK(pa) /\ ParentInv(pa)
  <2>1. ParentOK(b.parent) /\ ParentInv(b.parent)
    BY WorkerFields, SMTT(60)
  <2> QED
    BY <2>1, UnbindOK, ZenonT(60)
<1> HIDE DEF ws1, pa
<1>10. WorkerAt(ws2, 2) /\ ws2.stack = ws1.stack /\ ws2.fnCache = ws1.fnCache /\ ws2.parent = pa
  <2>1. WorkerAt(ws1, 2)
    BY <1>6, ZenonT(60)
  <2> QED
    BY <1>8, <1>9, <2>1, NewParent, SMTT(60)
<1>11. SameFrames(b.stack, ws2.stack) /\ StillBegun(b, ws2)
  BY <1>6, <1>10, ZenonT(60) DEF StillBegun
<1> QED
  BY <1>10, <1>11, ZenonT(60) DEF pa

(* The flag and the parameter of the function that is called.              *)
Called(v, c) ==
  [v EXCEPT !.mt = IF Top(v).fn \in @ THEN @ \cup {c.fn} ELSE @,
            !.parent = Bind(@, mod.formal[c.fn], c.arg)]

LEMMA CalledInv ==
  ASSUME Env, NEW v, NEW x, NEW f, AtCall(v, x, f), NEW b, b = Called(v, Code(x.at))
  PROVE  /\ WorkerAt(b, 1) /\ b.stack = v.stack /\ b.fnCache = v.fnCache
         /\ b.parent = Bind(v.parent, mod.formal[f], Code(x.at).arg)
         /\ ParentOK(b.parent) /\ ParentInv(b.parent)
         /\ AgreeBut(v.parent, b.parent, mod.formal[f])
         /\ mod.formal[f] # NoValue =>
              mod.formal[f] \in DOMAIN b.parent /\ b.parent[mod.formal[f]] = Code(x.at).arg
         /\ b.mt \subseteq Functions
<1>0. /\ WorkerAt(v, 1) /\ v.stack # <<>> /\ x = Head(v.stack[1].todo)
      /\ Code(x.at).op \in CallOps /\ f = Code(x.at).fn
  BY SMTT(60) DEF AtCall
<1> USE <1>0
<1> DEFINE c == Code(x.at)
           F == v.stack[1]
           p == mod.formal[f]
           a == c.arg
           pa == Bind(v.parent, p, a)
           mt2 == IF F.fn \in v.mt THEN v.mt \cup {f} ELSE v.mt
<1>1. /\ v = Rec(v.stack, v.stmtCache, v.fnCache, v.mt, v.parent, v.accesses)
      /\ Core(v.stack, v.stmtCache, v.fnCache, 1) /\ MarksOK(v.mt, v.accesses)
      /\ ParentOK(v.parent) /\ ParentInv(v.parent)
  BY WorkerFields, SMTT(60)
<1>2. /\ Top(v) = F /\ F.fn \in Functions /\ x.at \in Stmts(mod) /\ x.at \in Flow(F.fn)
  BY TopFacts, ZenonT(60)
<1>3. f \in Functions /\ (p # NoValue => a \in mod.values)
  BY <1>2, CodeFacts, ZenonT(60)
<1>4. p # NoValue => p \in mod.values
  BY <1>3, FormalFacts, ZenonT(60)
<1>5. p # NoValue => a \in Arguments(mod)[p]
  BY <1>2, <1>4, ZenonT(60) DEF Arguments, Code
<1>6. b = Rec(v.stack, v.stmtCache, v.fnCache, mt2, pa, v.accesses)
  <2>1. b = [v EXCEPT !.mt = mt2, !.parent = pa]
    BY <1>2, ZenonT(60) DEF Called
  <2> HIDE DEF mt2, pa
  <2> QED
    BY <1>1, <2>1, ZenonT(60) DEF Rec
<1>7. MarksOK(mt2, v.accesses)
  <2>1. f \in Calls(mod)[F.fn]
    BY <1>2, CallFacts, ZenonT(60) DEF Env, Functions, Flow, Code
  <2>2. F.fn \in Multithreaded => f \in Multithreaded
    BY <2>1, MultiClosed, SMTT(60)
  <2> HIDE DEF F
  <2> QED
    BY <1>1, <1>3, <2>2, ZenonT(60) DEF MarksOK
<1>8. /\ ParentOK(pa) /\ ParentInv(pa) /\ AgreeBut(v.parent, pa, p)
      /\ p # NoValue => p \in DOMAIN pa /\ pa[p] = a
  <2> HIDE DEF p, a
  <2> QED
    BY <1>1, <1>3, <1>4, <1>5, BindOK
<1> HIDE DEF pa, mt2
<1>9. WorkerAt(b, 1)
  BY <1>1, <1>6, <1>7, <1>8, RecFields, ZenonT(60)
<1>10. b.stack = v.stack /\ b.fnCache = v.fnCache /\ b.parent = pa /\ b.mt = mt2
  BY ONLY <1>6, RecParts
<1>11. mt2 \subseteq Functions
  BY <1>7 DEF MarksOK
<1> QED
  BY <1>8, <1>9, <1>10, <1>11, ZenonT(60) DEF pa

(* Two changes to one parameter.                                           *)
LEMMA AgreeTrans ==
  ASSUME NEW parent, NEW pa, NEW pb, NEW v, AgreeBut(parent, pa, v), AgreeBut(pa, pb, v)
  PROVE  AgreeBut(parent, pb, v)
BY DEF AgreeBut

LEMMA CallAtOnceStep ==
  ASSUME Env, NEW ws, NEW x, At(ws, x), Code(x.at).op \in CallOps, NEW f, f = Code(x.at).fn,
         NEW b, b = Called(Visited(ws), Code(x.at)), ReturnsAtOnce(b, f, x.locks),
         NEW ws2 \in AfterCall(b, f, ExitsAtOnce(b, f, x.locks))
  PROVE  Steps(ws, ws2)
<1> DEFINE v == Visited(ws)
           exits == ExitsAtOnce(b, f, x.locks)
           p == mod.formal[f]
<1>1. /\ ws.stack # <<>> /\ ws.stack[1].todo # <<>> /\ x = Head(ws.stack[1].todo)
      /\ WorkerAt(v, 1) /\ WorkerAt(ws, 2) /\ x.at \in Stmts(mod)
      /\ v.stack = ws.stack /\ v.fnCache = ws.fnCache /\ v.parent = ws.parent
      /\ Len(ws.stack) \in Nat
      /\ NonRecursive => BoundInv(ws.stack, ws.parent)
  BY AtFacts
<1>2. b = Called(v, Code(x.at))
  OBVIOUS
<1> HIDE DEF v
<1>3. /\ WorkerAt(b, 1) /\ b.stack = ws.stack /\ b.fnCache = ws.fnCache
      /\ ParentOK(b.parent) /\ ParentInv(b.parent)
      /\ AgreeBut(ws.parent, b.parent, p)
  <2>1. AtCall(v, x, f)
    BY <1>1, ZenonT(60) DEF AtCall
  <2>2. /\ WorkerAt(b, 1) /\ b.stack = v.stack /\ b.fnCache = v.fnCache
        /\ ParentOK(b.parent) /\ ParentInv(b.parent)
        /\ AgreeBut(v.parent, b.parent, p)
    BY <1>2, <2>1, CalledInv
  <2> QED
    BY <1>1, <2>2, ZenonT(60)
<1>4. CallEnds(b.stack, b.fnCache, f, x.locks, exits)
  <2>1. Core(b.stack, b.stmtCache, b.fnCache, 1)
    BY <1>3, WorkerFields
  <2>2. b.stack \in Seq(FrameType) /\ b.fnCache \subseteq SummaryType
    BY <2>1 DEF Core, CoreTypes
  <2>3. DOMAIN b.stack = 1..Len(b.stack)
    BY <2>2
  <2>4. exits = UNION {e.exits : e \in {d \in b.fnCache : d.fn = f /\ d.entry = x.locks}}
    BY DEF ExitsAtOnce, Summaries
  <2>5. exits \subseteq LockSets(mod)
    BY <2>2, <2>4 DEF SummaryType
  <2>6. \/ mod.first[f] = NoValue
        \/ Summarised(b.fnCache, f, x.locks)
        \/ \E i \in 1..Len(b.stack) : b.stack[i].fn = f
    BY <2>3 DEF ReturnsAtOnce, Summaries, Summarised, OnStack
  <2> HIDE DEF exits
  <2> QED
    BY <2>4, <2>5, <2>6 DEF CallEnds
<1> HIDE DEF exits
<1>5. /\ WorkerAt(ws2, 2) /\ SameFrames(b.stack, ws2.stack) /\ StillBegun(b, ws2)
      /\ ws2.parent = Unbind(b.parent, p)
  <2>1. AtCall(b, x, f) /\ ws2 \in AfterCall(b, f, exits)
    BY <1>1, <1>3, ZenonT(60) DEF exits, AtCall
  <2> QED
    BY <1>4, <2>1, AfterCallInv
<1>6. p \notin DOMAIN ws2.parent /\ AgreeBut(ws.parent, ws2.parent, p)
  <2>1. p \notin DOMAIN ws2.parent /\ AgreeBut(b.parent, ws2.parent, p)
    BY <1>3, <1>5, UnbindOK, SMTT(60)
  <2> QED
    BY <1>3, <2>1, AgreeTrans
<1>7. ASSUME NonRecursive PROVE BoundInv(ws2.stack, ws2.parent)
  <2> DEFINE st == ws.stack
  <2>1. Core(st, ws.stmtCache, ws.fnCache, 2)
    BY <1>1, WorkerFields, ZenonT(60)
  <2>2. st \in Seq(FrameType) /\ StackInv(st, ws.stmtCache, 2)
    BY <2>1 DEF Core, CoreTypes
  <2>3. \A i \in 1..Len(st) : st[i].fn # f
    BY <1>1, <1>7, <2>2, CalledFresh, ZenonT(60)
  <2>4. f \in Functions
    BY <1>1, CodeFacts, ZenonT(60)
  <2>5. ASSUME NEW i \in 1..(Len(st) - 1), mod.formal[st[i].fn] # NoValue
        PROVE  mod.formal[st[i].fn] # p
    <3>1. i \in 1..Len(st)
      <4> HIDE DEF st
      <4>1. Len(st) \in Nat
        BY <2>2
      <4> QED
        BY <4>1
    <3>2. st[i] \in FrameType
      BY <2>2, <3>1
    <3>3. st[i].fn \in Functions /\ st[i].fn # f
      BY <2>3, <3>1, <3>2, FrameFacts
    <3> QED
      BY <2>4, <2>5, <3>3, FormalFacts, SMTT(60)
  <2>6. BoundInv(st, ws2.parent)
    <3>1. BoundInv(st, ws.parent)
      BY <1>1, <1>7, ZenonT(60)
    <3>2. \A g \in Functions : mod.formal[g] = p => p \notin DOMAIN ws2.parent
      BY <1>6
    <3> HIDE DEF p, st
    <3> QED
      BY <1>6, <2>5, <3>1, <3>2, BoundElse
  <2>7. SameFrames(st, ws2.stack)
    BY <1>3, <1>5
  <2> QED
    BY <1>1, <2>6, <2>7, BoundSame, ZenonT(60)
<1>8. StillBegun(ws, ws2)
  BY <1>3, <1>5, BegunTrans
<1> QED
  BY <1>5, <1>7, <1>8 DEF Steps, WorkerInv

(* A new frame.                                                            *)
Enters(b, f, L, o) ==
  /\ WorkerAt(b, o) /\ f \in Functions /\ L \in LockSets(mod) /\ ~ReturnsAtOnce(b, f, L)
  /\ IF b.stack = <<>> THEN o = 2 /\ f \in Roots(mod, mode) /\ L = {}
     ELSE /\ o = 1
          /\ Code(Head(b.stack[1].todo).at).op \in CallOps
          /\ Code(Head(b.stack[1].todo).at).fn = f
          /\ Head(b.stack[1].todo).locks = L

LEMMA EnterInv ==
  ASSUME Env, NEW b, NEW f, NEW L, NEW o, Enters(b, f, L, o), NEW ws2, ws2 = Enter(b, f, L)
  PROVE  /\ WorkerAt(ws2, 2) /\ ws2.stack = <<Frame(f, L)>> \o b.stack
         /\ ws2.fnCache = b.fnCache /\ ws2.parent = b.parent
         /\ StillBegun(b, ws2) /\ Begun(ws2.stack, ws2.fnCache, f, L)
         /\ Frame(f, L) \in FrameType /\ Frame(f, L).fn = f
         /\ b.stack \in Seq(FrameType) /\ \A i \in 1..Len(b.stack) : b.stack[i].fn # f
<1> DEFINE st == b.stack
           sc == b.stmtCache
           fc == b.fnCache
           st2 == <<Frame(f, L)>> \o st
<1>1. /\ WorkerAt(b, o) /\ f \in Functions /\ L \in LockSets(mod) /\ ~ReturnsAtOnce(b, f, L)
      /\ st = <<>> => o = 2 /\ f \in Roots(mod, mode) /\ L = {}
      /\ st # <<>> => /\ o = 1
                      /\ Code(Head(st[1].todo).at).op \in CallOps
                      /\ Code(Head(st[1].todo).at).fn = f
                      /\ Head(st[1].todo).locks = L
  BY DEF Enters
<1>2. /\ b = Rec(st, sc, fc, b.mt, b.parent, b.accesses) /\ Core(st, sc, fc, o)
      /\ MarksOK(b.mt, b.accesses) /\ ParentOK(b.parent) /\ ParentInv(b.parent)
  BY <1>1, WorkerFields
<1>3. Core(st, sc, fc, 1)
  <2>1. CASE st = <<>>
    BY <1>1, <1>2, <2>1, EmptyCore
  <2>2. CASE st # <<>>
    BY <1>1, <1>2, <2>2
  <2> QED
    BY <2>1, <2>2
<1>4. st \in Seq(FrameType) /\ DOMAIN st = 1..Len(st)
  BY <1>3 DEF Core, CoreTypes
<1>5. /\ mod.first[f] # NoValue /\ ~Summarised(fc, f, L) /\ \A i \in 1..Len(st) : st[i].fn # f
  BY <1>1, <1>4 DEF ReturnsAtOnce, Summaries, Summarised, OnStack
<1>6. Frame(f, L) \in FrameType /\ Frame(f, L).fn = f
  BY <1>1, <1>5, FrameIsTyped
<1>7. ws2 = Rec(st2, sc, fc, b.mt, b.parent, b.accesses)
  <2>1. ws2 = [b EXCEPT !.stack = st2]
    BY DEF Enter
  <2> HIDE DEF st2
  <2> QED
    BY <1>2, <2>1 DEF Rec
<1>8. st2 = <<Frame(f, L)>> \o st
  OBVIOUS
<1> HIDE DEF st2, st, sc, fc
<1>9. /\ Core(st2, sc, fc, 2)
      /\ \A g, M : Begun(st, fc, g, M) => Begun(st2, fc, g, M)
      /\ Begun(st2, fc, f, L)
  <2>1. Pushes(st, st2, sc, fc, f, L)
    BY <1>1, <1>3, <1>5, <1>8 DEF Pushes
  <2> QED
    BY <2>1, Push
<1>10. WorkerAt(ws2, 2)
  BY <1>2, <1>7, <1>9, RecFields
<1>11. ws2.stack = st2 /\ ws2.fnCache = fc /\ ws2.parent = b.parent
  BY <1>7, RecParts
<1>12. StillBegun(b, ws2)
  BY <1>9, <1>11, SMTT(60) DEF StillBegun, st, fc
<1> QED
  BY <1>4, <1>5, <1>6, <1>8, <1>9, <1>10, <1>11, <1>12 DEF st, fc

LEMMA CallEnterStep ==
  ASSUME Env, NEW ws, NEW x, At(ws, x), Code(x.at).op \in CallOps, NEW f, f = Code(x.at).fn,
         NEW b, b = Called(Visited(ws), Code(x.at)), ~ReturnsAtOnce(b, f, x.locks),
         NEW ws2, ws2 = Enter(b, f, x.locks)
  PROVE  Steps(ws, ws2)
<1> DEFINE v == Visited(ws)
           p == mod.formal[f]
           L == x.locks
           F == Frame(f, L)
<1>1. /\ ws.stack # <<>> /\ x = Head(ws.stack[1].todo)
      /\ WorkerAt(v, 1) /\ x.at \in Stmts(mod) /\ x.locks \in LockSets(mod)
      /\ v.stack = ws.stack /\ v.fnCache = ws.fnCache /\ v.parent = ws.parent
      /\ NonRecursive => BoundInv(ws.stack, ws.parent)
  BY AtFacts
<1>2. b = Called(v, Code(x.at))
  OBVIOUS
<1> HIDE DEF v
<1>3. /\ WorkerAt(b, 1) /\ b.stack = ws.stack /\ b.fnCache = ws.fnCache
      /\ ParentOK(b.parent) /\ AgreeBut(ws.parent, b.parent, p)
      /\ p # NoValue => p \in DOMAIN b.parent /\ b.parent[p] = Code(x.at).arg
  <2>1. AtCall(v, x, f)
    BY <1>1 DEF AtCall
  <2>2. /\ WorkerAt(b, 1) /\ b.stack = v.stack /\ b.fnCache = v.fnCache
        /\ ParentOK(b.parent) /\ AgreeBut(v.parent, b.parent, p)
        /\ p # NoValue => p \in DOMAIN b.parent /\ b.parent[p] = Code(x.at).arg
    BY <1>2, <2>1, CalledInv
  <2> QED
    BY <1>1, <2>2, ZenonT(60)
<1>4. Enters(b, f, L, 1)
  <2>1. f \in Functions
    BY <1>1, CodeFacts, ZenonT(60)
  <2> QED
    BY <1>1, <1>3, <2>1, ZenonT(60) DEF Enters
<1>5. /\ WorkerAt(ws2, 2) /\ ws2.stack = <<F>> \o b.stack /\ ws2.parent = b.parent
      /\ StillBegun(b, ws2) /\ F \in FrameType /\ F.fn = f
      /\ b.stack \in Seq(FrameType) /\ \A i \in 1..Len(b.stack) : b.stack[i].fn # f
  BY <1>4, EnterInv, SMTT(60)
<1>6. StillBegun(ws, ws2)
  BY <1>3, <1>5, BegunTrans
<1>7. ASSUME NonRecursive PROVE BoundInv(ws2.stack, ws2.parent)
  <2> DEFINE st == ws.stack
             pa == b.parent
  <2>1. /\ st \in Seq(FrameType) /\ st # <<>> /\ BoundInv(st, ws.parent)
        /\ F \in FrameType /\ ws2.stack = <<F>> \o st /\ \A i \in 1..Len(st) : st[i].fn # F.fn
    BY <1>1, <1>3, <1>5, <1>7, ZenonT(60)
  <2>2. /\ ParentOK(pa) /\ AgreeBut(ws.parent, pa, p) /\ p = mod.formal[F.fn]
        /\ p # NoValue => p \in DOMAIN pa /\ pa[p] = Code(Head(st[1].todo).at).arg
    BY <1>1, <1>3, <1>5, ZenonT(60)
  <2> HIDE DEF st, pa, F, p
  <2>3. BoundInv(ws2.stack, pa)
    BY <2>1, <2>2, BoundPush
  <2> QED
    BY <1>5, <2>3 DEF pa
<1> QED
  BY <1>5, <1>6, <1>7 DEF Steps, WorkerInv

(* The worker is at the end of a function.                                 *)
AtEnd(ws) == WorkerInv(ws) /\ ws.stack # <<>> /\ ws.stack[1].todo = <<>>

SummaryOf(F) == [fn |-> F.fn, entry |-> F.entry, exits |-> F.exits]
Ended(ws)    == [ws EXCEPT !.stack = Tail(@), !.fnCache = @ \cup {SummaryOf(Top(ws))}]

LEMMA EndedInv ==
  ASSUME Env, NEW ws, AtEnd(ws), NEW b, b = Ended(ws)
  PROVE  /\ WorkerAt(b, 1) /\ b.stack = Tail(ws.stack) /\ b.parent = ws.parent
         /\ b.fnCache = ws.fnCache \cup {SummaryOf(ws.stack[1])}
         /\ StillBegun(ws, b)
         /\ ws.stack \in Seq(FrameType) /\ ws.stack[1] \in FrameType
         /\ StackInv(ws.stack, ws.stmtCache, 2) /\ ParentOK(ws.parent) /\ ParentInv(ws.parent)
<1> DEFINE st == ws.stack
           sc == ws.stmtCache
           fc == ws.fnCache
           e == SummaryOf(st[1])
           st2 == Tail(st)
           fc2 == fc \cup {e}
<1>1. WorkerAt(ws, 2) /\ st # <<>> /\ st[1].todo = <<>>
  BY DEF AtEnd, WorkerInv
<1>2. /\ ws = Rec(st, sc, fc, ws.mt, ws.parent, ws.accesses) /\ Core(st, sc, fc, 2)
      /\ MarksOK(ws.mt, ws.accesses) /\ ParentOK(ws.parent) /\ ParentInv(ws.parent)
  BY <1>1, WorkerFields
<1>3. st \in Seq(FrameType) /\ st[1] \in FrameType /\ StackInv(st, sc, 2) /\ Top(ws) = st[1]
  BY <1>1, <1>2 DEF Core, CoreTypes, Top
<1>4. b = Rec(st2, sc, fc2, ws.mt, ws.parent, ws.accesses)
  <2>1. b = [ws EXCEPT !.stack = st2, !.fnCache = fc2]
    BY <1>3 DEF Ended
  <2> HIDE DEF st2, fc2
  <2> QED
    BY <1>2, <2>1 DEF Rec
<1>5. /\ Core(st2, sc, fc2, 1)
      /\ \A g, M : Begun(st, fc, g, M) => Begun(st2, fc2, g, M)
  <2>1. e = [fn |-> st[1].fn, entry |-> st[1].entry, exits |-> st[1].exits]
    BY DEF SummaryOf
  <2>2. fc2 = fc \cup {e} /\ st2 = Tail(st)
    OBVIOUS
  <2> HIDE DEF st, sc, fc, e, fc2, st2
  <2>3. Pops(st, st2, sc, fc, fc2, e)
    BY <1>1, <1>2, <2>1, <2>2 DEF Pops
  <2> QED
    BY <2>3, Pop
<1> HIDE DEF st2, fc2
<1>6. WorkerAt(b, 1)
  BY <1>2, <1>4, <1>5, RecFields
<1>7. b.stack = st2 /\ b.fnCache = fc2 /\ b.parent = ws.parent
  BY <1>4, RecParts
<1>8. StillBegun(ws, b)
  BY <1>5, <1>7 DEF StillBegun
<1> QED
  BY <1>2, <1>3, <1>6, <1>7, <1>8 DEF st2, fc2

LEMMA EndRootStep ==
  ASSUME Env, NEW ws, AtEnd(ws), NEW ws2, ws2 = Ended(ws), ws2.stack = <<>>
  PROVE  Steps(ws, ws2)
<1>1. /\ WorkerAt(ws2, 1) /\ ws2.stack = Tail(ws.stack) /\ ws2.parent = ws.parent
      /\ StillBegun(ws, ws2) /\ ws.stack \in Seq(FrameType)
  BY EndedInv
<1>2. WorkerAt(ws2, 2)
  <2>1. /\ ws2 = Rec(ws2.stack, ws2.stmtCache, ws2.fnCache, ws2.mt, ws2.parent, ws2.accesses)
        /\ Core(ws2.stack, ws2.stmtCache, ws2.fnCache, 1) /\ MarksOK(ws2.mt, ws2.accesses)
        /\ ParentOK(ws2.parent) /\ ParentInv(ws2.parent)
    BY <1>1, WorkerFields
  <2>2. Core(ws2.stack, ws2.stmtCache, ws2.fnCache, 2)
    <3> DEFINE sc == ws2.stmtCache
               fc == ws2.fnCache
    <3>1. Core(<<>>, sc, fc, 1)
      BY <2>1
    <3> HIDE DEF sc, fc
    <3>2. Core(<<>>, sc, fc, 2)
      BY <3>1, EmptyCore
    <3> QED
      BY <3>2 DEF sc, fc
  <2> QED
    BY <2>1, <2>2, RecFields
<1>3. ASSUME NonRecursive PROVE BoundInv(ws2.stack, ws2.parent)
  <2>1. BoundInv(ws.stack, ws.parent) /\ ws.stack # <<>>
    BY <1>3 DEF AtEnd, WorkerInv
  <2>2. Len(ws.stack) = 1 /\ Len(ws2.stack) = 0
    <3> DEFINE st == ws.stack
               st2 == ws2.stack
    <3>1. st \in Seq(FrameType) /\ st # <<>> /\ st2 = Tail(st) /\ st2 = <<>>
      BY <1>1, <2>1
    <3> HIDE DEF st, st2
    <3>2. Len(st2) = Len(st) - 1 /\ Len(st) \in Nat
      BY <3>1
    <3>3. Len(st2) = 0
      <4>1. Len(<<>>) = 0
        OBVIOUS
      <4> QED
        BY <3>1, <4>1, Zenon
    <3>4. Len(st) = 1 /\ Len(st2) = 0
      BY <3>2, <3>3
    <3> QED
      BY <3>4 DEF st, st2
  <2>3. \A i \in 1..(Len(ws.stack) - 1) : FALSE
    BY <2>2
  <2>4. \A i \in 1..(Len(ws2.stack) - 1) : FALSE
    BY <2>2
  <2>5. \A f \in Functions : mod.formal[f] \notin DOMAIN ws.parent
    BY <2>1, <2>3 DEF BoundInv
  <2> QED
    BY <1>1, <2>4, <2>5 DEF BoundInv
<1> QED
  BY <1>1, <1>2, <1>3 DEF Steps, WorkerInv

LEMMA EndCallStep ==
  ASSUME Env, NEW ws, AtEnd(ws), NEW b, b = Ended(ws), b.stack # <<>>,
         NEW F, F = ws.stack[1], NEW ws2 \in AfterCall(b, F.fn, F.exits)
  PROVE  Steps(ws, ws2)
<1> DEFINE st == ws.stack
           x == Head(st[2].todo)
           p == mod.formal[F.fn]
<1>1. /\ WorkerAt(b, 1) /\ b.stack = Tail(st) /\ b.parent = ws.parent
      /\ b.fnCache = ws.fnCache \cup {SummaryOf(F)}
      /\ StillBegun(ws, b)
      /\ st \in Seq(FrameType) /\ F \in FrameType
      /\ StackInv(st, ws.stmtCache, 2) /\ ParentOK(ws.parent) /\ ParentInv(ws.parent)
  BY EndedInv
<1>2. st # <<>> /\ (NonRecursive => BoundInv(st, ws.parent))
  BY DEF AtEnd, WorkerInv
<1>3. 2 \in 2..Len(st) /\ b.stack[1] = st[2] /\ 1 \in 1..Len(st)
  BY <1>1, <1>2, SMTT(60)
<1>4. Code(x.at).op \in CallOps /\ Code(x.at).fn = F.fn /\ x.locks = F.entry
  BY <1>1, <1>3 DEF StackInv
<1>5. AtCall(b, x, F.fn)
  BY <1>1, <1>3, <1>4 DEF AtCall
<1>6. CallEnds(b.stack, b.fnCache, F.fn, x.locks, F.exits)
  <2> DEFINE e == SummaryOf(F)
             fc == b.fnCache
  <2>1. F.exits \subseteq LockSets(mod)
    BY <1>1, FrameFacts
  <2>2. e.fn = F.fn /\ e.entry = F.entry /\ e.exits = F.exits
    BY DEF SummaryOf
  <2>3. e \in fc
    BY <1>1
  <2> HIDE DEF e, x
  <2>4. Summarised(fc, F.fn, x.locks)
    BY <1>4, <2>2, <2>3 DEF Summarised
  <2>5. ASSUME Regular PROVE F.exits = UNION {g.exits : g \in {d \in fc : d.fn = F.fn /\ d.entry = x.locks}}
    <3>1. Core(b.stack, b.stmtCache, fc, 1)
      BY <1>1, WorkerFields
    <3>2. CacheInv(b.stack, b.stmtCache, fc)
      BY <2>5, <3>1 DEF Core
    <3>3. {d \in fc : d.fn = F.fn /\ d.entry = x.locks} = {e}
      BY <1>4, <2>2, <2>3, <3>2 DEF CacheInv
    <3> QED
      BY <2>2, <3>3
  <2> QED
    BY <2>1, <2>4, <2>5 DEF CallEnds
<1>7. /\ WorkerAt(ws2, 2) /\ SameFrames(b.stack, ws2.stack) /\ StillBegun(b, ws2)
      /\ ws2.parent = Unbind(b.parent, p)
  <2> DEFINE f == F.fn
             exits == F.exits
  <2>1. AtCall(b, x, f) /\ CallEnds(b.stack, b.fnCache, f, x.locks, exits) /\ ws2 \in AfterCall(b, f, exits)
    BY <1>5, <1>6
  <2> HIDE DEF f, exits, x
  <2>2. /\ WorkerAt(ws2, 2) /\ SameFrames(b.stack, ws2.stack) /\ StillBegun(b, ws2)
        /\ ws2.parent = Unbind(b.parent, mod.formal[f])
    BY <2>1, AfterCallInv
  <2> QED
    BY <2>2 DEF f
<1>8. StillBegun(ws, ws2)
  BY <1>1, <1>7 DEF StillBegun
<1>9. p \notin DOMAIN ws2.parent /\ AgreeBut(ws.parent, ws2.parent, p)
  BY <1>1, <1>7, UnbindOK
<1>10. ASSUME NonRecursive PROVE BoundInv(ws2.stack, ws2.parent)
  <2> DEFINE st2 == b.stack
             pa == ws2.parent
  <2>1. \A i \in 2..Len(st) : st[i].fn # st[1].fn
    <3>1. ASSUME NEW i \in 2..Len(st), st[i].fn = st[1].fn PROVE FALSE
      <4>1. i \in 1..Len(st) /\ i # 1
        OBVIOUS
      <4> QED
        BY <1>1, <1>3, <3>1, <4>1 DEF StackInv
    <3> QED
      BY <3>1
  <2>2. /\ st2 = Tail(st) /\ st2 # <<>> /\ st # <<>> /\ BoundInv(st, ws.parent)
        /\ st \in Seq(FrameType) /\ p = mod.formal[st[1].fn] /\ ParentOK(ws.parent)
        /\ p \notin DOMAIN pa /\ AgreeBut(ws.parent, pa, p)
    BY <1>1, <1>2, <1>9, <1>10
  <2> HIDE DEF st2, pa, st, p
  <2>3. BoundInv(st2, pa)
    BY <2>1, <2>2, BoundPop
  <2>4. Len(st2) \in Nat
    <3>1. st2 \in Seq(FrameType)
      BY <2>2
    <3> QED
      BY <3>1
  <2>5. SameFrames(st2, ws2.stack)
    BY <1>7 DEF st2
  <2>6. BoundInv(ws2.stack, pa)
    BY <2>3, <2>4, <2>5, BoundSame
  <2> QED
    BY <2>6 DEF pa
<1> QED
  BY <1>7, <1>8, <1>10 DEF Steps, WorkerInv

(* The worker takes a task.                                                *)
TaskTaken(ws, f) ==
  LET b == [ws EXCEPT !.mt = @ \ {f}]
  IN IF ReturnsAtOnce(b, f, {}) THEN b ELSE Enter(b, f, {})

LEMMA TaskStep ==
  ASSUME Env, NEW ws, WorkerInv(ws), ws.stack = <<>>, NEW f \in Roots(mod, mode),
         NEW ws2, ws2 = TaskTaken(ws, f)
  PROVE  /\ Steps(ws, ws2)
         /\ mod.first[f] = NoValue \/ Begun(ws2.stack, ws2.fnCache, f, {})
<1> DEFINE b == [ws EXCEPT !.mt = @ \ {f}]
           mt2 == ws.mt \ {f}
<1>1. WorkerAt(ws, 2) /\ (NonRecursive => BoundInv(ws.stack, ws.parent))
  BY DEF WorkerInv
<1>2. /\ ws = Rec(ws.stack, ws.stmtCache, ws.fnCache, ws.mt, ws.parent, ws.accesses)
      /\ MarksOK(ws.mt, ws.accesses)
  BY <1>1, WorkerFields
<1>3. b = Rec(ws.stack, ws.stmtCache, ws.fnCache, mt2, ws.parent, ws.accesses)
  <2>1. b = [ws EXCEPT !.mt = mt2]
    OBVIOUS
  <2> HIDE DEF b, mt2
  <2> QED
    BY <1>2, <2>1 DEF Rec
<1>4. MarksOK(mt2, ws.accesses)
  BY <1>2 DEF MarksOK
<1>5. ws2 = IF ReturnsAtOnce(b, f, {}) THEN b ELSE Enter(b, f, {})
  BY DEF TaskTaken
<1> HIDE DEF b, mt2
<1>6. WorkerAt(b, 2) /\ b.stack = ws.stack /\ b.fnCache = ws.fnCache /\ b.parent = ws.parent
  BY <1>1, <1>3, <1>4, NewMarks
<1>7. f \in Functions
  BY RootsType DEF Env
<1>8. StillBegun(ws, b)
  BY <1>6 DEF StillBegun
<1>9. CASE ReturnsAtOnce(b, f, {})
  <2>1. Steps(ws, b)
    BY <1>1, <1>6, <1>8 DEF Steps, WorkerInv
  <2>2. OnStack(b) = {}
    <3>1. DOMAIN b.stack = {}
      BY <1>6
    <3> QED
      BY <3>1 DEF OnStack
  <2>3. mod.first[f] = NoValue \/ Begun(b.stack, b.fnCache, f, {})
    BY <1>9, <2>2 DEF ReturnsAtOnce, Summaries, Begun, Summarised
  <2> QED
    BY <1>5, <1>9, <2>1, <2>3
<1>10. CASE ~ReturnsAtOnce(b, f, {})
  <2> DEFINE L == {}
  <2>1. Enters(b, f, L, 2) /\ ws2 = Enter(b, f, L)
    BY <1>5, <1>6, <1>7, <1>10 DEF Enters, LockSets
  <2> HIDE DEF L
  <2>2. /\ WorkerAt(ws2, 2) /\ ws2.stack = <<Frame(f, L)>> \o b.stack
        /\ ws2.parent = b.parent /\ StillBegun(b, ws2) /\ Begun(ws2.stack, ws2.fnCache, f, L)
        /\ Frame(f, L) \in FrameType
    BY <2>1, EnterInv
  <2>3. StillBegun(ws, ws2)
    BY <1>6, <2>2, BegunTrans
  <2>4. ASSUME NonRecursive PROVE BoundInv(ws2.stack, ws2.parent)
    <3>1. \A i \in 1..(Len(ws.stack) - 1) : FALSE
      OBVIOUS
    <3>2. \A g \in Functions : mod.formal[g] \notin DOMAIN ws.parent
      BY <1>1, <2>4, <3>1 DEF BoundInv
    <3>3. Len(ws2.stack) = 1
      <4> DEFINE F == Frame(f, L)
      <4>1. ws2.stack = <<F>> \o <<>>
        BY <1>6, <2>2
      <4> HIDE DEF F
      <4> QED
        BY <4>1
    <3>4. \A i \in 1..(Len(ws2.stack) - 1) : FALSE
      BY <3>3
    <3> QED
      BY <1>6, <2>2, <3>2, <3>4 DEF BoundInv
  <2> QED
    BY <2>2, <2>3, <2>4 DEF Steps, WorkerInv, L
<1> QED
  BY <1>9, <1>10

-----------------------------------------------------------------------------
(* The invariant of a worker does not depend on the state otherwise.       *)
LEMMA SameCore ==
  ASSUME mod' = mod, mode' = mode, NEW st, NEW sc, NEW fc, NEW o
  PROVE  Core(st, sc, fc, o)' <=> Core(st, sc, fc, o)
<1>1. Points' = Points /\ (Regular' <=> Regular) /\ (NonRecursive' <=> NonRecursive)
  BY Same
<1>2. \A s : Code(s)' = Code(s)
  BY DEF Code
<1>3. \A f : Flow(f)' = Flow(f)
  BY DEF Flow
<1>4. FrameType' = FrameType /\ Keys' = Keys /\ SummaryType' = SummaryType /\ Functions' = Functions
  BY DEF FrameType, ItemType, Keys, SummaryType, Functions
<1>5. CoreTypes(st, sc, fc)' <=> CoreTypes(st, sc, fc)
  BY <1>4 DEF CoreTypes
<1>6. StackInv(st, sc, o)' <=> StackInv(st, sc, o)
  BY <1>2, <1>3 DEF StackInv
<1>7. CacheInv(st, sc, fc)' <=> CacheInv(st, sc, fc)
  BY <1>3, <1>4 DEF CacheInv
<1>8. \A s, L : Straight(s, L)' = Straight(s, L)
  BY <1>2 DEF Straight
<1>9. \A f, k : Settled(st, sc, fc, f, k)' <=> Settled(st, sc, fc, f, k)
  BY <1>1, <1>2, <1>8 DEF Settled
<1>10. \A f, k : RetKept(st, fc, f, k)' <=> RetKept(st, fc, f, k)
  BY <1>2 DEF RetKept
<1>11. SearchInv(st, sc, fc, o)' <=> SearchInv(st, sc, fc, o)
  BY <1>3, <1>4, <1>9, <1>10 DEF SearchInv
<1>12. SoundInv(st, fc)' <=> SoundInv(st, fc)
  BY <1>1 DEF SoundInv
<1>13. ExactInv(fc)' <=> ExactInv(fc)
  BY <1>1 DEF ExactInv
<1> QED
  BY <1>1, <1>5, <1>6, <1>7, <1>11, <1>12, <1>13 DEF Core

LEMMA SameWorker ==
  ASSUME mod' = mod, mode' = mode, NEW ws
  PROVE  WorkerInv(ws)' <=> WorkerInv(ws)
<1>1. /\ Points' = Points /\ (Regular' <=> Regular) /\ (NonRecursive' <=> NonRecursive)
      /\ Multithreaded' = Multithreaded
  BY Same
<1>2. \A s : Code(s)' = Code(s)
  BY DEF Code
<1>3. /\ FrameType' = FrameType /\ SummaryType' = SummaryType /\ Functions' = Functions
      /\ AccessType' = AccessType
  BY DEF FrameType, ItemType, SummaryType, Functions, AccessType
<1>4. WorkerOK(ws)' <=> WorkerOK(ws)
  BY <1>3 DEF WorkerOK
<1>5. \A a : AccessReal(a)' <=> AccessReal(a)
  BY <1>1, <1>2 DEF AccessReal
<1>6. ParentInv(ws.parent)' <=> ParentInv(ws.parent)
  BY DEF ParentInv
<1>7. RecordInv(ws)' <=> RecordInv(ws)
  BY <1>1, <1>5, <1>6 DEF RecordInv
<1>8. Core(ws.stack, ws.stmtCache, ws.fnCache, 2)' <=> Core(ws.stack, ws.stmtCache, ws.fnCache, 2)
  BY SameCore, SMTT(60)
<1>9. BoundInv(ws.stack, ws.parent)' <=> BoundInv(ws.stack, ws.parent)
  BY <1>2, <1>3 DEF BoundInv
<1> QED
  BY <1>1, <1>4, <1>7, <1>8, <1>9 DEF WorkerInv, WorkerAt

(* Initial states.                                                         *)
LEMMA NewWorkerInv ==
  ASSUME Env
  PROVE  WorkerInv(NewWorker)
<1> DEFINE pa == [v \in {} |-> NoValue]
           e == {}
           st == <<>>
<1>1. NewWorker = Rec(st, e, e, e, pa, e)
  BY DEF NewWorker, Rec
<1>2. DOMAIN pa = {}
  OBVIOUS
<1>3. ParentOK(pa)
  BY DEF ParentOK
<1> HIDE DEF pa
<1>4. ParentInv(pa)
  BY <1>2 DEF ParentInv
<1>5. MarksOK(e, e)
  BY DEF MarksOK
<1>6. Len(st) = 0
  OBVIOUS
<1>7. Core(st, e, e, 2)
  <2>1. CoreTypes(st, e, e)
    BY DEF CoreTypes
  <2> HIDE DEF st
  <2>2. StackInv(st, e, 2)
    BY <1>6 DEF StackInv
  <2>3. CacheInv(st, e, e)
    BY <1>6 DEF CacheInv
  <2>4. SearchInv(st, e, e, 2)
    BY <1>6 DEF SearchInv, Begun, Active, Summarised
  <2>5. SoundInv(st, e)
    BY <1>6 DEF SoundInv
  <2>6. ExactInv(e)
    BY DEF ExactInv
  <2> QED
    BY <2>1, <2>2, <2>3, <2>4, <2>5, <2>6 DEF Core
<1>8. BoundInv(st, pa)
  <2> HIDE DEF st
  <2> QED
    BY <1>2, <1>6 DEF BoundInv
<1> HIDE DEF st, e
<1>9. WorkerAt(NewWorker, 2)
  BY <1>1, <1>3, <1>4, <1>5, <1>7, RecFields
<1>10. NewWorker.stack = st /\ NewWorker.parent = pa
  BY <1>1, RecParts
<1> QED
  BY <1>8, <1>9, <1>10 DEF WorkerInv

LEMMA RootWorkerInv ==
  ASSUME Env, mode = "directed", NEW ws, ws = Enter(NewWorker, mod.root, {})
  PROVE  WorkerInv(ws) /\ Begun(ws.stack, ws.fnCache, mod.root, {})
<1> DEFINE b == NewWorker
           f == mod.root
           L == {}
<1>1. WorkerInv(b)
  BY NewWorkerInv
<1>2. b.stack = <<>> /\ b.fnCache = {} /\ DOMAIN b.parent = {}
  BY DEF NewWorker
<1>3. f \in Functions /\ mod.first[f] # NoValue /\ f \in Roots(mod, mode)
  BY ModulesAssumption DEF Env, WellFormed, Functions, Roots
<1>4. ~ReturnsAtOnce(b, f, L)
  <2>1. DOMAIN b.stack = {}
    BY <1>2
  <2>2. OnStack(b) = {} /\ Summaries(b, f, L) = {}
    BY <1>2, <2>1 DEF OnStack, Summaries
  <2> QED
    BY <1>3, <2>2 DEF ReturnsAtOnce
<1> HIDE DEF b
<1>5. Enters(b, f, L, 2)
  BY <1>1, <1>2, <1>3, <1>4 DEF Enters, LockSets, WorkerInv
<1>6. ws = Enter(b, f, L)
  BY DEF b
<1> HIDE DEF f, L
<1>7. /\ WorkerAt(ws, 2) /\ ws.stack = <<Frame(f, L)>> \o b.stack /\ ws.parent = b.parent
      /\ Begun(ws.stack, ws.fnCache, f, L)
  BY <1>5, <1>6, EnterInv, SMTT(60)
<1>8. BoundInv(ws.stack, ws.parent)
  <2>1. Len(ws.stack) = 1
    <3> DEFINE F == Frame(f, L)
    <3>1. ws.stack = <<F>> \o <<>>
      BY <1>2, <1>7
    <3> HIDE DEF F
    <3> QED
      BY <3>1
  <2>2. \A i \in 1..(Len(ws.stack) - 1) : FALSE
    <3>1. 1..(1 - 1) = {}
      OBVIOUS
    <3> QED
      BY <2>1, <3>1, Zenon
  <2> QED
    BY <1>2, <1>7, <2>2 DEF BoundInv
<1> QED
  BY <1>7, <1>8 DEF WorkerInv, f, L

LEMMA PoolSizeFacts ==
  ASSUME Env
  PROVE  /\ PoolSize \in Nat /\ PoolSize <= MaxPool /\ Len(mod.tasks) \in Nat
         /\ PoolSize = 0 => Len(mod.tasks) = 0
         /\ 1 \in Workers /\ 1..PoolSize \subseteq Workers
         /\ mode = "directed" \/ mode = "global"
         /\ \A i \in 1..Len(mod.tasks) : mode # "directed" => mod.tasks[i] \in Roots(mod, mode)
<1>1. MaxPool \in Nat \ {0} /\ (mode = "directed" \/ mode = "global")
  BY ModulesAssumption DEF Env
<1>2. mod.tasks \in Seq(DOMAIN mod.first)
  BY ModulesAssumption DEF Env, WellFormed
<1>3. Len(mod.tasks) \in Nat /\ DOMAIN mod.tasks = 1..Len(mod.tasks)
  BY <1>2
<1>4. PoolSize \in Nat /\ PoolSize <= MaxPool /\ (PoolSize = 0 => Len(mod.tasks) = 0)
  BY <1>1, <1>3 DEF PoolSize
<1>5. 1 \in Workers /\ 1..PoolSize \subseteq Workers
  BY <1>1, <1>4 DEF Workers
<1>6. \A i \in 1..Len(mod.tasks) : mode # "directed" => mod.tasks[i] \in Roots(mod, mode)
  BY <1>3 DEF Roots
<1> QED
  BY <1>1, <1>3, <1>4, <1>5, <1>6

LEMMA InitInv == Init => StratorInv
<1> SUFFICES ASSUME Init PROVE StratorInv
  OBVIOUS
<1> DEFINE root == Enter(NewWorker, mod.root, {})
<1>1. Env
  BY DEF Init, Env
<1> USE <1>1
<1>2. /\ functionCount = Len(mod.tasks)
      /\ live = IF mode = "directed" THEN {1} ELSE 1..PoolSize
      /\ wk = [w \in Workers |-> IF mode = "directed" /\ w = 1 THEN root ELSE NewWorker]
      /\ races = {} /\ reported = FALSE /\ mtCalls = {}
  BY DEF Init
<1>3. /\ PoolSize \in Nat /\ Len(mod.tasks) \in Nat
      /\ 1 \in Workers /\ 1..PoolSize \subseteq Workers
      /\ mode = "directed" \/ mode = "global"
  BY PoolSizeFacts
<1>4. WorkerInv(NewWorker)
  BY NewWorkerInv
<1>5. mode = "directed" => WorkerInv(root) /\ Begun(root.stack, root.fnCache, mod.root, {})
  <2> DEFINE ws == root
  <2>1. ws = Enter(NewWorker, mod.root, {})
    OBVIOUS
  <2> HIDE DEF ws
  <2>2. mode = "directed" => WorkerInv(ws) /\ Begun(ws.stack, ws.fnCache, mod.root, {})
    BY <2>1, RootWorkerInv
  <2> QED
    BY <2>2 DEF ws
<1> HIDE DEF root
<1>6. \A w \in Workers : WorkerInv(wk[w])
  BY <1>2, <1>4, <1>5
<1>7. TypeOK
  <2>1. functionCount \in -PoolSize..Len(mod.tasks)
    BY <1>2, <1>3
  <2>2. wk = [w \in Workers |-> wk[w]]
    BY <1>2
  <2>3. \A w \in Workers : WorkerOK(wk[w])
    BY <1>6 DEF WorkerInv, WorkerAt
  <2>4. live \subseteq Workers
    BY <1>2, <1>3
  <2> QED
    BY <1>2, <2>1, <2>2, <2>3, <2>4 DEF TypeOK, Env
<1>8. PoolInv
  <2>1. NewWorker.stack = <<>>
    BY DEF NewWorker
  <2>2. CASE mode = "directed"
    <3>1. wk[1] = root /\ \A w \in Workers \ {1} : wk[w].stack = <<>>
      BY <1>2, <1>3, <2>1, <2>2
    <3> QED
      BY <1>2, <1>5, <2>2, <3>1 DEF PoolInv
  <2>3. CASE mode = "global"
    <3>1. live = 1..PoolSize /\ \A w \in Workers : wk[w].stack = <<>>
      BY <1>2, <2>1, <2>3
    <3>2. functionCount >= 0 /\ \A i \in 1..Len(mod.tasks) : ~(i > functionCount)
      BY <1>2, <1>3
    <3> QED
      BY <1>2, <2>3, <3>1, <3>2 DEF PoolInv, TasksBegun
  <2> QED
    BY <1>3, <2>2, <2>3
<1>9. RacesReal
  BY <1>2 DEF RacesReal
<1> QED
  BY <1>6, <1>7, <1>8, <1>9 DEF StratorInv

-----------------------------------------------------------------------------
(* The steps of the whole.                                                 *)
LEMMA SameRaces ==
  ASSUME mod' = mod, mode' = mode, races' = races, RacesReal
  PROVE  RacesReal'
<1>1. /\ Points' = Points /\ (Regular' <=> Regular) /\ Multithreaded' = Multithreaded
  BY Same
<1>2. \A s : Code(s)' = Code(s)
  BY DEF Code
<1>3. \A s, t : MayTouchSame(s, t)' <=> MayTouchSame(s, t)
  BY <1>2 DEF MayTouchSame
<1> QED
  BY <1>1, <1>2, <1>3 DEF RacesReal

(* The workers after a step of one of them.                                *)
LEMMA WorkersInv ==
  ASSUME Env, mod' = mod, mode' = mode, wk = [u \in Workers |-> wk[u]],
         \A u \in Workers : WorkerInv(wk[u]), NEW w \in Workers,
         NEW ws2, WorkerInv(ws2), Worker(w, ws2)
  PROVE  /\ wk'[w] = ws2 /\ \A u \in Workers : u # w => wk'[u] = wk[u]
         /\ wk' = [u \in Workers |-> wk'[u]]
         /\ (\A u \in Workers : WorkerInv(wk[u]))'
         /\ (\A u \in Workers : WorkerOK(wk[u]))'
<1>1. wk' = [wk EXCEPT ![w] = ws2]
  BY DEF Worker
<1>2. wk'[w] = ws2 /\ \A u \in Workers : u # w => wk'[u] = wk[u]
  BY <1>1
<1>3. wk' = [u \in Workers |-> wk'[u]]
  BY <1>1
<1>4. \A u \in Workers : WorkerInv(wk'[u])
  BY <1>2
<1>5. \A x : WorkerInv(x)' <=> WorkerInv(x)
  BY SameWorker
<1>6. ASSUME NEW u \in Workers PROVE WorkerInv(wk[u])'
  BY <1>4, <1>5
<1>7. Workers' = Workers
  BY DEF Workers
<1>8. ASSUME NEW u \in Workers PROVE WorkerOK(wk[u])'
  BY <1>6 DEF WorkerInv, WorkerAt
<1> QED
  BY <1>2, <1>3, <1>6, <1>7, <1>8

(* A step of a worker that has frames.                                     *)
LEMMA BusyStep ==
  ASSUME StratorInv, NEW w \in Workers, Busy(w), NEW ws2, Steps(wk[w], ws2), Worker(w, ws2),
         OnlyWorker, mtCalls' \subseteq Functions \X LockSets(mod)
  PROVE  StratorInv'
<1>1. /\ mod' = mod /\ mode' = mode /\ live' = live /\ functionCount' = functionCount
      /\ races' = races /\ reported' = reported
  BY DEF OnlyWorker
<1>2. Env /\ wk = [u \in Workers |-> wk[u]] /\ \A u \in Workers : WorkerInv(wk[u])
  BY DEF StratorInv, TypeOK, Env
<1>3. WorkerInv(ws2) /\ StillBegun(wk[w], ws2)
  BY DEF Steps
<1>4. /\ wk'[w] = ws2 /\ \A u \in Workers : u # w => wk'[u] = wk[u]
      /\ wk' = [u \in Workers |-> wk'[u]]
      /\ (\A u \in Workers : WorkerInv(wk[u]))'
      /\ (\A u \in Workers : WorkerOK(wk[u]))'
  BY <1>1, <1>2, <1>3, WorkersInv
<1>5. Workers' = Workers /\ PoolSize' = PoolSize /\ Functions' = Functions
  BY <1>1 DEF Workers, PoolSize, Functions
<1>6. TypeOK'
  <2>1. TypeOK
    BY DEF StratorInv
  <2>2. /\ mod' \in Modules /\ mode' \in Modes /\ live' \subseteq Workers
        /\ functionCount' \in -PoolSize..Len(mod'.tasks)
        /\ reported' \in BOOLEAN /\ races' \subseteq SUBSET Stmts(mod')
        /\ mtCalls' \subseteq Functions \X LockSets(mod')
    BY <1>1, <2>1 DEF TypeOK
  <2> QED
    BY <1>4, <1>5, <2>2 DEF TypeOK
<1>7. \A u \in Workers : \A f, L :
        Begun(wk[u].stack, wk[u].fnCache, f, L) => Begun(wk'[u].stack, wk'[u].fnCache, f, L)
  BY <1>3, <1>4 DEF StillBegun
<1>8. w \in live /\ wk[w].stack # <<>>
  BY DEF Busy
<1>9. PoolInv'
  <2>1. PoolInv
    BY DEF StratorInv
  <2>2. CASE mode = "directed"
    <3>1. /\ live = {1} /\ functionCount = Len(mod.tasks)
          /\ \A u \in Workers \ {1} : wk[u].stack = <<>>
          /\ Begun(wk[1].stack, wk[1].fnCache, mod.root, {})
          /\ reported => wk[1].stack = <<>>
      BY <2>1, <2>2 DEF PoolInv
    <3>2. w = 1 /\ ~reported
      BY <1>8, <3>1
    <3>3. /\ \A u \in Workers \ {1} : wk'[u].stack = <<>>
          /\ Begun(wk'[1].stack, wk'[1].fnCache, mod.root, {})
      BY <1>4, <1>7, <3>1, <3>2
    <3> QED
      BY <1>1, <1>5, <2>2, <3>1, <3>2, <3>3 DEF PoolInv, Begun, Active, Summarised
  <2>3. CASE mode # "directed"
    <3>1. /\ IF functionCount >= 0 THEN live = 1..PoolSize
                                   ELSE Cardinality(live) = PoolSize + functionCount
          /\ \A u \in Workers \ live : wk[u].stack = <<>>
          /\ reported => live = {}
          /\ TasksBegun
      BY <2>1, <2>3 DEF PoolInv
    <3>2. \A u \in Workers \ live : wk'[u].stack = <<>>
      BY <1>4, <1>8, <3>1
    <3>3. TasksBegun'
      BY <1>1, <1>5, <1>7, <3>1 DEF TasksBegun
    <3> QED
      BY <1>1, <1>5, <2>3, <3>1, <3>2, <3>3 DEF PoolInv
  <2> QED
    BY <2>2, <2>3
<1>10. RacesReal'
  BY <1>1, SameRaces DEF StratorInv
<1> QED
  BY <1>4, <1>5, <1>6, <1>9, <1>10 DEF StratorInv

LEMMA BusyFacts ==
  ASSUME StratorInv, NEW w \in Workers, Busy(w), NEW ws, ws = wk[w]
  PROVE  /\ Env /\ WorkerInv(ws) /\ ws.stack # <<>> /\ Top(ws) = ws.stack[1]
         /\ Top(ws).todo # <<>> => At(ws, Item(ws))
         /\ Top(ws).todo = <<>> => AtEnd(ws)
         /\ mtCalls \subseteq Functions \X LockSets(mod)
<1>1. Env /\ WorkerInv(ws) /\ ws.stack # <<>> /\ mtCalls \subseteq Functions \X LockSets(mod)
  BY DEF StratorInv, TypeOK, Env, Busy
<1>2. Top(ws) = ws.stack[1]
  <2>1. WorkerAt(ws, 2)
    BY <1>1 DEF WorkerInv
  <2> QED
    BY <1>1, <2>1, TopFacts
<1> QED
  BY <1>1, <1>2 DEF At, AtEnd, Item

LEMMA StatementCachedInv ==
  ASSUME StratorInv, NEW w \in Workers, StatementCached(w)
  PROVE  StratorInv'
<1> DEFINE ws == wk[w]
           ws2 == Cached(ws)
<1>1. /\ Busy(w) /\ Top(ws).todo # <<>> /\ Key(ws) \in ws.stmtCache
      /\ Worker(w, ws2) /\ OnlyWorker /\ mtCalls' = mtCalls
  BY DEF StatementCached, Cached
<1>2. Env /\ At(ws, Item(ws)) /\ mtCalls \subseteq Functions \X LockSets(mod)
  BY <1>1, BusyFacts
<1>3. Steps(ws, ws2)
  BY <1>1, <1>2, CachedStep
<1> HIDE DEF ws2
<1> QED
  BY <1>1, <1>2, <1>3, BusyStep

LEMMA RetActionInv ==
  ASSUME StratorInv, NEW w \in Workers, Ret(w)
  PROVE  StratorInv'
<1> DEFINE ws == wk[w]
           ws2 == [Visited(ws) EXCEPT !.stack[1].todo = Tail(@),
                                      !.stack[1].exits = @ \cup {Item(ws).locks}]
<1>1. /\ Busy(w) /\ Top(ws).todo # <<>> /\ Code(Item(ws).at).op = "ret"
      /\ Worker(w, ws2) /\ OnlyWorker /\ mtCalls' = mtCalls
  BY DEF Ret, Visits
<1>2. Env /\ At(ws, Item(ws)) /\ mtCalls \subseteq Functions \X LockSets(mod)
  BY <1>1, BusyFacts
<1>3. Steps(ws, ws2)
  BY <1>1, <1>2, RetStep, ZenonT(60)
<1> HIDE DEF ws2
<1> QED
  BY <1>1, <1>2, <1>3, BusyStep

LEMMA AccessInv ==
  ASSUME StratorInv, NEW w \in Workers, Access(w)
  PROVE  StratorInv'
<1> DEFINE ws == wk[w]
           ws2 == Follow(DetectRaces(Visited(ws)), <<Item(ws).locks>>)
<1>1. /\ Busy(w) /\ Top(ws).todo # <<>> /\ Code(Item(ws).at).op \in {"load", "store"}
      /\ Worker(w, ws2) /\ OnlyWorker /\ mtCalls' = mtCalls
  BY DEF Access, Visits
<1>2. Env /\ At(ws, Item(ws)) /\ mtCalls \subseteq Functions \X LockSets(mod)
  BY <1>1, BusyFacts
<1>3. Steps(ws, ws2)
  BY <1>1, <1>2, AccessStep
<1> HIDE DEF ws2
<1> QED
  BY <1>1, <1>2, <1>3, BusyStep

LEMMA LockOperationInv ==
  ASSUME StratorInv, NEW w \in Workers, LockOperation(w)
  PROVE  StratorInv'
<1> DEFINE ws == wk[w]
           ws2 == Follow(Visited(ws), <<Locked(ws)>>)
<1>1. /\ Busy(w) /\ Top(ws).todo # <<>> /\ Code(Item(ws).at).op \in {"lock", "unlock"}
      /\ Worker(w, ws2) /\ OnlyWorker /\ mtCalls' = mtCalls
  BY DEF LockOperation, Visits
<1>2. Env /\ At(ws, Item(ws)) /\ mtCalls \subseteq Functions \X LockSets(mod)
  BY <1>1, BusyFacts
<1>3. Steps(ws, ws2)
  BY <1>1, <1>2, LockStep
<1> HIDE DEF ws2
<1> QED
  BY <1>1, <1>2, <1>3, BusyStep

LEMMA PlainInv ==
  ASSUME StratorInv, NEW w \in Workers, Plain(w)
  PROVE  StratorInv'
<1> DEFINE ws == wk[w]
           ws1 == Follow(Visited(ws), <<Item(ws).locks>>)
           ws2 == Casted(ws1, Code(Item(ws).at))
<1>1. /\ Busy(w) /\ Top(ws).todo # <<>> /\ Code(Item(ws).at).op \in {"skip", "pthread", "bitcast"}
      /\ Worker(w, ws2) /\ OnlyWorker /\ mtCalls' = mtCalls
  BY DEF Plain, Visits, Casted
<1>2. Env /\ At(ws, Item(ws)) /\ mtCalls \subseteq Functions \X LockSets(mod)
  BY <1>1, BusyFacts
<1>3. Steps(ws, ws2)
  BY <1>1, <1>2, PlainStep
<1> HIDE DEF ws2
<1> QED
  BY <1>1, <1>2, <1>3, BusyStep

LEMMA CallInv ==
  ASSUME StratorInv, NEW w \in Workers, Call(w)
  PROVE  StratorInv'
<1> DEFINE ws == wk[w]
           x == Item(ws)
           c == Code(x.at)
           f == c.fn
           L == x.locks
           b == Called(Visited(ws), c)
<1>1. /\ Busy(w) /\ Top(ws).todo # <<>> /\ c.op \in CallOps
      /\ IF ReturnsAtOnce(b, f, L)
         THEN \E after \in AfterCall(b, f, ExitsAtOnce(b, f, L)) : Worker(w, after)
         ELSE Worker(w, Enter(b, f, L))
      /\ mtCalls' = (IF f \in b.mt THEN mtCalls \cup {<<f, L>>} ELSE mtCalls)
      /\ OnlyWorker
  BY DEF Call, Visits, Called, CallOps
<1>2. Env /\ At(ws, x) /\ mtCalls \subseteq Functions \X LockSets(mod)
  BY <1>1, BusyFacts
<1>3. x.at \in Stmts(mod) /\ L \in LockSets(mod)
  BY <1>2, AtFacts
<1>4. f \in Functions
  BY <1>1, <1>2, <1>3, CodeFacts
<1>5. mtCalls' \subseteq Functions \X LockSets(mod)
  BY <1>1, <1>2, <1>3, <1>4
<1>6. \E ws2 : Steps(ws, ws2) /\ Worker(w, ws2)
  <2>1. CASE ReturnsAtOnce(b, f, L)
    <3>1. PICK ws2 \in AfterCall(b, f, ExitsAtOnce(b, f, L)) : Worker(w, ws2)
      BY <1>1, <2>1
    <3>2. Steps(ws, ws2)
      <4> HIDE DEF ws, x
      <4> QED
        BY <1>1, <1>2, <2>1, <3>1, CallAtOnceStep
    <3> QED
      BY <3>1, <3>2
  <2>2. CASE ~ReturnsAtOnce(b, f, L)
    <3>1. Worker(w, Enter(b, f, L))
      BY <1>1, <2>2
    <3>2. Steps(ws, Enter(b, f, L))
      <4> HIDE DEF ws, x
      <4> QED
        BY <1>1, <1>2, <2>2, CallEnterStep
    <3> QED
      BY <3>1, <3>2
  <2> QED
    BY <2>1, <2>2
<1> QED
  BY <1>1, <1>5, <1>6, BusyStep, SMTT(60)

LEMMA EndFunctionInv ==
  ASSUME StratorInv, NEW w \in Workers, EndFunction(w)
  PROVE  StratorInv'
<1> DEFINE ws == wk[w]
           F == Top(ws)
           b == Ended(ws)
<1>1. /\ Busy(w) /\ Top(ws).todo = <<>> /\ OnlyWorker /\ mtCalls' = mtCalls
      /\ IF b.stack = <<>> THEN Worker(w, b)
         ELSE \E after \in AfterCall(b, F.fn, F.exits) : Worker(w, after)
  BY DEF EndFunction, Ended, SummaryOf
<1>2. Env /\ AtEnd(ws) /\ F = ws.stack[1] /\ mtCalls \subseteq Functions \X LockSets(mod)
  BY <1>1, BusyFacts
<1>3. \E ws2 : Steps(ws, ws2) /\ Worker(w, ws2)
  <2> HIDE DEF ws, F
  <2>1. CASE b.stack = <<>>
    <3>1. Steps(ws, b)
      BY <1>2, <2>1, EndRootStep
    <3> QED
      BY <1>1, <2>1, <3>1
  <2>2. CASE b.stack # <<>>
    <3>1. PICK ws2 \in AfterCall(b, F.fn, F.exits) : Worker(w, ws2)
      BY <1>1, <2>2
    <3>2. Steps(ws, ws2)
      BY <1>2, <2>2, <3>1, EndCallStep
    <3> QED
      BY <3>1, <3>2
  <2> QED
    BY <2>1, <2>2
<1> QED
  BY <1>1, <1>2, <1>3, BusyStep

(* The counter and the pool when a worker asks for a task.                 *)
LEMMA PoolCount ==
  ASSUME Env, functionCount \in -PoolSize..Len(mod.tasks), NEW w \in live, live \subseteq Workers,
         IF functionCount >= 0 THEN live = 1..PoolSize
                               ELSE Cardinality(live) = PoolSize + functionCount
  PROVE  /\ functionCount - 1 \in -PoolSize..Len(mod.tasks)
         /\ functionCount - 1 < 0 =>
              Cardinality(live \ {w}) = PoolSize + (functionCount - 1)
<1>1. PoolSize \in Nat /\ Len(mod.tasks) \in Nat /\ MaxPool \in Nat
  BY PoolSizeFacts, ModulesAssumption
<1>2. IsFiniteSet(1..MaxPool) /\ IsFiniteSet(live)
  <2>1. IsFiniteSet(1..MaxPool)
    BY <1>1, FS_Interval
  <2> QED
    BY <2>1, FS_Subset DEF Workers
<1>3. Cardinality(live) \in Nat /\ Cardinality(live \ {w}) = Cardinality(live) - 1
  BY <1>2, FS_CardinalityType, FS_RemoveElement
<1>4. Cardinality(live \ {w}) \in Nat
  BY <1>2, FS_RemoveElement, FS_CardinalityType
<1>5. Cardinality(live) >= 1
  BY <1>3, <1>4
<1>6. CASE functionCount >= 0
  <2>1. Cardinality(live) = PoolSize
    <3>1. Cardinality(1..PoolSize) = IF 1 > PoolSize THEN 0 ELSE PoolSize - 1 + 1
      BY <1>1, FS_Interval
    <3>2. Cardinality(1..PoolSize) = PoolSize
      BY <1>1, <3>1
    <3> QED
      BY <1>6, <3>2
  <2> QED
    BY <1>1, <1>3, <1>5, <1>6, <2>1
<1>7. CASE ~(functionCount >= 0)
  BY <1>1, <1>3, <1>5, <1>7
<1> QED
  BY <1>6, <1>7

LEMMA GetTaskInv ==
  ASSUME StratorInv, NEW w \in Workers, GetTask(w)
  PROVE  StratorInv'
<1> DEFINE n == functionCount - 1
<1>1. /\ mode = "global" /\ w \in live /\ wk[w].stack = <<>> /\ functionCount' = n
      /\ mod' = mod /\ mode' = mode /\ races' = races /\ reported' = reported
      /\ mtCalls' = mtCalls
  BY DEF GetTask
<1>2. TypeOK /\ PoolInv /\ \A u \in Workers : WorkerInv(wk[u])
  BY DEF StratorInv
<1>3. /\ Env /\ live \subseteq Workers /\ wk = [u \in Workers |-> wk[u]]
      /\ functionCount \in -PoolSize..Len(mod.tasks)
      /\ reported \in BOOLEAN /\ races \subseteq SUBSET Stmts(mod)
      /\ mtCalls \subseteq Functions \X LockSets(mod)
      /\ \A u \in Workers : WorkerOK(wk[u])
  BY <1>2 DEF TypeOK, Env
<1>4. mode # "directed"
  BY <1>1
<1>5. /\ IF functionCount >= 0 THEN live = 1..PoolSize
                               ELSE Cardinality(live) = PoolSize + functionCount
      /\ \A u \in Workers \ live : wk[u].stack = <<>>
      /\ reported => live = {}
      /\ TasksBegun
  BY <1>2, <1>4 DEF PoolInv
<1>6. ~reported
  BY <1>1, <1>5
<1>7. n \in -PoolSize..Len(mod.tasks) /\ (n < 0 => Cardinality(live \ {w}) = PoolSize + n)
  BY <1>1, <1>3, <1>5, PoolCount
<1>8. PoolSize \in Nat /\ Len(mod.tasks) \in Nat /\ functionCount \in Int /\ n \in Int
  <2>1. PoolSize \in Nat /\ Len(mod.tasks) \in Nat
    BY <1>3, PoolSizeFacts
  <2> QED
    BY <1>3, <2>1
<1>9. Workers' = Workers /\ PoolSize' = PoolSize /\ Functions' = Functions
  BY <1>1 DEF Workers, PoolSize, Functions
<1>10. RacesReal'
  BY <1>1, SameRaces DEF StratorInv
<1>11. \A x : WorkerInv(x)' <=> WorkerInv(x)
  BY <1>1, SameWorker
<1>12. functionCount = n + 1
  BY <1>8
<1> HIDE DEF n
<1>13. /\ mod' \in Modules /\ mode' \in Modes
       /\ functionCount' \in -PoolSize'..Len(mod'.tasks)
       /\ reported' \in BOOLEAN /\ races' \subseteq SUBSET Stmts(mod')
       /\ mtCalls' \subseteq Functions' \X LockSets(mod')
  BY <1>1, <1>3, <1>7, <1>9 DEF Env
<1>14. CASE n < 0
  <2>1. live' = live \ {w} /\ wk' = wk
    BY <1>1, <1>14 DEF GetTask
  <2>2. \A u \in Workers : WorkerInv(wk[u])' /\ WorkerOK(wk[u])'
    <3>1. \A u \in Workers : WorkerInv(wk'[u])
      BY <1>2, <2>1
    <3>2. \A u \in Workers : WorkerInv(wk[u])'
      BY <1>11, <3>1
    <3> QED
      BY <3>2 DEF WorkerInv, WorkerAt
  <2>3. TypeOK'
    <3>1. live' \subseteq Workers' /\ wk' = [u \in Workers' |-> wk'[u]]
      BY <1>3, <1>9, <2>1
    <3> QED
      BY <1>9, <1>13, <2>2, <3>1 DEF TypeOK
  <2>4. TasksBegun'
    <3>1. \A i \in 1..Len(mod.tasks) : i > functionCount
      BY <1>8, <1>12, <1>14
    <3> QED
      BY <1>1, <1>5, <1>9, <2>1, <3>1 DEF TasksBegun
  <2>5. PoolInv'
    <3>1. \A u \in Workers \ live' : wk'[u].stack = <<>>
      BY <1>1, <1>5, <2>1
    <3>2. ~(functionCount' >= 0) /\ Cardinality(live') = PoolSize' + functionCount'
      BY <1>1, <1>7, <1>8, <1>9, <1>14, <2>1
    <3> QED
      BY <1>1, <1>4, <1>6, <1>9, <2>4, <3>1, <3>2 DEF PoolInv
  <2> QED
    BY <1>9, <1>10, <2>2, <2>3, <2>5 DEF StratorInv
<1>15. CASE ~(n < 0)
  <2> DEFINE f == mod.tasks[n + 1]
             ws == wk[w]
             ws2 == TaskTaken(ws, f)
  <2>1. Worker(w, ws2) /\ live' = live
    BY <1>1, <1>15 DEF GetTask, TaskTaken
  <2>2. n + 1 \in 1..Len(mod.tasks)
    BY <1>3, <1>8, <1>12, <1>15
  <2>3. f \in Roots(mod, mode)
    BY <1>3, <1>4, <2>2, PoolSizeFacts
  <2> HIDE DEF f
  <2>4. /\ Steps(ws, ws2)
        /\ mod.first[f] = NoValue \/ Begun(ws2.stack, ws2.fnCache, f, {})
    BY <1>1, <1>2, <1>3, <2>3, TaskStep
  <2> HIDE DEF ws2
  <2>5. WorkerInv(ws2) /\ StillBegun(ws, ws2)
    BY <2>4 DEF Steps
  <2>6. /\ wk'[w] = ws2 /\ \A u \in Workers : u # w => wk'[u] = wk[u]
        /\ wk' = [u \in Workers |-> wk'[u]]
        /\ (\A u \in Workers : WorkerInv(wk[u]))'
        /\ (\A u \in Workers : WorkerOK(wk[u]))'
    BY <1>1, <1>2, <1>3, <2>1, <2>5, WorkersInv
  <2>7. TypeOK'
    <3>1. live' \subseteq Workers' /\ wk' = [u \in Workers' |-> wk'[u]]
      BY <1>3, <1>9, <2>1, <2>6
    <3> QED
      BY <1>13, <2>6, <3>1 DEF TypeOK
  <2>8. TasksBegun'
    <3>1. ASSUME NEW i \in 1..Len(mod.tasks), i > n
          PROVE  \/ mod.first[mod.tasks[i]] = NoValue
                 \/ \E u \in Workers : Begun(wk'[u].stack, wk'[u].fnCache, mod.tasks[i], {})
      <4>1. CASE i = n + 1
        BY <2>4, <2>6, <4>1 DEF f
      <4>2. CASE i # n + 1
        <5>1. i > functionCount
          BY <1>8, <1>12, <3>1, <4>2
        <5>2. CASE mod.first[mod.tasks[i]] = NoValue
          BY <5>2
        <5>3. CASE \E u \in Workers : Begun(wk[u].stack, wk[u].fnCache, mod.tasks[i], {})
          <6>1. PICK u \in Workers : Begun(wk[u].stack, wk[u].fnCache, mod.tasks[i], {})
            BY <5>3
          <6>2. Begun(wk'[u].stack, wk'[u].fnCache, mod.tasks[i], {})
            BY <2>5, <2>6, <6>1 DEF StillBegun
          <6> QED
            BY <6>2
        <5> QED
          BY <1>5, <5>1, <5>2, <5>3 DEF TasksBegun
      <4> QED
        BY <4>1, <4>2
    <3> QED
      BY <1>1, <1>9, <3>1 DEF TasksBegun
  <2>9. PoolInv'
    <3>1. \A u \in Workers \ live' : wk'[u].stack = <<>>
      BY <1>1, <1>5, <2>1, <2>6
    <3>2. functionCount' >= 0 /\ live' = 1..PoolSize'
      BY <1>1, <1>5, <1>8, <1>9, <1>12, <1>15, <2>1
    <3> QED
      BY <1>1, <1>4, <1>6, <1>9, <2>8, <3>1, <3>2 DEF PoolInv
  <2> QED
    BY <1>10, <2>6, <2>7, <2>9 DEF StratorInv
<1> QED
  BY <1>14, <1>15

(* A reported pair comes from two recorded accesses.                       *)
RealRace(r) ==
  \E p, q \in Points :
    /\ r = {p[3], q[3]}
    /\ "store" \in {Code(p[3]).op, Code(q[3]).op}
    /\ p[4] \cap q[4] = {}
    /\ {p[1], q[1]} \subseteq Multithreaded
    /\ MayTouchSame(p[3], q[3])

RaceOf(r, a, b) == r = {a.inst, b.inst} /\ Conflict(a, b)

LEMMA RaceIsReal ==
  ASSUME NEW a, NEW b, AccessReal(a), AccessReal(b), NEW r, RaceOf(r, a, b)
  PROVE  RealRace(r)
<1>0. r = {a.inst, b.inst} /\ Conflict(a, b)
  BY DEF RaceOf
<1>1. PICK p \in Points : p[3] = a.inst /\ p[4] = a.locks /\ p[1] \in Multithreaded
  BY DEF AccessReal
<1>2. PICK q \in Points : q[3] = b.inst /\ q[4] = b.locks /\ q[1] \in Multithreaded
  BY DEF AccessReal
<1>3. "store" \in {Code(p[3]).op, Code(q[3]).op}
  BY <1>0, <1>1, <1>2 DEF AccessReal, Conflict
<1>4. p[4] \cap q[4] = {}
  BY <1>0, <1>1, <1>2 DEF Conflict
<1>5. MayTouchSame(p[3], q[3])
  BY <1>0, <1>1, <1>2 DEF AccessReal, Conflict, MayTouchSame
<1>6. r = {p[3], q[3]} /\ {p[1], q[1]} \subseteq Multithreaded
  BY <1>0, <1>1, <1>2
<1> QED
  BY <1>3, <1>4, <1>5, <1>6 DEF RealRace

LEMMA ReportRacesInv ==
  ASSUME StratorInv, ReportRaces
  PROVE  StratorInv'
<1>1. /\ IF mode = "global" THEN live = {} ELSE wk[1].stack = <<>>
      /\ reported' = TRUE
      /\ races' = {{p[1][1].inst, p[2][1].inst} :
                     p \in {q \in FinalAccesses \X FinalAccesses :
                              q[1] # q[2] /\ Conflict(q[1][1], q[2][1])}}
      /\ mod' = mod /\ mode' = mode /\ wk' = wk /\ live' = live
      /\ functionCount' = functionCount /\ mtCalls' = mtCalls
  BY DEF ReportRaces
<1>2. TypeOK /\ PoolInv /\ \A u \in Workers : WorkerInv(wk[u])
  BY DEF StratorInv
<1>3. Env
  BY <1>2 DEF TypeOK, Env
<1>4. ASSUME NEW r \in races'
      PROVE  \E w, u \in Workers : \E a \in wk[w].accesses, b \in wk[u].accesses :
               r = {a.inst, b.inst} /\ Conflict(a, b)
  <2>1. PICK d, e \in FinalAccesses : r = {d[1].inst, e[1].inst} /\ Conflict(d[1], e[1])
    BY <1>1
  <2>2. (\E w \in Workers : d[1] \in wk[w].accesses) /\ (\E u \in Workers : e[1] \in wk[u].accesses)
    BY <2>1 DEF FinalAccesses
  <2> QED
    BY <2>1, <2>2
<1>5. \A w \in Workers : MarksOK(wk[w].mt, wk[w].accesses)
  BY <1>2, WorkerFields DEF WorkerInv
<1>6. races' \subseteq SUBSET Stmts(mod)
  <2>1. \A w \in Workers : \A a \in wk[w].accesses : a.inst \in Stmts(mod)
    BY <1>5 DEF MarksOK, AccessType
  <2> QED
    BY <1>4, <2>1
<1>7. Workers' = Workers /\ PoolSize' = PoolSize /\ Functions' = Functions
  BY <1>1 DEF Workers, PoolSize, Functions
<1>8. \A u \in Workers : WorkerInv(wk[u])'
  <2>1. \A x : WorkerInv(x)' <=> WorkerInv(x)
    BY <1>1, SameWorker
  <2> QED
    BY <1>1, <1>2, <2>1
<1>9. TypeOK'
  <2>1. \A u \in Workers : WorkerOK(wk[u])'
    BY <1>8 DEF WorkerInv, WorkerAt
  <2>2. /\ mod' \in Modules /\ mode' \in Modes /\ live' \subseteq Workers
        /\ functionCount' \in -PoolSize..Len(mod'.tasks) /\ reported' \in BOOLEAN
        /\ mtCalls' \subseteq Functions \X LockSets(mod') /\ races' \subseteq SUBSET Stmts(mod')
        /\ wk' = [w \in Workers |-> wk'[w]]
    BY <1>1, <1>2, <1>6 DEF TypeOK
  <2> QED
    BY <1>7, <2>1, <2>2 DEF TypeOK
<1>10. PoolInv'
  <2>1. mode = "directed" \/ mode = "global"
    BY <1>3, PoolSizeFacts
  <2>2. TasksBegun' <=> TasksBegun
    BY <1>1, <1>7 DEF TasksBegun
  <2>3. CASE mode = "directed"
    BY <1>1, <1>2, <1>7, <2>3 DEF PoolInv
  <2>4. CASE mode = "global"
    BY <1>1, <1>2, <1>7, <2>2, <2>4 DEF PoolInv
  <2> QED
    BY <2>1, <2>3, <2>4
<1>11. RacesReal'
  <2>1. /\ Points' = Points /\ (Regular' <=> Regular) /\ Multithreaded' = Multithreaded
    BY <1>1, Same
  <2>2. \A s : Code(s)' = Code(s)
    BY <1>1 DEF Code
  <2>3. \A s, t : MayTouchSame(s, t)' <=> MayTouchSame(s, t)
    BY <1>1, <2>2 DEF MayTouchSame
  <2>4. ASSUME Regular, NEW r \in races'
        PROVE  RealRace(r)
    <3>1. PICK w \in Workers, u \in Workers : \E a \in wk[w].accesses, b \in wk[u].accesses :
            r = {a.inst, b.inst} /\ Conflict(a, b)
      BY <1>4
    <3>2. PICK a \in wk[w].accesses, b \in wk[u].accesses : r = {a.inst, b.inst} /\ Conflict(a, b)
      BY <3>1
    <3>3. AccessReal(a) /\ AccessReal(b)
      BY <1>5, <2>4 DEF MarksOK
    <3> QED
      BY <3>2, <3>3, RaceIsReal DEF RaceOf
  <2> QED
    BY <2>1, <2>2, <2>3, <2>4 DEF RacesReal, RealRace
<1> QED
  BY <1>7, <1>8, <1>9, <1>10, <1>11 DEF StratorInv

LEMMA NextInv == StratorInv /\ [Next]_vars => StratorInv'
<1> SUFFICES ASSUME StratorInv, [Next]_vars PROVE StratorInv'
  OBVIOUS
<1>1. CASE ReportRaces
  BY <1>1, ReportRacesInv
<1>2. ASSUME NEW w \in Workers, WorkerStep(w) PROVE StratorInv'
  <2>1. CASE StatementCached(w)
    BY <2>1, StatementCachedInv
  <2>2. CASE Ret(w)
    BY <2>2, RetActionInv
  <2>3. CASE Access(w)
    BY <2>3, AccessInv
  <2>4. CASE LockOperation(w)
    BY <2>4, LockOperationInv
  <2>5. CASE Plain(w)
    BY <2>5, PlainInv
  <2>6. CASE Call(w)
    BY <2>6, CallInv
  <2>7. CASE EndFunction(w)
    BY <2>7, EndFunctionInv
  <2>8. CASE GetTask(w)
    BY <2>8, GetTaskInv
  <2> QED
    BY <1>2, <2>1, <2>2, <2>3, <2>4, <2>5, <2>6, <2>7, <2>8 DEF WorkerStep
<1>3. CASE UNCHANGED vars
  <2>1. /\ mod' = mod /\ mode' = mode /\ wk' = wk /\ live' = live
        /\ functionCount' = functionCount /\ races' = races /\ reported' = reported
        /\ mtCalls' = mtCalls
    BY <1>3 DEF vars
  <2>2. TypeOK /\ PoolInv /\ RacesReal /\ \A u \in Workers : WorkerInv(wk[u])
    BY DEF StratorInv
  <2>3. Workers' = Workers /\ PoolSize' = PoolSize /\ Functions' = Functions
    BY <2>1 DEF Workers, PoolSize, Functions
  <2>4. \A u \in Workers : WorkerInv(wk[u])'
    <3>1. \A x : WorkerInv(x)' <=> WorkerInv(x)
      BY <2>1, SameWorker
    <3> QED
      BY <2>1, <2>2, <3>1
  <2>5. TypeOK'
    <3>1. \A u \in Workers : WorkerOK(wk[u])'
      BY <2>4 DEF WorkerInv, WorkerAt
    <3>2. /\ mod' \in Modules /\ mode' \in Modes /\ live' \subseteq Workers
          /\ functionCount' \in -PoolSize..Len(mod'.tasks) /\ reported' \in BOOLEAN
          /\ mtCalls' \subseteq Functions \X LockSets(mod') /\ races' \subseteq SUBSET Stmts(mod')
          /\ wk' = [w \in Workers |-> wk'[w]]
      BY <2>1, <2>2 DEF TypeOK
    <3> QED
      BY <2>3, <3>1, <3>2 DEF TypeOK
  <2>6. PoolInv'
    <3>1. TasksBegun' <=> TasksBegun
      BY <2>1, <2>3 DEF TasksBegun
    <3> QED
      BY <2>1, <2>2, <2>3, <3>1 DEF PoolInv
  <2>7. RacesReal'
    BY <2>1, <2>2, SameRaces
  <2> QED
    BY <2>3, <2>4, <2>5, <2>6, <2>7 DEF StratorInv
<1> QED
  BY <1>1, <1>2, <1>3 DEF Next

-----------------------------------------------------------------------------
(* What the invariant gives about the summaries and the bindings.          *)
LEMMA InvSummaries == StratorInv => SummariesExact
<1> SUFFICES ASSUME StratorInv, Regular, NonRecursive, NEW w \in Workers, NEW e \in wk[w].fnCache
             PROVE  e.exits = Exits(mod, Points, e.fn, e.entry)
  BY DEF SummariesExact
<1>1. WorkerAt(wk[w], 2)
  BY DEF StratorInv, WorkerInv
<1>2. Core(wk[w].stack, wk[w].stmtCache, wk[w].fnCache, 2)
  BY <1>1, WorkerFields
<1>3. SoundInv(wk[w].stack, wk[w].fnCache) /\ ExactInv(wk[w].fnCache)
  BY <1>2, SMTT(60) DEF Core
<1> QED
  BY <1>3 DEF SoundInv, ExactInv

LEMMA InvBound == StratorInv => ParametersBound
<1> SUFFICES ASSUME StratorInv, NonRecursive, NEW w \in Workers
             PROVE  /\ \A f \in Functions \ OnStack(wk[w]) :
                         mod.formal[f] \notin DOMAIN wk[w].parent
                    /\ \A i \in 1..(Len(wk[w].stack) - 1) :
                         mod.formal[wk[w].stack[i].fn] # NoValue =>
                           /\ mod.formal[wk[w].stack[i].fn] \in DOMAIN wk[w].parent
                           /\ wk[w].parent[mod.formal[wk[w].stack[i].fn]] =
                                Code(Head(wk[w].stack[i + 1].todo).at).arg
  BY DEF ParametersBound
<1>1. WorkerAt(wk[w], 2) /\ BoundInv(wk[w].stack, wk[w].parent)
  BY DEF StratorInv, WorkerInv
<1>2. wk[w].stack \in Seq(FrameType)
  <2>1. Core(wk[w].stack, wk[w].stmtCache, wk[w].fnCache, 2)
    BY <1>1, WorkerFields
  <2> QED
    BY <2>1 DEF Core, CoreTypes
<1>3. \A i \in 1..(Len(wk[w].stack) - 1) : wk[w].stack[i].fn \in OnStack(wk[w])
  <2> DEFINE st == wk[w].stack
  <2>1. \A i \in 1..(Len(st) - 1) : i \in DOMAIN st
    BY <1>2, SMTT(60)
  <2> QED
    BY <2>1 DEF OnStack
<1>4. \A f \in Functions \ OnStack(wk[w]) : mod.formal[f] \notin DOMAIN wk[w].parent
  BY <1>1, <1>3, SMTT(60) DEF BoundInv
<1>5. \A i \in 1..(Len(wk[w].stack) - 1) :
        mod.formal[wk[w].stack[i].fn] # NoValue =>
          /\ mod.formal[wk[w].stack[i].fn] \in DOMAIN wk[w].parent
          /\ wk[w].parent[mod.formal[wk[w].stack[i].fn]] =
               Code(Head(wk[w].stack[i + 1].todo).at).arg
  BY <1>1 DEF BoundInv
<1> QED
  BY <1>4, <1>5, SMTT(60)

-----------------------------------------------------------------------------
(* A worker without frames has visited all that lies behind the points     *)
(* that it has visited.                                                    *)
HasVisited(sc, fc, p) == Summarised(fc, p[1], p[2]) /\ <<p[3], p[2], p[4]>> \in sc

LEMMA DoneCovers ==
  ASSUME Env, Regular, NonRecursive, NEW st, NEW sc, NEW fc, Core(st, sc, fc, 2), st = <<>>
  PROVE  /\ \A f \in Functions, L \in LockSets(mod) :
              Summarised(fc, f, L) => <<mod.first[f], L, L>> \in sc
         /\ \A p \in Points : HasVisited(sc, fc, p) =>
              /\ \A s \in Successors(mod)[p[3]], L \in LocksAfter(mod, Points, p) :
                   <<s, p[2], L>> \in sc
              /\ Code(p[3]).op \in CallOps /\ mod.first[Code(p[3]).fn] # NoValue =>
                   Summarised(fc, Code(p[3]).fn, p[4])
<1>1. SearchInv(st, sc, fc, 2) /\ SoundInv(st, fc) /\ ExactInv(fc)
  BY DEF Core
<1>2. /\ \A f, L0, s, L : Seen(st, sc, f, L0, s, L) => <<s, L0, L>> \in sc
      /\ \A k : ~Pending(st, 2, k)
  BY DEF Seen, Pending
<1>3. ASSUME NEW f \in Functions, NEW L \in LockSets(mod), Summarised(fc, f, L)
      PROVE  <<mod.first[f], L, L>> \in sc
  <2>1. Seen(st, sc, f, L, mod.first[f], L)
    BY <1>1, <1>3 DEF SearchInv, Begun
  <2> QED
    BY <1>2, <2>1
<1>4. ASSUME NEW p \in Points, HasVisited(sc, fc, p)
      PROVE  Settled(st, sc, fc, p[1], <<p[3], p[2], p[4]>>)
  <2>1. p[1] \in Functions /\ p[3] \in Flow(p[1])
    BY PointsInFlow DEF Env, Flow, AllPoints, Functions
  <2> DEFINE k == <<p[3], p[2], p[4]>>
  <2>2. k \in sc /\ k[1] \in Flow(p[1]) /\ ~Pending(st, 2, k)
    BY <1>2, <1>4, <2>1 DEF HasVisited
  <2> HIDE DEF k
  <2>3. Settled(st, sc, fc, p[1], k)
    BY <1>1, <2>1, <2>2 DEF SearchInv
  <2> QED
    BY <2>3 DEF k
<1>5. ASSUME NEW p \in Points, HasVisited(sc, fc, p),
             NEW s \in Successors(mod)[p[3]], NEW L \in LocksAfter(mod, Points, p)
      PROVE  <<s, p[2], L>> \in sc
  <2>1. Settled(st, sc, fc, p[1], <<p[3], p[2], p[4]>>)
    BY <1>4, <1>5
  <2>2. Seen(st, sc, p[1], p[2], s, L)
    BY <1>1, <2>1, StepSeen
  <2> QED
    BY <1>2, <2>2
<1>6. ASSUME NEW p \in Points, HasVisited(sc, fc, p),
             Code(p[3]).op \in CallOps, mod.first[Code(p[3]).fn] # NoValue
      PROVE  Summarised(fc, Code(p[3]).fn, p[4])
  <2>1. Settled(st, sc, fc, p[1], <<p[3], p[2], p[4]>>)
    BY <1>4, <1>6
  <2>2. \E e \in fc : e.fn = Code(p[3]).fn /\ e.entry = p[4]
    BY <1>6, <2>1 DEF Settled
  <2> QED
    BY <2>2 DEF Summarised
<1> QED
  BY <1>3, <1>5, <1>6

(* When the report is written no worker has a frame, and every entry point *)
(* with a body has a summary.                                              *)
LEMMA AllDone ==
  ASSUME StratorInv, reported
  PROVE  /\ \A w \in Workers : wk[w].stack = <<>>
         /\ \A r \in Roots(mod, mode) : mod.first[r] # NoValue =>
              \E w \in Workers : Summarised(wk[w].fnCache, r, {})
<1>1. Env /\ PoolInv /\ functionCount \in -PoolSize..Len(mod.tasks)
  BY DEF StratorInv, TypeOK, Env
<1>2. /\ PoolSize \in Nat /\ Len(mod.tasks) \in Nat /\ (PoolSize = 0 => Len(mod.tasks) = 0)
      /\ 1 \in Workers /\ (mode = "directed" \/ mode = "global")
  BY <1>1, PoolSizeFacts
<1>3. \A w \in Workers : \A f, L : wk[w].stack = <<>> /\ Begun(wk[w].stack, wk[w].fnCache, f, L) =>
        Summarised(wk[w].fnCache, f, L)
  BY DEF Begun, Active
<1>4. CASE mode = "directed"
  <2>1. /\ \A w \in Workers : wk[w].stack = <<>>
        /\ Begun(wk[1].stack, wk[1].fnCache, mod.root, {})
    BY <1>1, <1>4 DEF PoolInv
  <2>2. Summarised(wk[1].fnCache, mod.root, {})
    BY <1>2, <1>3, <2>1
  <2>3. \A r \in Roots(mod, mode) : r = mod.root
    BY <1>4 DEF Roots
  <2> QED
    BY <1>2, <2>1, <2>2, <2>3
<1>5. CASE mode = "global"
  <2>1. mode # "directed"
    BY <1>5
  <2>2. /\ functionCount >= 0 => live = 1..PoolSize
        /\ live = {} /\ TasksBegun
        /\ \A w \in Workers \ live : wk[w].stack = <<>>
    BY <1>1, <2>1 DEF PoolInv
  <2>3. \A w \in Workers : wk[w].stack = <<>>
    BY <2>2
  <2>4. ASSUME NEW i \in 1..Len(mod.tasks), mod.first[mod.tasks[i]] # NoValue
        PROVE  \E w \in Workers : Summarised(wk[w].fnCache, mod.tasks[i], {})
    <3>1. i > functionCount
      <4>1. CASE functionCount >= 0
        <5>1. 1..PoolSize = {}
          BY <2>2, <4>1
        <5>2. PoolSize = 0
          BY <1>2, <5>1
        <5> QED
          BY <1>2, <5>2
      <4>2. CASE ~(functionCount >= 0)
        BY <1>1, <1>2, <4>2
      <4> QED
        BY <4>1, <4>2
    <3>2. PICK w \in Workers : Begun(wk[w].stack, wk[w].fnCache, mod.tasks[i], {})
      BY <2>2, <2>4, <3>1 DEF TasksBegun
    <3> QED
      BY <1>3, <2>3, <3>2
  <2>5. \A r \in Roots(mod, mode) : \E i \in 1..Len(mod.tasks) : r = mod.tasks[i]
    <3>1. mod.tasks \in Seq(Functions)
      BY <1>1, ModulesAssumption DEF Env, WellFormed, Functions
    <3> QED
      BY <2>1, <3>1 DEF Roots
  <2> QED
    BY <2>3, <2>4, <2>5
<1> QED
  BY <1>2, <1>4, <1>5

LEMMA InvCovered == StratorInv => PathsCovered
<1> SUFFICES ASSUME StratorInv, reported, Regular, NonRecursive
             PROVE  \A p \in Points : \E w \in Workers : <<p[3], p[2], p[4]>> \in wk[w].stmtCache
  BY DEF PathsCovered
<1> DEFINE V(w, p) == HasVisited(wk[w].stmtCache, wk[w].fnCache, p)
           Q == {p \in AllPoints(mod) : \E w \in Workers : V(w, p)}
<1>1. Env /\ \A w \in Workers : WorkerAt(wk[w], 2)
  BY DEF StratorInv, TypeOK, Env, WorkerInv
<1>2. /\ \A w \in Workers : wk[w].stack = <<>>
      /\ \A r \in Roots(mod, mode) : mod.first[r] # NoValue =>
           \E w \in Workers : Summarised(wk[w].fnCache, r, {})
  BY AllDone
<1>3. ASSUME NEW w \in Workers
      PROVE  /\ \A f \in Functions, L \in LockSets(mod) :
                  Summarised(wk[w].fnCache, f, L) => <<mod.first[f], L, L>> \in wk[w].stmtCache
             /\ \A p \in Points : V(w, p) =>
                  /\ \A s \in Successors(mod)[p[3]], L \in LocksAfter(mod, Points, p) :
                       <<s, p[2], L>> \in wk[w].stmtCache
                  /\ Code(p[3]).op \in CallOps /\ mod.first[Code(p[3]).fn] # NoValue =>
                       Summarised(wk[w].fnCache, Code(p[3]).fn, p[4])
  <2>1. Core(wk[w].stack, wk[w].stmtCache, wk[w].fnCache, 2)
    BY <1>1, WorkerFields
  <2> QED
    BY <1>1, <1>2, <2>1, DoneCovers
<1>4. Points \subseteq AllPoints(mod)
  BY <1>1, PointsFacts DEF Env
(* The first statement of a function with a summary has been visited.      *)
<1>5. ASSUME NEW f \in Functions, NEW L \in LockSets(mod), Entry(mod, f, L) \subseteq Points,
             mod.first[f] # NoValue => \E w \in Workers : Summarised(wk[w].fnCache, f, L)
      PROVE  Entry(mod, f, L) \subseteq Q
  <2>1. CASE mod.first[f] = NoValue
    BY <2>1 DEF Entry
  <2>2. CASE mod.first[f] # NoValue
    <3> DEFINE p == <<f, L, mod.first[f], L>>
    <3>1. PICK w \in Workers : Summarised(wk[w].fnCache, f, L)
      BY <1>5, <2>2
    <3>2. V(w, p)
      BY <1>3, <3>1 DEF HasVisited
    <3>3. Entry(mod, f, L) = {p}
      BY <2>2 DEF Entry
    <3>4. p \in AllPoints(mod)
      BY <1>4, <1>5, <3>3
    <3> HIDE DEF p, V
    <3> QED
      BY <3>2, <3>3, <3>4
  <2> QED
    BY <2>1, <2>2
<1>6. ASSUME NEW r \in Roots(mod, mode) PROVE Entry(mod, r, {}) \subseteq Q
  <2>1. r \in Functions /\ Entry(mod, r, {}) \subseteq Points /\ {} \in LockSets(mod)
    BY <1>1, RootsType, PointsFacts DEF Env, LockSets
  <2> HIDE DEF Q
  <2> QED
    BY <1>2, <1>5, <2>1
<1>7. ASSUME NEW p \in Points, p \in Q PROVE After(mod, Points, p) \subseteq Q
  <2> DEFINE c == Code(p[3])
  <2>1. PICK w \in Workers : V(w, p)
    BY <1>7
  <2>2. /\ \A s \in Successors(mod)[p[3]], L \in LocksAfter(mod, Points, p) :
             <<s, p[2], L>> \in wk[w].stmtCache
        /\ c.op \in CallOps /\ mod.first[c.fn] # NoValue =>
             Summarised(wk[w].fnCache, c.fn, p[4])
    BY <1>3, <2>1
  <2>3. /\ \A s \in Successors(mod)[p[3]], L \in LocksAfter(mod, Points, p) :
             <<p[1], p[2], s, L>> \in Points
        /\ c.op = "call" => Entry(mod, c.fn, p[4]) \subseteq Points
        /\ c.op = "create" => Entry(mod, c.fn, {}) \subseteq Points
    BY <1>1, PointsClosed DEF Env
  <2>4. p[4] \in LockSets(mod) /\ (c.op \in CallOps => c.fn \in Functions)
    BY <1>1, <1>4, CallFacts DEF Env, AllPoints, Functions, Code
  <2>5. {<<p[1], p[2], s, L>> : s \in Successors(mod)[p[3]], L \in LocksAfter(mod, Points, p)}
          \subseteq Q
    <3>1. ASSUME NEW s \in Successors(mod)[p[3]], NEW L \in LocksAfter(mod, Points, p)
          PROVE  <<p[1], p[2], s, L>> \in Q
      <4> DEFINE q == <<p[1], p[2], s, L>>
      <4>1. Summarised(wk[w].fnCache, p[1], p[2])
        BY <2>1 DEF HasVisited
      <4>2. q[1] = p[1] /\ q[2] = p[2] /\ q[3] = s /\ q[4] = L
        OBVIOUS
      <4>3. q \in AllPoints(mod)
        BY <1>4, <2>3
      <4>4. V(w, q)
        BY <2>2, <4>1, <4>2 DEF HasVisited
      <4> HIDE DEF q, V
      <4>5. q \in Q
        BY <4>3, <4>4
      <4> QED
        BY <4>5 DEF q
    <3> HIDE DEF Q
    <3> QED
      BY <3>1
  <2>6. /\ c.op = "call" => Entry(mod, c.fn, p[4]) \subseteq Q
        /\ c.op = "create" => Entry(mod, c.fn, {}) \subseteq Q
    <3>1. c.op = "create" => p[4] = {}
      BY DEF Regular
    <3>2. c.op = "call" \/ c.op = "create" => c.op \in CallOps
      BY DEF CallOps
    <3>3. ASSUME c.op = "call" \/ c.op = "create" PROVE Entry(mod, c.fn, p[4]) \subseteq Q
      <4>1. /\ c.fn \in Functions /\ p[4] \in LockSets(mod)
            /\ Entry(mod, c.fn, p[4]) \subseteq Points
            /\ mod.first[c.fn] # NoValue => Summarised(wk[w].fnCache, c.fn, p[4])
        BY <2>2, <2>3, <2>4, <3>1, <3>2, <3>3
      <4> HIDE DEF Q, c
      <4> QED
        BY <1>5, <4>1
    <3> HIDE DEF Q, c
    <3> QED
      BY <3>1, <3>3
  <2> HIDE DEF Q
  <2> QED
    BY <2>5, <2>6 DEF After, Code
<1>8. Points \subseteq Q
  <2> HIDE DEF Q
  <2> QED
    BY <1>1, <1>6, <1>7, PointsLeast DEF Env
<1> QED
  BY <1>8 DEF HasVisited

-----------------------------------------------------------------------------
LEMMA Invariant == Spec => []StratorInv
BY InitInv, NextInv, PTL DEF Spec

(* The data of the workers keep their types: the flags are functions, lock *)
(* sets are sets of values, a binding binds a value to a value, and the    *)
(* task counter that getTask decrements without a test falls below zero by *)
(* no more than the size of the pool.                                      *)
THEOREM StratorTypeCorrect == Spec => []TypeOK
<1>1. StratorInv => TypeOK
  BY DEF StratorInv
<1> QED
  BY Invariant, <1>1, PTL

(* propagateParentValues: with whatever calls and casts before, while a    *)
(* function is traversed its parameter is bound to the argument of the     *)
(* call under way, and it is bound to nothing otherwise.                   *)
THEOREM ParametersBoundCorrect == Spec => []ParametersBound
BY Invariant, InvBound, PTL

(* reportRaces: every reported pair is reached on paths of the program     *)
(* with disjoint lock sets, by functions that run beside other threads.    *)
THEOREM RacesRealCorrect == Spec => []RacesReal
<1>1. StratorInv => RacesReal
  BY DEF StratorInv
<1> QED
  BY Invariant, <1>1, PTL

(* addToFunctionCache: a summary holds exactly the exit lock sets of the   *)
(* function's paths, although the traversal stops at statements that it    *)
(* has met before and returns no lock set for them.                        *)
THEOREM SummariesExactCorrect == Spec => []SummariesExact
BY Invariant, InvSummaries, PTL

(* runOnModule: when the threads have been joined and the report is        *)
(* written, the workers of the pool have together visited every statement  *)
(* with every lock set that a path from an entry point brings to it.       *)
THEOREM PathsCoveredCorrect == Spec => []PathsCovered
BY Invariant, InvCovered, PTL
=============================================================================
