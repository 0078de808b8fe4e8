------------------------------- MODULE Strator -------------------------------
(***************************************************************************)
(* Strator, the static race detector: workers traverse the functions of a  *)
(* module with the set of mutexes held, and memoise what they did.  The    *)
(* recursion traverseFunction / traverseStatement is an explicit stack: a  *)
(* frame per function, in it the statements still to visit, depth first.   *)
(* Default options: prop-level 0, use-aa, use-parval.                      *)
(***************************************************************************)
EXTENDS Integers, Sequences, FiniteSets, Loops

CONSTANTS
  Modules,  (* the programs under analysis, records:                        *)
            (*   code   statement -> [op, val, arg, fn, succ]               *)
            (*   first  function -> first statement, NoValue: a declaration *)
            (*   formal function -> its parameter, or NoValue               *)
            (*   root   main;  tasks: the other ways in, a sequence         *)
            (*   values, and of these: const, and alias, a set of pairs     *)
            (*   base   value -> first operand of the instruction that      *)
            (*          computes it, NoValue: not computed by one           *)
            (*   cast   value -> operand of a constant cast, or NoValue     *)
  Modes,    (* subset of {"directed", "global"}                             *)
  MaxPool,  (* bound on the thread pool; 50 in the code                     *)
  NoValue

Ops == {"load", "store", "lock", "unlock", "call", "create", "ret", "skip", "pthread", "bitcast"}

(* What the LLVM verifier has checked: an operand is a value, a callee is  *)
(* a function and gets its argument, a value has one definition.  Neither  *)
(* a parameter nor a constant is computed by an instruction.               *)
WellFormed(m) ==
  /\ IsFiniteSet(DOMAIN m.code) /\ IsFiniteSet(DOMAIN m.first) /\ IsFiniteSet(m.values)
  /\ NoValue \notin DOMAIN m.code \cup m.values
  /\ m.code \in [DOMAIN m.code -> [op : Ops, val : m.values \cup {NoValue},
                                   arg : m.values \cup {NoValue},
                                   fn : DOMAIN m.first \cup {NoValue}, succ : Seq(DOMAIN m.code)]]
  /\ m.first \in [DOMAIN m.first -> DOMAIN m.code \cup {NoValue}]
  /\ m.formal \in [DOMAIN m.first -> m.values \cup {NoValue}]
  /\ m.base \in [m.values -> m.values \cup {NoValue}]
  /\ m.cast \in [m.values -> m.values \cup {NoValue}]
  /\ \A v \in m.values : NoValue \in {m.base[v], m.cast[v]}
  /\ \A f \in DOMAIN m.first : m.formal[f] # NoValue =>
       m.base[m.formal[f]] = NoValue /\ m.cast[m.formal[f]] = NoValue
  /\ m.root \in DOMAIN m.first /\ m.first[m.root] # NoValue
  /\ m.tasks \in Seq(DOMAIN m.first)
  /\ \A f, g \in DOMAIN m.first : m.formal[f] = m.formal[g] /\ m.formal[f] # NoValue => f = g
  /\ \A s \in DOMAIN m.code :
       LET c == m.code[s]
       IN /\ c.op \in {"load", "store", "lock", "unlock", "bitcast"} => c.val \in m.values
          /\ c.op = "bitcast" => c.arg \in m.values /\ m.base[c.val] = c.arg
          /\ c.op \in {"call", "create"} =>
               /\ c.fn \in DOMAIN m.first
               /\ m.formal[c.fn] # NoValue => c.arg \in m.values
          /\ c.op = "ret" => c.succ = <<>>

ASSUME ModulesAssumption ==
  /\ \A m \in Modules : WellFormed(m)
  /\ Modes \subseteq {"directed", "global"}
  /\ MaxPool \in Nat \ {0}

VARIABLES
  mod, mode,      (* chosen once                                            *)
  wk,             (* the private state of each StratorWorker                *)
  live,           (* workers whose thread has not ended                     *)
  functionCount,  (* tasks left; falls below zero                           *)
  races,          (* reported pairs of instructions                         *)
  reported,       (* reportRaces has run                                    *)
  mtCalls         (* history: calls made while the callee was flagged       *)

vars == <<mod, mode, wk, live, functionCount, races, reported, mtCalls>>

Workers   == 1..MaxPool
Code(s)   == mod.code[s]
Functions == DOMAIN mod.first
PoolSize  == IF Len(mod.tasks) < MaxPool THEN Len(mod.tasks) ELSE MaxPool
-----------------------------------------------------------------------------
(* StratorWorker: operators that take and return the record of a worker.   *)

Frame(f, L) == [fn |-> f, entry |-> L, exits |-> {},
                todo |-> <<[at |-> mod.first[f], locks |-> L]>>]

Top(ws)     == Head(ws.stack)
Item(ws)    == Head(Top(ws).todo)
OnStack(ws) == {ws.stack[i].fn : i \in DOMAIN ws.stack}

NewWorker == [stack |-> <<>>, stmtCache |-> {}, fnCache |-> {}, mt |-> {},
              parent |-> [v \in {} |-> NoValue], accesses |-> {}]

(* Every way to put a set into a sequence: sets of lock sets are ordered   *)
(* by the addresses of LLVM values.                                        *)
Orders(S) == {o \in [1..Cardinality(S) -> S] : \A x \in S : \E i \in DOMAIN o : o[i] = x}

(* Visit every successor of the current statement with every lock set.     *)
Follow(ws, order) ==
  LET succ == Code(Item(ws).at).succ
      n    == Len(succ)
      new  == [k \in 1..(n * Len(order)) |->
                 [at |-> succ[((k - 1) % n) + 1], locks |-> order[((k - 1) \div n) + 1]]]
  IN [ws EXCEPT !.stack[1].todo = new \o Tail(@)]

(* getDefOperand: from a value to what parentValue has for it, or to what  *)
(* a constant cast casts, until a value comes a second time.  A pass of    *)
(* the loop has the value and the set visited.                             *)
DefPass(parent) ==
  [x \in mod.values \X SUBSET mod.values |->
     LET v       == x[1]
         visited == x[2] \cup {v}
         bound   == v \in DOMAIN parent /\ parent[v] \notin visited
     IN IF v \in x[2] THEN x
        ELSE <<CASE bound -> parent[v]
                 [] ~bound /\ mod.cast[v] # NoValue -> mod.cast[v]
                 [] OTHER -> v,
               visited>>]

GetDefOperand(parent, v) ==
  Repeat(DefPass(parent), <<v, {}>>, Cardinality(mod.values))[1]

(* detectRaces: an access outside a multithreaded function is dropped.     *)
DetectRaces(ws) ==
  LET s == Item(ws).at
      operand == GetDefOperand(ws.parent, Code(s).val)
      access == [val |-> operand, store |-> Code(s).op = "store", inst |-> s,
                 entry |-> Top(ws).entry, locks |-> Item(ws).locks]
  IN IF operand \in mod.const \/ Top(ws).fn \notin ws.mt
     THEN ws
     ELSE [ws EXCEPT !.accesses = @ \cup {access}]

(* isMultiThreadedAPI: the locking functions and thread creation are among *)
(* them ("pthread" in the name).                                           *)
MultiThreadedAPI == {"lock", "unlock", "create", "pthread"}

(* Mutant: what an instruction computes is not traced.                     *)
LockOperand(ws, v) == v

(* getLockValue: a mutex that an instruction computes, a field of a struct *)
(* or what a pointer points to, goes by the first operand of the           *)
(* instruction, traced to the caller's argument; any other by its operand. *)
GetLockValue(ws, v) ==
  IF mod.base[v] = NoValue THEN v ELSE GetDefOperand(ws.parent, mod.base[v])

(* isLock, isUnLock: trylock counts as lock.                               *)
Locked(ws) ==
  LET l == GetLockValue(ws, Code(Item(ws).at).val)
  IN IF Code(Item(ws).at).op = "lock" THEN Item(ws).locks \cup {l}
                                      ELSE Item(ws).locks \ {l}

(* Mutant: the test for a function without parameters is missing.          *)
BindAlways(parent, v, to) ==
  [u \in DOMAIN parent \cup {v} |-> IF u = v THEN to ELSE parent[u]]

Bind(parent, v, to) ==
  IF v = NoValue THEN parent
  ELSE [u \in DOMAIN parent \cup {v} |-> IF u = v THEN to ELSE parent[u]]

(* Mutant: the arguments stay bound after the call.                        *)
UnbindNot(parent, v) == parent

Unbind(parent, v) == [u \in DOMAIN parent \ {v} |-> parent[u]]

(* Mutant: the entry lock set is not compared.                             *)
SummariesAnyEntry(ws, f, L) == {e \in ws.fnCache : e.fn = f}

Summaries(ws, f, L) == {e \in ws.fnCache : e.fn = f /\ e.entry = L}

(* traverseFunction returns at once for a declaration, for a summary that  *)
(* is cached and for recursion, which it ignores.                          *)
ReturnsAtOnce(ws, f, L) ==
  \/ mod.first[f] = NoValue
  \/ Summaries(ws, f, L) # {}
  \/ f \in OnStack(ws)

ExitsAtOnce(ws, f, L) == UNION {e.exits : e \in Summaries(ws, f, L)}

Enter(ws, f, L) == [ws EXCEPT !.stack = <<Frame(f, L)>> \o @]

(* After a call of f: its parameter is unbound, and the traversal goes on  *)
(* with the exit lock sets, or with the current one if there are none.     *)
AfterCall(ws, f, exits) ==
  {[Follow(ws, order) EXCEPT !.parent = Unbind(@, mod.formal[f])] :
     order \in Orders(IF exits = {} THEN {Item(ws).locks} ELSE exits)}
-----------------------------------------------------------------------------
(* traverseStatement: one action per kind of statement.                    *)

(* Mutant: the statement cache without the entry lock set.                 *)
KeyNoEntry(ws) == <<Item(ws).at, Item(ws).locks, Item(ws).locks>>

Key(ws) == <<Item(ws).at, Top(ws).entry, Item(ws).locks>>

Busy(w) == w \in live /\ wk[w].stack # <<>>

(* w visits a statement of one of these kinds, which is not in the cache.  *)
Visits(w, ops) ==
  /\ Busy(w) /\ Top(wk[w]).todo # <<>>
  /\ Key(wk[w]) \notin wk[w].stmtCache
  /\ Code(Item(wk[w]).at).op \in ops

(* What every visit does first: the cache, then the multithreaded flag.    *)
Visited(ws) ==
  [ws EXCEPT !.stmtCache = @ \cup {Key(ws)},
             !.mt = IF Code(Item(ws).at).op \in MultiThreadedAPI
                    THEN @ \cup {Top(ws).fn} ELSE @]

Worker(w, ws) == wk' = [wk EXCEPT ![w] = ws]
OnlyWorker == UNCHANGED <<mod, mode, live, functionCount, races, reported>>

(* Mutant: a statement found in the cache is not taken off.                *)
StatementKept(w) ==
  /\ Busy(w) /\ Top(wk[w]).todo # <<>>
  /\ Key(wk[w]) \in wk[w].stmtCache
  /\ UNCHANGED vars

StatementCached(w) ==
  /\ Busy(w) /\ Top(wk[w]).todo # <<>>
  /\ Key(wk[w]) \in wk[w].stmtCache
  /\ Worker(w, [wk[w] EXCEPT !.stack[1].todo = Tail(@)])
  /\ OnlyWorker /\ UNCHANGED mtCalls

Ret(w) ==
  /\ Visits(w, {"ret"})
  /\ Worker(w, [Visited(wk[w]) EXCEPT !.stack[1].todo = Tail(@),
                                      !.stack[1].exits = @ \cup {Item(wk[w]).locks}])
  /\ OnlyWorker /\ UNCHANGED mtCalls

Access(w) ==
  /\ Visits(w, {"load", "store"})
  /\ Worker(w, Follow(DetectRaces(Visited(wk[w])), <<Item(wk[w]).locks>>))
  /\ OnlyWorker /\ UNCHANGED mtCalls

LockOperation(w) ==
  /\ Visits(w, {"lock", "unlock"})
  /\ Worker(w, Follow(Visited(wk[w]), <<Locked(wk[w])>>))
  /\ OnlyWorker /\ UNCHANGED mtCalls

(* Other instructions, among them calls through a pointer, and casts.      *)
Plain(w) ==
  /\ Visits(w, {"skip", "pthread", "bitcast"})
  /\ LET c == Code(Item(wk[w]).at)
         ws == Follow(Visited(wk[w]), <<Item(wk[w]).locks>>)
     IN Worker(w, IF c.op = "bitcast"
                  THEN [ws EXCEPT !.parent = Bind(@, c.val, c.arg)]
                  ELSE ws)
  /\ OnlyWorker /\ UNCHANGED mtCalls

(* A call, or pthread_create, which traverses the thread's function.       *)
Call(w) ==
  /\ Visits(w, {"call", "create"})
  /\ LET c  == Code(Item(wk[w]).at)
         L  == Item(wk[w]).locks
         v  == Visited(wk[w])
         ws == [v EXCEPT !.mt = IF Top(v).fn \in @ THEN @ \cup {c.fn} ELSE @,
                         !.parent = Bind(@, mod.formal[c.fn], c.arg)]
     IN /\ IF ReturnsAtOnce(ws, c.fn, L)
           THEN \E after \in AfterCall(ws, c.fn, ExitsAtOnce(ws, c.fn, L)) : Worker(w, after)
           ELSE Worker(w, Enter(ws, c.fn, L))
        /\ mtCalls' = IF c.fn \in ws.mt THEN mtCalls \cup {<<c.fn, L>>} ELSE mtCalls
  /\ OnlyWorker

(* The end of traverseFunction: the summary is cached, the caller goes on. *)
EndFunction(w) ==
  /\ Busy(w) /\ Top(wk[w]).todo = <<>>
  /\ LET f  == Top(wk[w])
         ws == [wk[w] EXCEPT !.stack = Tail(@),
                  !.fnCache = @ \cup {[fn |-> f.fn, entry |-> f.entry, exits |-> f.exits]}]
     IN IF ws.stack = <<>>
        THEN Worker(w, ws)
        ELSE \E after \in AfterCall(ws, f.fn, f.exits) : Worker(w, after)
  /\ OnlyWorker /\ UNCHANGED mtCalls
-----------------------------------------------------------------------------
(* work and getTask, under taskQueueMutex.                                 *)
GetTask(w) ==
  /\ mode = "global" /\ w \in live /\ wk[w].stack = <<>>
  /\ functionCount' = functionCount - 1
  /\ IF functionCount' < 0
     THEN live' = live \ {w} /\ UNCHANGED wk
     ELSE LET f  == mod.tasks[functionCount' + 1]
              ws == [wk[w] EXCEPT !.mt = @ \ {f}]
          IN /\ Worker(w, IF ReturnsAtOnce(ws, f, {}) THEN ws ELSE Enter(ws, f, {}))
             /\ UNCHANGED live
  /\ UNCHANGED <<mod, mode, races, reported, mtCalls>>

(* runOnModule up to the creation of the workers.                          *)
Init ==
  /\ mod \in Modules
  /\ mode \in Modes
  /\ functionCount = Len(mod.tasks)
  /\ live = IF mode = "directed" THEN {1} ELSE 1..PoolSize
  /\ wk = [w \in Workers |-> IF mode = "directed" /\ w = 1
                             THEN Enter(NewWorker, mod.root, {}) ELSE NewWorker]
  /\ races = {}
  /\ reported = FALSE
  /\ mtCalls = {}

(* mergeValueToAccessTypeMaps: accesses are compared by identity.          *)
FinalAccesses == UNION {wk[w].accesses \X {w} : w \in Workers}

(* investigateAccesses, for one value or for two that may alias.           *)
Conflict(a, b) ==
  /\ a.val = b.val \/ {a.val, b.val} \in mod.alias
  /\ a.store \/ b.store
  /\ a.locks \cap b.locks = {}

(* The rest of runOnModule: the threads are joined, then reportRaces.      *)
ReportRaces ==
  /\ ~reported
  /\ IF mode = "global" THEN live = {} ELSE wk[1].stack = <<>>
  /\ reported' = TRUE
  /\ races' = {{p[1][1].inst, p[2][1].inst} :
                 p \in {q \in FinalAccesses \X FinalAccesses :
                          q[1] # q[2] /\ Conflict(q[1][1], q[2][1])}}
  /\ UNCHANGED <<mod, mode, wk, live, functionCount, mtCalls>>

WorkerStep(w) ==
  \/ StatementCached(w) \/ Ret(w) \/ Access(w) \/ LockOperation(w)
  \/ Plain(w) \/ Call(w) \/ EndFunction(w) \/ GetTask(w)

Next == ReportRaces \/ \E w \in Workers : WorkerStep(w)

Spec == Init /\ [][Next]_vars

(* The operating system starves no thread of the pool.                     *)
FairSpec == Spec /\ WF_vars(ReportRaces) /\ \A w \in Workers : WF_vars(WorkerStep(w))
=============================================================================
