----------------------------- MODULE LockTracer ------------------------------
(***************************************************************************)
(* The lock tracer (tools/LockTracer): the hooks that LockInstrumenter     *)
(* puts around the calls of pthread_mutex_lock and pthread_mutex_unlock,   *)
(* composed with the program that makes those calls and with findSCC,      *)
(* which initialize() runs before main's first instruction.                *)
(*                                                                         *)
(* A hooked lock call is beforeLock, which may delay the thread by an      *)
(* usleep outside tracerBigLock, then the real call, then afterLock.  A    *)
(* hooked unlock call is beforeUnlock, the real call and afterUnlock, with *)
(* tracerBigLock held from the first to the last.                          *)
(*                                                                         *)
(* NewComponent is the number checkSCC uses for a mutex that is new in     *)
(* this run: 0 in LockTracer.cpp, 1000000 in LockTracer-lp.cpp.            *)
(***************************************************************************)
EXTENDS Integers, Program, FindSCC

CONSTANT NewComponent

ASSUME NewComponentAssumption == NewComponent \in Nat

VARIABLES
  at,               (* where in its hooked call each thread is              *)
  tracerBigLock,    (* the thread that holds it, or NoThread                *)
  locks,            (* Thread::locks of each thread                         *)
  lockHistory,      (* Thread::lockHistory: only the last entry, as         *)
                    (* nothing but back() is read                           *)
  diffLocksHeldNum, (* Thread::diffLocksHeldNum                             *)
  lockThreadMap,    (* NoThread where the map has no key; its keys are      *)
                    (* allLocksHeld                                         *)
  RAOG,             (* the lock-order graph: as loaded, then extended       *)
  aborted           (* an assert of Thread::unlock has failed               *)

hookVars  == <<at, tracerBigLock>>
threadVars == <<locks, lockHistory, diffLocksHeldNum, lockThreadMap, RAOG>>
tracerVars == <<hookVars, threadVars, aborted>>
vars == <<progVars, sccVars, tracerVars>>

INF == 10000000

(* checkSCC takes INF for a number that no component reaches.              *)
ASSUME MutexesAssumption == IsFiniteSet(Locks) /\ Cardinality(Locks) < INF

Places == {"program", "checkSCC", "usleep", "endBefore", "pthread_lock",
           "afterLock", "lock", "pthread_unlock", "afterUnlock"}

(* The places at which a thread holds tracerBigLock.                       *)
Critical == {"checkSCC", "endBefore", "lock", "pthread_unlock", "afterUnlock"}

(* Only direct calls of these two functions get hooks.                     *)
Instrumented(c) == c.hooked /\ c.call \in {"lock", "unlock"}

(* The call that has returned, for the hooks behind it.                    *)
LastCall(t) == prog[t][ip[t] - 1]

(* initialize() is over and the process lives; t executes.                 *)
Active(t) == sccPhase = "done" /\ ~aborted /\ t \in alive

Goto(t, place) == at' = [at EXCEPT ![t] = place]

(* pthread_mutex_lock(&tracerBigLock) on the way to place.                 *)
TakeBigLock(t, place) ==
  /\ tracerBigLock = NoThread
  /\ tracerBigLock' = t
  /\ Goto(t, place)

Init ==
  /\ ProgInit
  /\ SccInit
  /\ at = [t \in Threads |-> "program"]
  /\ tracerBigLock = NoThread
  /\ locks = [t \in Threads |-> [m \in Locks |-> 0]]
  /\ lockHistory = [t \in Threads |-> <<>>]
  /\ diffLocksHeldNum = [t \in Threads |-> 0]
  /\ lockThreadMap = [m \in Locks |-> NoThread]
  /\ RAOG = graph
  /\ aborted = FALSE

(* initialize(): the steps of findSCC.                                     *)
Initialize == SccNext /\ UNCHANGED <<progVars, tracerVars>>

(* A call without hooks: a trylock, a call made by code that was not       *)
(* instrumented, such as the unlock and lock inside pthread_cond_wait.     *)
PlainCall(t) ==
  /\ Active(t)
  /\ at[t] = "program"
  /\ Running(t)
  /\ ~Instrumented(Call(t))
  /\ ProgStep(t)
  /\ UNCHANGED <<sccVars, tracerVars>>

HookedCall(t, call) ==
  /\ Active(t)
  /\ at[t] = "program"
  /\ Running(t)
  /\ Instrumented(Call(t))
  /\ Call(t).call = call

BeforeLock(t) ==
  /\ HookedCall(t, "lock")
  /\ TakeBigLock(t, "checkSCC")
  /\ UNCHANGED <<progVars, sccVars, threadVars, aborted>>

(* The component checkSCC looks the wanted mutex up in, and that of the    *)
(* last mutex the thread locked, held or not.                              *)
Comp(m) == IF m \in assigned THEN component[m] ELSE NewComponent
LastComp(t) ==
  IF diffLocksHeldNum[t] = 0 THEN INF ELSE component[lockHistory[t][1]]

(* Mutant: only a higher component delays.                                 *)
CheckSCCStrict(t) ==
  /\ Active(t)
  /\ at[t] = "checkSCC"
  /\ LET m == Call(t).m IN
       /\ RAOG' = GetNode(RAOG, m)
       /\ Goto(t, IF LastComp(t) < Comp(m) THEN "usleep" ELSE "pthread_lock")
  /\ assigned' = IF diffLocksHeldNum[t] = 0
                 THEN assigned ELSE assigned \cup {lockHistory[t][1]}
  /\ tracerBigLock' = NoThread
  /\ UNCHANGED <<progVars, graph, sccPhase, visited, stack, topologicalOrder,
                 component, componentNum, locks, lockHistory,
                 diffLocksHeldNum, lockThreadMap, aborted>>

(* Mutant: an undelayed thread keeps tracerBigLock.                        *)
CheckSCCKeepsLock(t) ==
  /\ Active(t)
  /\ at[t] = "checkSCC"
  /\ LET m == Call(t).m IN
       /\ RAOG' = GetNode(RAOG, m)
       /\ Goto(t, IF LastComp(t) <= Comp(m) THEN "usleep" ELSE "pthread_lock")
  /\ assigned' = IF diffLocksHeldNum[t] = 0
                 THEN assigned ELSE assigned \cup {lockHistory[t][1]}
  /\ tracerBigLock' = IF LastComp(t) <= Comp(Call(t).m) THEN NoThread ELSE t
  /\ UNCHANGED <<progVars, graph, sccPhase, visited, stack, topologicalOrder,
                 component, componentNum, locks, lockHistory,
                 diffLocksHeldNum, lockThreadMap, aborted>>

(* checkSCC: a thread that wants a mutex of the same or a higher component *)
(* than its last one sleeps, with tracerBigLock released; the others leave *)
(* beforeLock.  Both lookups go through getNode, and the second one, an    *)
(* operator[], gives a mutex without component the number 0 for good.      *)
CheckSCC(t) ==
  /\ Active(t)
  /\ at[t] = "checkSCC"
  /\ LET m == Call(t).m IN
       /\ RAOG' = GetNode(RAOG, m)
       /\ Goto(t, IF LastComp(t) <= Comp(m) THEN "usleep" ELSE "pthread_lock")
  /\ assigned' = IF diffLocksHeldNum[t] = 0
                 THEN assigned ELSE assigned \cup {lockHistory[t][1]}
  /\ tracerBigLock' = NoThread
  /\ UNCHANGED <<progVars, graph, sccPhase, visited, stack, topologicalOrder,
                 component, componentNum, locks, lockHistory,
                 diffLocksHeldNum, lockThreadMap, aborted>>

(* Mutant: tracerBigLock is not taken again after the sleep.               *)
WakeUpUnlocked(t) ==
  /\ Active(t)
  /\ at[t] = "usleep"
  /\ Goto(t, "endBefore")
  /\ UNCHANGED <<tracerBigLock, progVars, sccVars, threadVars, aborted>>

(* The sleep ends: checkSCC takes tracerBigLock again ...                  *)
WakeUp(t) ==
  /\ Active(t)
  /\ at[t] = "usleep"
  /\ TakeBigLock(t, "endBefore")
  /\ UNCHANGED <<progVars, sccVars, threadVars, aborted>>

(* ... and the wrapper of beforeLock gives it back.                        *)
EndBeforeLock(t) ==
  /\ Active(t)
  /\ at[t] = "endBefore"
  /\ tracerBigLock' = NoThread
  /\ Goto(t, "pthread_lock")
  /\ UNCHANGED <<progVars, sccVars, threadVars, aborted>>

(* The real pthread_mutex_lock returns.                                    *)
LockReturns(t) ==
  /\ Active(t)
  /\ at[t] = "pthread_lock"
  /\ Acquire(t)
  /\ Goto(t, "afterLock")
  /\ UNCHANGED <<sccVars, tracerBigLock, threadVars, aborted>>

AfterLock(t) ==
  /\ Active(t)
  /\ at[t] = "afterLock"
  /\ TakeBigLock(t, "lock")
  /\ UNCHANGED <<progVars, sccVars, threadVars, aborted>>

(* Mutant: every entry of the map counts as held.                          *)
LocksHeldAll(t) == {m \in Locks : locks[t][m] >= 0}

LocksHeld(t) == {m \in Locks : locks[t][m] > 0}

(* Mutant: recursive acquisitions are not counted.                         *)
ThreadLockFlag(t) ==
  /\ Active(t)
  /\ at[t] = "lock"
  /\ LET m == LastCall(t).m IN
       /\ RAOG' = AddEdges(RAOG, LocksHeld(t), m)
       /\ locks' = [locks EXCEPT ![t][m] = 1]
       /\ diffLocksHeldNum' =
            [diffLocksHeldNum EXCEPT ![t] = IF locks[t][m] = 0 THEN @ + 1 ELSE @]
       /\ lockHistory' = [lockHistory EXCEPT ![t] = <<m>>]
       /\ lockThreadMap' = [lockThreadMap EXCEPT ![m] = t]
  /\ tracerBigLock' = NoThread
  /\ Goto(t, "program")
  /\ UNCHANGED <<progVars, sccVars, aborted>>

(* Mutant: an edge from the last mutex only.                               *)
ThreadLockLastOnly(t) ==
  /\ Active(t)
  /\ at[t] = "lock"
  /\ LET m == LastCall(t).m IN
       /\ RAOG' = AddEdges(RAOG, {k \in LocksHeld(t) : lockHistory[t] = <<k>>}, m)
       /\ locks' = [locks EXCEPT ![t][m] = @ + 1]
       /\ diffLocksHeldNum' =
            [diffLocksHeldNum EXCEPT ![t] = IF locks[t][m] = 0 THEN @ + 1 ELSE @]
       /\ lockHistory' = [lockHistory EXCEPT ![t] = <<m>>]
       /\ lockThreadMap' = [lockThreadMap EXCEPT ![m] = t]
  /\ tracerBigLock' = NoThread
  /\ Goto(t, "program")
  /\ UNCHANGED <<progVars, sccVars, aborted>>

(* Thread::lock, and the wrapper gives tracerBigLock back.                 *)
ThreadLock(t) ==
  /\ Active(t)
  /\ at[t] = "lock"
  /\ LET m == LastCall(t).m IN
       /\ RAOG' = AddEdges(RAOG, LocksHeld(t), m)
       /\ locks' = [locks EXCEPT ![t][m] = @ + 1]
       /\ diffLocksHeldNum' =
            [diffLocksHeldNum EXCEPT ![t] = IF locks[t][m] = 0 THEN @ + 1 ELSE @]
       /\ lockHistory' = [lockHistory EXCEPT ![t] = <<m>>]
       /\ lockThreadMap' = [lockThreadMap EXCEPT ![m] = t]
  /\ tracerBigLock' = NoThread
  /\ Goto(t, "program")
  /\ UNCHANGED <<progVars, sccVars, aborted>>

(* Mutant: beforeUnlock does not take tracerBigLock.                       *)
BeforeUnlockFree(t) ==
  /\ HookedCall(t, "unlock")
  /\ Goto(t, "pthread_unlock")
  /\ UNCHANGED <<tracerBigLock, progVars, sccVars, threadVars, aborted>>

BeforeUnlock(t) ==
  /\ HookedCall(t, "unlock")
  /\ TakeBigLock(t, "pthread_unlock")
  /\ UNCHANGED <<progVars, sccVars, threadVars, aborted>>

(* The real pthread_mutex_unlock.                                          *)
UnlockReturns(t) ==
  /\ Active(t)
  /\ at[t] = "pthread_unlock"
  /\ Release(t)
  /\ Goto(t, "afterUnlock")
  /\ UNCHANGED <<sccVars, tracerBigLock, threadVars, aborted>>

(* Mutant: built without the assert.                                       *)
ThreadUnlockUnchecked(t) ==
  /\ Active(t)
  /\ at[t] = "afterUnlock"
  /\ LET m == LastCall(t).m IN
       /\ locks' = [locks EXCEPT ![t][m] = @ - 1]
       /\ diffLocksHeldNum' =
            [diffLocksHeldNum EXCEPT ![t] = IF locks[t][m] = 1 THEN @ - 1 ELSE @]
       /\ lockThreadMap' = [lockThreadMap EXCEPT ![m] = NoThread]
  /\ tracerBigLock' = NoThread
  /\ Goto(t, "program")
  /\ UNCHANGED <<progVars, sccVars, lockHistory, RAOG, aborted>>

(* Mutant: an inner unlock of a recursive mutex counts.                    *)
ThreadUnlockAlwaysCounts(t) ==
  /\ Active(t)
  /\ at[t] = "afterUnlock"
  /\ LET m == LastCall(t).m IN
       /\ locks[t][m] > 0
       /\ locks' = [locks EXCEPT ![t][m] = @ - 1]
       /\ diffLocksHeldNum' =
            [diffLocksHeldNum EXCEPT ![t] = @ - 1]
       /\ lockThreadMap' = [lockThreadMap EXCEPT ![m] = NoThread]
  /\ tracerBigLock' = NoThread
  /\ Goto(t, "program")
  /\ UNCHANGED <<progVars, sccVars, lockHistory, RAOG, aborted>>

(* Thread::unlock, and the wrapper gives tracerBigLock back.  The erasures *)
(* do not look at the count of a recursive mutex.                          *)
ThreadUnlock(t) ==
  /\ Active(t)
  /\ at[t] = "afterUnlock"
  /\ LET m == LastCall(t).m IN
       /\ locks[t][m] > 0
       /\ locks' = [locks EXCEPT ![t][m] = @ - 1]
       /\ diffLocksHeldNum' =
            [diffLocksHeldNum EXCEPT ![t] = IF locks[t][m] = 1 THEN @ - 1 ELSE @]
       /\ lockThreadMap' = [lockThreadMap EXCEPT ![m] = NoThread]
  /\ tracerBigLock' = NoThread
  /\ Goto(t, "program")
  /\ UNCHANGED <<progVars, sccVars, lockHistory, RAOG, aborted>>

(* The assert of Thread::unlock fails and ends the process.                *)
AssertFails(t) ==
  /\ Active(t)
  /\ at[t] = "afterUnlock"
  /\ ~(locks[t][LastCall(t).m] > 0)
  /\ aborted' = TRUE
  /\ UNCHANGED <<progVars, sccVars, hookVars, threadVars>>

(* An asynchronous pthread_cancel reaches the thread in any place.         *)
CancelThread(t) ==
  /\ Active(t)
  /\ Cancel(t)
  /\ UNCHANGED <<sccVars, tracerVars>>

ThreadStep(t) ==
  \/ PlainCall(t)
  \/ BeforeLock(t) \/ CheckSCC(t) \/ WakeUp(t) \/ EndBeforeLock(t)
  \/ LockReturns(t) \/ AfterLock(t) \/ ThreadLock(t)
  \/ BeforeUnlock(t) \/ UnlockReturns(t) \/ ThreadUnlock(t) \/ AssertFails(t)

Next == Initialize \/ \E t \in Threads : ThreadStep(t) \/ CancelThread(t)

Spec == Init /\ [][Next]_vars

(* main runs initialize() to its end; a thread that can go on does: the    *)
(* scheduler starves nobody, a sleep ends, and a mutex that stays free is  *)
(* granted.                                                                *)
FairSpec ==
  /\ Spec
  /\ WF_vars(Initialize)
  /\ \A t \in Threads : WF_vars(ThreadStep(t))
-----------------------------------------------------------------------------
(* What the tracer promises.                                               *)

(* Every call of the program on m goes through the hooks.                  *)
Traced(m) ==
  \A t \in Threads : \A i \in DOMAIN prog[t] :
    prog[t][i].m = m => Instrumented(prog[t][i])

HoldCount(t, m) == IF owner[m] = t THEN count[m] ELSE 0

InAfterLock(t, m)   == at[t] \in {"afterLock", "lock"} /\ LastCall(t).m = m
InAfterUnlock(t, m) == at[t] = "afterUnlock" /\ LastCall(t).m = m

(* Type invariant of the tracer's state.                                   *)
TypeOK ==
  /\ ProgTypeOK
  /\ SccTypeOK
  /\ at \in [Threads -> Places]
  /\ tracerBigLock \in Threads \cup {NoThread}
  /\ locks \in [Threads -> [Locks -> Nat]]
  /\ lockHistory \in [Threads -> {<<>>} \cup {<<m>> : m \in Locks}]
  /\ diffLocksHeldNum \in [Threads -> Int]
  /\ lockThreadMap \in [Locks -> Threads \cup {NoThread}]
  /\ RAOG \in GraphType
  /\ aborted \in BOOLEAN

(* Hook bodies exclude each other, from beforeUnlock to afterUnlock too:   *)
(* a thread holds tracerBigLock exactly in the critical places.            *)
SerializedHooks ==
  \A t \in Threads : at[t] \in Critical <=> tracerBigLock = t

(* Thread::locks is how often the thread really holds each mutex, but for  *)
(* the moment between the real call and its after-hook.  Recursive mutexes *)
(* included; as long as no thread unlocks a mutex it does not hold.        *)
RecordsExact ==
  ~misuse =>
    \A t \in Threads, m \in Locks : Traced(m) =>
      locks[t][m] + (IF InAfterLock(t, m) THEN 1 ELSE 0)
        = HoldCount(t, m) + (IF InAfterUnlock(t, m) THEN 1 ELSE 0)

(* lockThreadMap names the one thread whose record has a non-recursive     *)
(* mutex, although the new owner's afterLock races the old owner's         *)
(* afterUnlock.                                                            *)
OneRecordedHolder ==
  ~misuse =>
    \A m \in Locks \ Recursive : Traced(m) =>
      \A t \in Threads : lockThreadMap[m] = t <=> locks[t][m] > 0

(* diffLocksHeldNum counts the different mutexes on record, and when it is *)
(* not 0 checkSCC's lockHistory.back() is defined.                         *)
HeldNumExact ==
  \A t \in Threads :
    /\ diffLocksHeldNum[t] = Cardinality(LocksHeld(t))
    /\ diffLocksHeldNum[t] # 0 => lockHistory[t] # <<>>

(* Every edge Thread::lock adds to RAOG is a nested acquisition that       *)
(* really happened.                                                        *)
RaogSound ==
  ~misuse =>
    \A e \in RAOG.edges \ graph.edges : Traced(e[1]) => e \in nested

(* t has acquired e[2] while it held e[1], and Thread::lock is to come.    *)
Pending(t, e) ==
  /\ InAfterLock(t, e[2])
  /\ HoldCount(t, e[1]) > (IF e[1] = e[2] THEN 1 ELSE 0)

(* No nested acquisition is missed: its edge is in RAOG, or the thread is  *)
(* between the real call and Thread::lock.                                 *)
RaogComplete ==
  ~misuse =>
    \A e \in nested : Traced(e[1]) /\ Traced(e[2]) =>
      e \in RAOG.edges \/ \E t \in Threads : Pending(t, e)

(* The assert of Thread::unlock ends the process only after some thread    *)
(* unlocked a mutex it did not hold, or on a mutex that is also used       *)
(* without hooks.                                                          *)
AbortOnlyOnMisuse ==
  aborted => misuse \/ \E t \in Threads : /\ at[t] = "afterUnlock"
                                         /\ ~Traced(LastCall(t).m)

(* A thread leaves checkSCC without a delay only if the mutex it wants and *)
(* the last one it locked are not on a common cycle of the loaded graph.   *)
CycleStep ==
  \A t \in Threads :
    at[t] = "checkSCC" /\ at'[t] = "pthread_lock" /\ diffLocksHeldNum[t] # 0 =>
      ~ /\ lockHistory[t][1] \in graph.nodes
        /\ Call(t).m \in graph.nodes
        /\ OnCommonCycle(graph, lockHistory[t][1], Call(t).m)

(* checkSCC lets no holder through without a delay when its last mutex and *)
(* the wanted one are on a cycle of the loaded graph: these are the        *)
(* acquisitions that can deadlock.                                         *)
CycleDelayed == [][CycleStep]_vars

(* With an acyclic loaded graph checkSCC never delays a thread that        *)
(* repeats a known nesting.                                                *)
NoNeedlessDelay ==
  [][\A t \in Threads :
       at[t] = "checkSCC" /\ at'[t] = "usleep" =>
         ~ /\ Acyclic(graph)
           /\ <<lockHistory[t][1], Call(t).m>> \in graph.edges]_vars

(* The README's promise, "preserving program semantics": what an           *)
(* instrumented program does to its mutexes is what the program alone may  *)
(* do, and a thread that could go on alone goes on.                        *)
SemanticsPreserved == ProgFairSpec

(* A nested acquisition ends up in RAOG, even if the program deadlocks     *)
(* right after it: that is what a later run needs to provoke it.           *)
NestingLearned ==
  \A a, b \in Locks : <<a, b>> \in nested ~> <<a, b>> \in RAOG.edges

(* What the message of the assert says: "thread unlocked a mutex which was *)
(* not locked!".                                                           *)
AssertMessageTrue == aborted => misuse
=============================================================================
