-------------------------- MODULE LockTracerProofs ---------------------------
(***************************************************************************)
(* Proofs about the lock tracer for any threads, mutexes, programs and     *)
(* loaded graphs.                                                          *)
(***************************************************************************)
EXTENDS LockTracer, FindSCCProofs

(* A free mutex is held no time, and a default one never twice.            *)
MutexInv ==
  \A m \in Locks : /\ owner[m] = NoThread <=> count[m] = 0
                   /\ m \notin Recursive => count[m] <= 1

(* A thread inside a hooked call is at the call its place belongs to.      *)
PlacesInv ==
  \A t \in Threads :
    /\ at[t] \in {"checkSCC", "usleep", "endBefore", "pthread_lock"} =>
         /\ ip[t] \in 1..Len(prog[t])
         /\ Call(t).call = "lock"
    /\ at[t] = "pthread_unlock" =>
         /\ ip[t] \in 1..Len(prog[t])
         /\ Call(t).call = "unlock"
    /\ at[t] \in {"afterLock", "lock", "afterUnlock"} =>
         ip[t] - 1 \in 1..Len(prog[t])

(* lockHistory.back() is defined whenever checkSCC may evaluate it.        *)
HistoryInv ==
  \A t \in Threads :
    diffLocksHeldNum[t] # 0 \/ LocksHeld(t) # {} => lockHistory[t] # <<>>

(* The part of the inductive invariant that the types rest on.             *)
BaseInv ==
  /\ TypeOK
  /\ SccInv
  /\ MutexInv
  /\ PlacesInv
  /\ HistoryInv
  /\ SerializedHooks
-----------------------------------------------------------------------------
(* Every entry of a thread's script is a call.                             *)
LEMMA CallType ==
  ASSUME ProgTypeOK, NEW t \in Threads, NEW i \in 1..Len(prog[t])
  PROVE  /\ prog[t][i].m \in Locks
         /\ prog[t][i].call \in {"lock", "trylock", "unlock"}
         /\ prog[t][i].onFail \in Nat \ {0}
<1>1. prog[t] \in Seq(Calls)
  BY DEF ProgTypeOK
<1>2. prog[t][i] \in Calls
  BY <1>1, ElementOfSeq
<1> QED
  BY <1>2 DEF Calls

(* What the calls of the C library do keeps the types and the mutexes in   *)
(* order.                                                                  *)
LEMMA ProgStepInv ==
  ASSUME ProgTypeOK, MutexInv, NEW t \in Threads, ProgStep(t)
  PROVE  ProgTypeOK' /\ MutexInv'
<1> DEFINE m == Call(t).m
<1>1. /\ m \in Locks /\ Call(t).onFail \in Nat \ {0}
      /\ ip[t] \in Nat \ {0} /\ t # NoThread
  BY CallType, ProgramAssumption
     DEF ProgStep, Acquire, TryFail, Release, Running, Call, ProgTypeOK
<1>2. /\ owner \in [Locks -> Threads \cup {NoThread}] /\ count \in [Locks -> Nat]
      /\ ip \in [Threads -> Nat \ {0}] /\ nested \subseteq Locks \X Locks
  BY DEF ProgTypeOK
<1> HIDE DEF m
<1>3. CASE Acquire(t)
  <2>1. /\ owner' = [owner EXCEPT ![m] = t]
        /\ count' = [count EXCEPT ![m] = @ + 1]
        /\ nested' = nested \cup (HeldBy(t) \X {m})
        /\ ip' = [ip EXCEPT ![t] = @ + 1]
        /\ UNCHANGED <<prog, alive, misuse>>
        /\ owner[m] = NoThread \/ m \in Recursive
    BY <1>3 DEF Acquire, Available, m
  <2>2. HeldBy(t) \subseteq Locks
    BY DEF HeldBy
  <2>3. ProgTypeOK'
    BY <1>1, <1>2, <2>1, <2>2 DEF ProgTypeOK
  <2>4. MutexInv'
    BY <1>1, <1>2, <2>1 DEF MutexInv
  <2> QED
    BY <2>3, <2>4
<1>4. CASE TryFail(t)
  <2>1. /\ ip' = [ip EXCEPT ![t] = Call(t).onFail]
        /\ UNCHANGED <<prog, owner, count, alive, nested, misuse>>
    BY <1>4 DEF TryFail
  <2> QED
    BY <1>1, <1>2, <2>1 DEF ProgTypeOK, MutexInv
<1>5. CASE Release(t)
  <2>1. /\ ip' = [ip EXCEPT ![t] = @ + 1]
        /\ misuse' = (misuse \/ owner[m] # t)
        /\ UNCHANGED <<prog, alive, nested>>
    BY <1>5 DEF Release, m
  <2>2. misuse' \in BOOLEAN /\ ip' \in [Threads -> Nat \ {0}]
    BY <1>1, <1>2, <2>1 DEF ProgTypeOK
  <2>3. CASE m \in Recursive /\ owner[m] # t
    <3>1. UNCHANGED <<owner, count>>
      BY <1>5, <2>3 DEF Release, m
    <3> QED
      BY <2>1, <2>2, <3>1 DEF ProgTypeOK, MutexInv
  <2>4. CASE m \in Recursive /\ owner[m] = t
    <3>1. /\ count' = [count EXCEPT ![m] = count[m] - 1]
          /\ owner' = [owner EXCEPT ![m] = IF count[m] - 1 = 0 THEN NoThread ELSE @]
      BY <1>5, <2>4 DEF Release, m
    <3>2. count[m] \in Nat \ {0}
      BY <1>1, <1>2, <2>4 DEF MutexInv
    <3>3. count' \in [Locks -> Nat] /\ owner' \in [Locks -> Threads \cup {NoThread}]
      BY <1>1, <1>2, <3>1, <3>2
    <3> QED
      BY <1>1, <1>2, <2>1, <2>2, <2>4, <3>1, <3>2, <3>3 DEF ProgTypeOK, MutexInv
  <2>5. CASE m \notin Recursive
    <3>1. /\ count' = [count EXCEPT ![m] = 0]
          /\ owner' = [owner EXCEPT ![m] = NoThread]
      BY <1>5, <2>5 DEF Release, m
    <3> QED
      BY <1>1, <1>2, <2>1, <2>2, <3>1 DEF ProgTypeOK, MutexInv
  <2> QED
    BY <2>3, <2>4, <2>5
<1> QED
  BY <1>3, <1>4, <1>5 DEF ProgStep

(* A call of t leaves the other threads' positions alone.                  *)
LEMMA ProgStepFrame ==
  ASSUME ProgTypeOK, NEW t \in Threads, ProgStep(t)
  PROVE  /\ prog' = prog
         /\ \A u \in Threads \ {t} : ip'[u] = ip[u]
<1>1. ip \in [Threads -> Nat \ {0}]
  BY DEF ProgTypeOK
<1> QED
  BY <1>1 DEF ProgStep, Acquire, TryFail, Release
-----------------------------------------------------------------------------
(* The base invariant holds initially ...                                  *)
LEMMA BaseInit == Init => BaseInv
<1> SUFFICES ASSUME Init PROVE BaseInv
  OBVIOUS
<1>1. SccInv
  BY SccInitInv DEF Init
<1>2. /\ prog \in [Threads -> Seq(Calls)]
      /\ ip = [t \in Threads |-> 1]
      /\ owner = [m \in Locks |-> NoThread]
      /\ count = [m \in Locks |-> 0]
      /\ alive = Threads /\ nested = {} /\ misuse = FALSE
  BY ProgramAssumption DEF Init, ProgInit
<1>3. ProgTypeOK
  <2>1. ip \in [Threads -> Nat \ {0}] /\ count \in [Locks -> Nat]
    BY <1>2
  <2>2. owner \in [Locks -> Threads \cup {NoThread}]
    BY <1>2
  <2> QED
    BY <1>2, <2>1, <2>2, Zenon DEF ProgTypeOK
<1>4. RAOG \in GraphType
  BY GraphAssumption DEF Init, SccInit
<1>5. TypeOK
  <2>1. /\ at \in [Threads -> Places]
        /\ locks \in [Threads -> [Locks -> Nat]]
        /\ diffLocksHeldNum \in [Threads -> Int]
    BY DEF Init, Places
  <2>2. /\ tracerBigLock \in Threads \cup {NoThread}
        /\ lockHistory \in [Threads -> {<<>>} \cup {<<m>> : m \in Locks}]
        /\ lockThreadMap \in [Locks -> Threads \cup {NoThread}]
        /\ aborted \in BOOLEAN
    BY Zenon DEF Init
  <2> QED
    BY <1>1, <1>3, <1>4, <2>1, <2>2 DEF TypeOK, SccInv
<1>6. MutexInv
  BY <1>2 DEF MutexInv
<1>7. PlacesInv
  BY DEF Init, PlacesInv
<1>8. HistoryInv
  BY DEF Init, HistoryInv, LocksHeld
<1>9. SerializedHooks
  BY ProgramAssumption DEF Init, SerializedHooks, Critical
<1> QED
  BY <1>1, <1>5, <1>6, <1>7, <1>8, <1>9 DEF BaseInv

(* ... and is kept by the steps that only move a thread through the hooks, *)
LEMMA BaseHookStep ==
  ASSUME BaseInv, NEW t \in Threads,
         \/ BeforeLock(t) \/ WakeUp(t) \/ EndBeforeLock(t)
         \/ AfterLock(t) \/ BeforeUnlock(t)
  PROVE  BaseInv'
<1> USE DEF BaseInv
<1>1. UNCHANGED <<progVars, sccVars, threadVars, aborted>>
  BY DEF BeforeLock, WakeUp, EndBeforeLock, AfterLock, BeforeUnlock
<1>2. SccInv' /\ ProgTypeOK' /\ MutexInv' /\ HistoryInv'
  BY <1>1, SccNextInv DEF progVars, threadVars, TypeOK, ProgTypeOK, MutexInv,
                          HistoryInv, LocksHeld
<1>3. at \in [Threads -> Places] /\ tracerBigLock \in Threads \cup {NoThread}
  BY DEF TypeOK
<1>4. /\ at' \in [Threads -> Places] /\ tracerBigLock' \in Threads \cup {NoThread}
      /\ \A u \in Threads \ {t} : at'[u] = at[u]
  BY <1>3 DEF BeforeLock, WakeUp, EndBeforeLock, AfterLock, BeforeUnlock,
              TakeBigLock, Goto, Places
<1>5. TypeOK'
  BY <1>1, <1>2, <1>4 DEF TypeOK, threadVars, SccInv
<1>6. SerializedHooks'
  <2>1. CASE EndBeforeLock(t)
    BY <1>3, <2>1, ProgramAssumption DEF EndBeforeLock, Goto, SerializedHooks, Critical
  <2>2. CASE ~EndBeforeLock(t)
    <3>1. /\ tracerBigLock = NoThread /\ tracerBigLock' = t
          /\ at'[t] \in Critical
      BY <1>3, <2>2 DEF BeforeLock, WakeUp, AfterLock, BeforeUnlock, TakeBigLock,
                        Goto, Critical
    <3> QED
      BY <1>4, <3>1, ProgramAssumption DEF SerializedHooks
  <2> QED
    BY <2>1, <2>2
<1>7. PlacesInv'
  <2>1. /\ prog' = prog /\ ip' = ip
        /\ \A u \in Threads : Call(u)' = Call(u)
    BY <1>1 DEF progVars, Call
  <2>2. \/ at'[t] = "checkSCC" /\ Running(t) /\ Call(t).call = "lock"
        \/ at'[t] = "pthread_unlock" /\ Running(t) /\ Call(t).call = "unlock"
        \/ at[t] = "usleep" /\ at'[t] = "endBefore"
        \/ at[t] = "endBefore" /\ at'[t] = "pthread_lock"
        \/ at[t] = "afterLock" /\ at'[t] = "lock"
    BY <1>3 DEF BeforeLock, WakeUp, EndBeforeLock, AfterLock, BeforeUnlock,
                HookedCall, TakeBigLock, Goto
  <2> QED
    BY <1>4, <2>1, <2>2 DEF PlacesInv, Running
<1> QED
  BY <1>2, <1>5, <1>6, <1>7

(* by the steps that let the real calls happen,                            *)
LEMMA BaseCallStep ==
  ASSUME BaseInv, NEW t \in Threads,
         PlainCall(t) \/ LockReturns(t) \/ UnlockReturns(t)
  PROVE  BaseInv'
<1> USE DEF BaseInv
<1>1. /\ ProgStep(t) /\ UNCHANGED <<sccVars, tracerBigLock, threadVars, aborted>>
  BY DEF PlainCall, LockReturns, UnlockReturns, ProgStep, tracerVars, hookVars
<1>2. ProgTypeOK' /\ MutexInv' /\ SccInv' /\ HistoryInv'
  BY <1>1, ProgStepInv, SccNextInv DEF TypeOK, threadVars, HistoryInv, LocksHeld
<1>3. at \in [Threads -> Places] /\ ip \in [Threads -> Nat \ {0}]
  BY DEF TypeOK, ProgTypeOK
<1>4. /\ at' \in [Threads -> Places]
      /\ \A u \in Threads \ {t} : at'[u] = at[u]
      /\ \/ at'[t] = at[t] /\ at[t] = "program"
         \/ at[t] = "pthread_lock" /\ at'[t] = "afterLock" /\ Acquire(t)
         \/ at[t] = "pthread_unlock" /\ at'[t] = "afterUnlock" /\ Release(t)
  BY <1>3 DEF PlainCall, LockReturns, UnlockReturns, Goto, Places, tracerVars, hookVars
<1>5. TypeOK'
  BY <1>1, <1>2, <1>4 DEF TypeOK, threadVars, SccInv
<1>6. SerializedHooks'
  BY <1>1, <1>4 DEF SerializedHooks, Critical
<1>7. PlacesInv'
  <2>1. prog' = prog /\ \A u \in Threads \ {t} : ip'[u] = ip[u]
    BY <1>1, ProgStepFrame DEF TypeOK
  <2>2. at'[t] \in {"afterLock", "afterUnlock"} =>
          ip'[t] = ip[t] + 1 /\ ip[t] \in 1..Len(prog[t])
    BY <1>3, <1>4 DEF Acquire, Release, Running
  <2>3. at'[t] \in {"afterLock", "afterUnlock"} => ip'[t] - 1 \in 1..Len(prog'[t])
    BY <1>3, <2>1, <2>2
  <2>4. at'[t] \in {"program", "afterLock", "afterUnlock"}
    BY <1>4
  <2>5. \A u \in Threads \ {t} : Call(u)' = Call(u)
    BY <2>1 DEF Call
  <2> QED
    BY <1>4, <2>1, <2>3, <2>4, <2>5 DEF PlacesInv
<1> QED
  BY <1>2, <1>5, <1>6, <1>7

(* lockHistory holds no entry or one mutex.                                *)
LEMMA HistoryType ==
  ASSUME TypeOK, NEW t \in Threads, lockHistory[t] # <<>>
  PROVE  lockHistory[t][1] \in Locks
<1>1. lockHistory[t] \in {<<>>} \cup {<<m>> : m \in Locks}
  BY DEF TypeOK
<1>2. PICK m \in Locks : lockHistory[t] = <<m>>
  BY <1>1
<1> QED
  BY <1>2

(* by checkSCC, whose second lookup may add a key to the component map,    *)
LEMMA BaseCheckSCC ==
  ASSUME BaseInv, NEW t \in Threads, CheckSCC(t)
  PROVE  BaseInv'
<1> USE DEF BaseInv
<1>1. /\ UNCHANGED <<progVars, graph, sccPhase, visited, stack, topologicalOrder,
                     component, componentNum, locks, lockHistory,
                     diffLocksHeldNum, lockThreadMap, aborted>>
      /\ sccPhase = "done" /\ at[t] = "checkSCC" /\ tracerBigLock' = NoThread
      /\ assigned \subseteq assigned'
      /\ RAOG' = GetNode(RAOG, Call(t).m)
  BY DEF CheckSCC, Active
<1>2. at \in [Threads -> Places] /\ SccTypeOK /\ ProgTypeOK /\ RAOG \in GraphType
  BY DEF TypeOK
<1>3. /\ at' \in [Threads -> Places]
      /\ \A u \in Threads \ {t} : at'[u] = at[u]
      /\ at'[t] \in {"usleep", "pthread_lock"}
  <2>1. PICK p \in {"usleep", "pthread_lock"} : at' = [at EXCEPT ![t] = p]
    BY Zenon DEF CheckSCC, Goto
  <2> QED
    BY <1>2, <2>1 DEF Places
<1>4. assigned' \subseteq Locks
  <2>1. diffLocksHeldNum[t] # 0 => lockHistory[t][1] \in Locks
    BY HistoryType DEF HistoryInv
  <2> QED
    BY <1>2, <2>1 DEF CheckSCC, SccTypeOK
<1>5. SccInv'
  <2>1. SccTypeOK'
    BY <1>1, <1>2, <1>4 DEF SccTypeOK
  <2>2. EdgesDescend'
    BY <1>1 DEF SccInv, EdgesDescend
  <2> QED
    BY <1>1, <2>1, <2>2 DEF SccInv, SortKeepsNodes, AssignKeepsNodes, AssignNumbers,
                            AssignDescends
<1>6. Call(t).m \in Locks
  BY <1>1, <1>2, CallType DEF PlacesInv, Call
<1>7. RAOG' \in GraphType
  BY <1>1, <1>2, <1>6 DEF GraphType, GetNode
<1>8. ProgTypeOK' /\ MutexInv' /\ HistoryInv'
  BY <1>1, <1>2 DEF progVars, ProgTypeOK, MutexInv, HistoryInv, LocksHeld
<1>9. TypeOK'
  BY <1>1, <1>3, <1>5, <1>7, <1>8 DEF TypeOK, SccInv
<1>10. SerializedHooks'
  BY <1>1, <1>3, ProgramAssumption DEF SerializedHooks, Critical
<1>11. PlacesInv'
  <2>1. prog' = prog /\ ip' = ip /\ \A u \in Threads : Call(u)' = Call(u)
    BY <1>1 DEF progVars, Call
  <2> QED
    BY <1>1, <1>3, <2>1 DEF PlacesInv
<1> QED
  BY <1>5, <1>8, <1>9, <1>10, <1>11

(* by the two updates of a thread's records,                               *)
LEMMA BaseRecordStep ==
  ASSUME BaseInv, NEW t \in Threads, ThreadLock(t) \/ ThreadUnlock(t)
  PROVE  BaseInv'
<1> USE DEF BaseInv
<1> DEFINE m == LastCall(t).m
<1>1. /\ UNCHANGED <<progVars, sccVars, aborted>>
      /\ at[t] \in {"lock", "afterUnlock"}
      /\ tracerBigLock' = NoThread
      /\ at' = [at EXCEPT ![t] = "program"]
  BY DEF ThreadLock, ThreadUnlock, Goto
<1>2. /\ at \in [Threads -> Places] /\ ProgTypeOK /\ RAOG \in GraphType
      /\ locks \in [Threads -> [Locks -> Nat]]
      /\ diffLocksHeldNum \in [Threads -> Int]
      /\ lockHistory \in [Threads -> {<<>>} \cup {<<k>> : k \in Locks}]
      /\ lockThreadMap \in [Locks -> Threads \cup {NoThread}]
  BY DEF TypeOK
<1>3. m \in Locks
  BY <1>1, <1>2, CallType DEF PlacesInv, LastCall
<1> HIDE DEF m
<1>4. /\ locks' \in [Threads -> [Locks -> Nat]]
      /\ diffLocksHeldNum' \in [Threads -> Int]
  <2>1. CASE ThreadLock(t)
    <3>1. /\ locks' = [locks EXCEPT ![t][m] = @ + 1]
          /\ diffLocksHeldNum' =
               [diffLocksHeldNum EXCEPT ![t] = IF locks[t][m] = 0 THEN @ + 1 ELSE @]
      BY <2>1 DEF ThreadLock, m
    <3> QED
      BY <1>2, <1>3, <3>1
  <2>2. CASE ThreadUnlock(t)
    <3>1. /\ locks' = [locks EXCEPT ![t][m] = @ - 1] /\ locks[t][m] > 0
          /\ diffLocksHeldNum' =
               [diffLocksHeldNum EXCEPT ![t] = IF locks[t][m] = 1 THEN @ - 1 ELSE @]
      BY <2>2 DEF ThreadUnlock, m
    <3>2. locks[t][m] - 1 \in Nat
      BY <1>2, <1>3, <3>1
    <3> QED
      BY <1>2, <1>3, <3>1, <3>2
  <2> QED
    BY <2>1, <2>2
<1>5. /\ lockHistory' \in [Threads -> {<<>>} \cup {<<k>> : k \in Locks}]
      /\ \A u \in Threads \ {t} : lockHistory'[u] = lockHistory[u]
      /\ lockHistory'[t] # <<>>
  <2>1. CASE ThreadLock(t)
    <3>1. lockHistory' = [lockHistory EXCEPT ![t] = <<m>>]
      BY <2>1 DEF ThreadLock, m
    <3>2. <<m>> # <<>> /\ <<m>> \in {<<>>} \cup {<<k>> : k \in Locks}
      BY <1>3
    <3> QED
      BY <1>2, <3>1, <3>2
  <2>2. CASE ThreadUnlock(t)
    <3>1. lockHistory' = lockHistory /\ locks[t][m] > 0
      BY <2>2 DEF ThreadUnlock, m
    <3>2. LocksHeld(t) # {}
      BY <1>3, <3>1 DEF LocksHeld
    <3> QED
      BY <1>2, <3>1, <3>2 DEF HistoryInv
  <2> QED
    BY <2>1, <2>2
<1>6. /\ lockThreadMap' \in [Locks -> Threads \cup {NoThread}]
  BY <1>2, <1>3 DEF ThreadLock, ThreadUnlock, m
<1>7. RAOG' \in GraphType
  <2>1. LocksHeld(t) \subseteq Locks
    BY DEF LocksHeld
  <2>2. AddEdges(RAOG, LocksHeld(t), m) \in GraphType
    BY <1>2, <1>3, <2>1 DEF GraphType, AddEdges
  <2> QED
    BY <1>2, <2>2 DEF ThreadLock, ThreadUnlock, m
<1>8. ProgTypeOK' /\ MutexInv' /\ SccInv'
  BY <1>1, <1>2, SccNextInv DEF progVars, ProgTypeOK, MutexInv
<1>9. HistoryInv'
  <2> SUFFICES ASSUME NEW u \in Threads \ {t},
                      diffLocksHeldNum'[u] # 0 \/ LocksHeld(u)' # {}
               PROVE  lockHistory'[u] # <<>>
    BY <1>5 DEF HistoryInv
  <2>1. diffLocksHeldNum'[u] = diffLocksHeldNum[u] /\ locks'[u] = locks[u]
    BY <1>2 DEF ThreadLock, ThreadUnlock
  <2> QED
    BY <1>5, <2>1 DEF HistoryInv, LocksHeld
<1>10. at' \in [Threads -> Places] /\ at'[t] = "program"
      /\ \A u \in Threads \ {t} : at'[u] = at[u]
  BY <1>1, <1>2 DEF Places
<1>11. TypeOK'
  BY <1>1, <1>4, <1>5, <1>6, <1>7, <1>8, <1>10 DEF TypeOK, SccInv
<1>12. SerializedHooks'
  BY <1>1, <1>10, ProgramAssumption DEF SerializedHooks, Critical
<1>13. PlacesInv'
  <2>1. prog' = prog /\ ip' = ip /\ \A u \in Threads : Call(u)' = Call(u)
    BY <1>1 DEF progVars, Call
  <2> QED
    BY <1>1, <1>10, <2>1 DEF PlacesInv
<1> QED
  BY <1>8, <1>9, <1>11, <1>12, <1>13

(* by a failing assert, a cancellation, and by steps that leave the        *)
(* threads alone: those of initialize() and stuttering.                    *)
LEMMA BaseOtherStep ==
  ASSUME BaseInv,
         \/ Initialize
         \/ \E t \in Threads : AssertFails(t) \/ CancelThread(t)
         \/ UNCHANGED vars
  PROVE  BaseInv'
<1> USE DEF BaseInv
<1>1. /\ UNCHANGED <<prog, ip, owner, count, nested, misuse, hookVars, threadVars>>
      /\ [SccNext]_sccVars
      /\ alive' \subseteq alive
      /\ aborted' = aborted \/ aborted' = TRUE
  <2>1. CASE Initialize
    BY <2>1 DEF Initialize, progVars, tracerVars
  <2>2. CASE \E t \in Threads : AssertFails(t)
    BY <2>2 DEF AssertFails, progVars
  <2>3. CASE \E t \in Threads : CancelThread(t)
    BY <2>3 DEF CancelThread, Cancel, tracerVars
  <2>4. CASE UNCHANGED vars
    BY <2>4 DEF vars, progVars, tracerVars
  <2> QED
    BY <2>1, <2>2, <2>3, <2>4
<1>2. SccInv'
  BY <1>1, SccNextInv
<1>3. ProgTypeOK'
  BY <1>1 DEF TypeOK, ProgTypeOK
<1>4. MutexInv' /\ PlacesInv' /\ HistoryInv' /\ SerializedHooks'
  BY <1>1 DEF MutexInv, PlacesInv, HistoryInv, SerializedHooks, hookVars, threadVars,
              Call, LocksHeld
<1>5. aborted' \in BOOLEAN
  BY <1>1 DEF TypeOK
<1>6. TypeOK'
  BY <1>1, <1>2, <1>3, <1>5 DEF TypeOK, SccInv, hookVars, threadVars
<1> QED
  BY <1>2, <1>4, <1>6

(* Every step keeps the base invariant.                                    *)
LEMMA BaseNext == BaseInv /\ [Next]_vars => BaseInv'
BY BaseHookStep, BaseCallStep, BaseCheckSCC, BaseRecordStep, BaseOtherStep
   DEF Next, ThreadStep

(* The base invariant holds in every reachable state.                      *)
THEOREM BaseInvariance == Spec => []BaseInv
<1>1. Init => BaseInv
  BY BaseInit
<1>2. BaseInv /\ [Next]_vars => BaseInv'
  BY BaseNext
<1> QED
  BY <1>1, <1>2, PTL DEF Spec

(* The tracer's state keeps its types.                                     *)
THEOREM TypeCorrect == Spec => []TypeOK
<1>1. BaseInv => TypeOK
  BY DEF BaseInv
<1> QED
  BY <1>1, BaseInvariance, PTL

(* tracerBigLock is held exactly in the critical places, by one thread.    *)
THEOREM SerializedHooksCorrect == Spec => []SerializedHooks
<1>1. BaseInv => SerializedHooks
  BY DEF BaseInv
<1> QED
  BY <1>1, BaseInvariance, PTL
-----------------------------------------------------------------------------
(* Only checkSCC takes a thread out of that place.                         *)
LEMMA LeavesCheckSCC ==
  ASSUME TypeOK, [Next]_vars, NEW u \in Threads, at[u] = "checkSCC",
         at'[u] # at[u]
  PROVE  CheckSCC(u)
<1>0. at \in [Threads -> Places]
  BY DEF TypeOK
<1>1. ~(UNCHANGED vars) /\ ~Initialize
  BY DEF vars, Initialize, tracerVars, hookVars
<1>2. PICK t \in Threads : ThreadStep(t) \/ CancelThread(t)
  BY <1>1 DEF Next
<1>3. ~PlainCall(t) /\ ~AssertFails(t) /\ ~CancelThread(t)
  BY DEF PlainCall, AssertFails, CancelThread, tracerVars, hookVars
<1>4. u = t
  BY <1>0, <1>2, <1>3
     DEF ThreadStep, BeforeLock, CheckSCC, WakeUp, EndBeforeLock, LockReturns,
         AfterLock, ThreadLock, BeforeUnlock, UnlockReturns, ThreadUnlock,
         TakeBigLock, Goto
<1> QED
  BY <1>2, <1>3, <1>4
     DEF ThreadStep, BeforeLock, WakeUp, EndBeforeLock, LockReturns,
         AfterLock, ThreadLock, BeforeUnlock, UnlockReturns, ThreadUnlock,
         HookedCall

(* checkSCC delays every acquisition that closes a step of a cycle of the  *)
(* loaded graph, for any graph: the numbers of findSCC, which later        *)
(* lookups may extend but never change, are equal on a cycle.              *)
THEOREM CycleDelayedCorrect == Spec => CycleDelayed
<1>1. BaseInv /\ [Next]_vars => [CycleStep]_vars
  <2> SUFFICES ASSUME BaseInv, [Next]_vars, NEW t \in Threads,
                      at[t] = "checkSCC", at'[t] = "pthread_lock",
                      diffLocksHeldNum[t] # 0,
                      lockHistory[t][1] \in graph.nodes,
                      Call(t).m \in graph.nodes,
                      OnCommonCycle(graph, lockHistory[t][1], Call(t).m)
               PROVE  FALSE
    BY DEF CycleStep
  <2> DEFINE last == lockHistory[t][1]
             m == Call(t).m
  <2>1. CheckSCC(t)
    BY LeavesCheckSCC DEF BaseInv
  <2>2. sccPhase = "done" /\ at \in [Threads -> Places]
    BY <2>1 DEF CheckSCC, Active, BaseInv, TypeOK
  <2>3. ~(LastComp(t) <= Comp(m))
    BY <2>1, <2>2 DEF CheckSCC, Goto
  <2>4. component[last] = component[m]
    BY <2>2, CyclesFromEdges DEF BaseInv, SccInv, CyclesShareComponent
  <2>5. m \in assigned /\ component[m] \in Nat
    BY <2>2, GraphEdges DEF BaseInv, SccInv, EdgesDescend, SccTypeOK
  <2>6. Comp(m) = component[m] /\ LastComp(t) = component[last]
    BY <2>5 DEF Comp, LastComp
  <2> QED
    BY <2>3, <2>4, <2>5, <2>6
<1> QED
  BY <1>1, BaseInvariance, PTL DEF Spec, CycleDelayed
-----------------------------------------------------------------------------
(* The hooks never touch what belongs to the program: every step of the    *)
(* instrumented program is a step of the program alone, or none.           *)
THEOREM ImplementsProgram == Spec => ProgSpec
<1>1. Init => ProgInit
  BY DEF Init
<1>2. [Next]_vars => [ProgNext]_progVars
  <2> SUFFICES ASSUME [Next]_vars PROVE [ProgNext]_progVars
    OBVIOUS
  <2>1. CASE Initialize
    BY <2>1 DEF Initialize
  <2>2. ASSUME NEW t \in Threads, ThreadStep(t)
        PROVE  [ProgNext]_progVars
    <3>1. CASE PlainCall(t)
      BY <3>1 DEF PlainCall, ProgNext
    <3>2. CASE LockReturns(t)
      BY <3>2 DEF LockReturns, ProgNext, ProgStep
    <3>3. CASE UnlockReturns(t)
      BY <3>3 DEF UnlockReturns, ProgNext, ProgStep
    <3>4. CASE ~(PlainCall(t) \/ LockReturns(t) \/ UnlockReturns(t))
      BY <2>2, <3>4
         DEF ThreadStep, BeforeLock, CheckSCC, WakeUp, EndBeforeLock, AfterLock,
             ThreadLock, BeforeUnlock, ThreadUnlock, AssertFails
    <3> QED
      BY <3>1, <3>2, <3>3, <3>4
  <2>3. ASSUME NEW t \in Threads, CancelThread(t)
        PROVE  [ProgNext]_progVars
    BY <2>3 DEF CancelThread, ProgNext
  <2>4. CASE UNCHANGED vars
    BY <2>4 DEF vars
  <2> QED
    BY <2>1, <2>2, <2>3, <2>4 DEF Next
<1> QED
  BY <1>1, <1>2, PTL DEF Spec, ProgSpec
-----------------------------------------------------------------------------
(* diffLocksHeldNum is the number of mutexes on record, which are finitely *)
(* many.                                                                   *)
CountInv ==
  \A t \in Threads : /\ IsFiniteSet(LocksHeld(t))
                     /\ diffLocksHeldNum[t] = Cardinality(LocksHeld(t))

(* A step that leaves a thread's records alone leaves its count exact.     *)
LEMMA CountFrame ==
  ASSUME CountInv, NEW u \in Threads,
         locks'[u] = locks[u], diffLocksHeldNum'[u] = diffLocksHeldNum[u]
  PROVE  /\ IsFiniteSet(LocksHeld(u)')
         /\ diffLocksHeldNum'[u] = Cardinality(LocksHeld(u)')
<1>1. LocksHeld(u)' = LocksHeld(u)
  BY DEF LocksHeld
<1>2. IsFiniteSet(LocksHeld(u)) /\ diffLocksHeldNum[u] = Cardinality(LocksHeld(u))
  BY DEF CountInv
<1> QED
  BY <1>1, <1>2

(* Thread::lock counts a mutex when its first acquisition is recorded, and *)
(* Thread::unlock when its last one is taken off.                          *)
LEMMA CountRecordStep ==
  ASSUME BaseInv, CountInv, NEW t \in Threads, ThreadLock(t) \/ ThreadUnlock(t)
  PROVE  CountInv'
<1>0. /\ ProgTypeOK /\ locks \in [Threads -> [Locks -> Nat]]
      /\ diffLocksHeldNum \in [Threads -> Int]
  BY DEF BaseInv, TypeOK
<1>1. PICK m \in Locks : m = LastCall(t).m
  BY <1>0, CallType DEF BaseInv, PlacesInv, ThreadLock, ThreadUnlock, LastCall
<1>2. /\ IsFiniteSet(LocksHeld(t)) /\ diffLocksHeldNum[t] = Cardinality(LocksHeld(t))
      /\ m \in LocksHeld(t) <=> locks[t][m] > 0
  BY <1>0 DEF CountInv, LocksHeld
<1>3. /\ IsFiniteSet(LocksHeld(t)')
      /\ diffLocksHeldNum'[t] = Cardinality(LocksHeld(t)')
  <2>1. CASE ThreadLock(t)
    <3>1. /\ locks' = [locks EXCEPT ![t][m] = @ + 1]
          /\ diffLocksHeldNum' =
               [diffLocksHeldNum EXCEPT ![t] = IF locks[t][m] = 0 THEN @ + 1 ELSE @]
      BY <1>1, <2>1 DEF ThreadLock
    <3>2. LocksHeld(t)' = LocksHeld(t) \cup {m}
      BY <1>0, <3>1 DEF LocksHeld
    <3>3. /\ IsFiniteSet(LocksHeld(t) \cup {m})
          /\ Cardinality(LocksHeld(t) \cup {m}) =
               IF m \in LocksHeld(t) THEN Cardinality(LocksHeld(t))
               ELSE Cardinality(LocksHeld(t)) + 1
      BY <1>2, FS_AddElement
    <3>4. diffLocksHeldNum'[t] = IF m \in LocksHeld(t) THEN diffLocksHeldNum[t]
                                 ELSE diffLocksHeldNum[t] + 1
      BY <1>0, <1>2, <3>1
    <3> QED
      BY <1>2, <3>2, <3>3, <3>4
  <2>2. CASE ThreadUnlock(t)
    <3>1. /\ locks' = [locks EXCEPT ![t][m] = @ - 1] /\ locks[t][m] > 0
          /\ diffLocksHeldNum' =
               [diffLocksHeldNum EXCEPT ![t] = IF locks[t][m] = 1 THEN @ - 1 ELSE @]
      BY <1>1, <2>2 DEF ThreadUnlock
    <3>2. CASE locks[t][m] = 1
      <4>1. LocksHeld(t)' = LocksHeld(t) \ {m}
        BY <1>0, <3>1, <3>2 DEF LocksHeld
      <4>2. /\ IsFiniteSet(LocksHeld(t) \ {m})
            /\ Cardinality(LocksHeld(t) \ {m}) = Cardinality(LocksHeld(t)) - 1
        BY <1>2, <3>1, FS_RemoveElement
      <4>3. diffLocksHeldNum'[t] = diffLocksHeldNum[t] - 1
        BY <1>0, <3>1, <3>2
      <4> QED
        BY <1>2, <4>1, <4>2, <4>3
    <3>3. CASE locks[t][m] # 1
      <4>1. LocksHeld(t)' = LocksHeld(t)
        BY <1>0, <3>1, <3>3 DEF LocksHeld
      <4>2. diffLocksHeldNum'[t] = diffLocksHeldNum[t]
        BY <1>0, <3>1, <3>3
      <4> QED
        BY <1>2, <4>1, <4>2
    <3> QED
      BY <3>2, <3>3
  <2> QED
    BY <2>1, <2>2
<1>4. \A u \in Threads \ {t} : /\ IsFiniteSet(LocksHeld(u)')
                               /\ diffLocksHeldNum'[u] = Cardinality(LocksHeld(u)')
  <2>1. \A u \in Threads \ {t} : /\ locks'[u] = locks[u]
                                 /\ diffLocksHeldNum'[u] = diffLocksHeldNum[u]
    BY <1>0 DEF ThreadLock, ThreadUnlock
  <2> QED
    BY <2>1, CountFrame
<1> QED
  BY <1>3, <1>4 DEF CountInv

(* diffLocksHeldNum counts the different mutexes on record, and checkSCC   *)
(* never reads the back of an empty lockHistory.                           *)
THEOREM HeldNumExactCorrect == Spec => []HeldNumExact
<1>1. Init => CountInv
  <2> SUFFICES ASSUME Init, NEW t \in Threads
               PROVE  /\ IsFiniteSet(LocksHeld(t))
                      /\ diffLocksHeldNum[t] = Cardinality(LocksHeld(t))
    BY DEF CountInv
  <2>1. LocksHeld(t) = {} /\ diffLocksHeldNum[t] = 0
    BY DEF Init, LocksHeld
  <2> QED
    BY <2>1, FS_EmptySet
<1>2. BaseInv /\ CountInv /\ [Next]_vars => CountInv'
  <2> SUFFICES ASSUME BaseInv, CountInv, [Next]_vars PROVE CountInv'
    OBVIOUS
  <2>1. CASE \E t \in Threads : ThreadLock(t) \/ ThreadUnlock(t)
    BY <2>1, CountRecordStep
  <2>2. CASE ~\E t \in Threads : ThreadLock(t) \/ ThreadUnlock(t)
    <3>1. UNCHANGED <<locks, diffLocksHeldNum>>
      BY <2>2 DEF Next, ThreadStep, Initialize, PlainCall, BeforeLock, CheckSCC, WakeUp,
                  EndBeforeLock, LockReturns, AfterLock, BeforeUnlock, UnlockReturns,
                  AssertFails, CancelThread, vars, tracerVars, threadVars
    <3> QED
      BY <3>1, CountFrame DEF CountInv
  <2> QED
    BY <2>1, <2>2
<1>3. BaseInv /\ CountInv => HeldNumExact
  BY DEF BaseInv, HistoryInv, CountInv, HeldNumExact
<1> QED
  BY <1>1, <1>2, <1>3, BaseInvariance, PTL DEF Spec
-----------------------------------------------------------------------------
(* There are no more numbers than mutexes.                                 *)
NumbersBound ==
  /\ sccPhase = "topSort" => componentNum = 0
  /\ sccPhase # "topSort" => componentNum <= Cardinality(visited)
  /\ \A n \in Locks : component[n] <= componentNum

(* What the numbers mean for checkSCC: those of findSCC's order, bounded.  *)
DelayInv == BaseInv /\ OrderInv /\ NumbersBound

(* A set of visited mutexes is finite.                                     *)
LEMMA VisitedFinite ==
  ASSUME SccTypeOK
  PROVE  /\ IsFiniteSet(visited) /\ Cardinality(visited) \in Nat
         /\ Cardinality(visited) < INF /\ visited \subseteq Locks
<1>1. visited \in SUBSET Locks
  BY GraphAssumption DEF SccTypeOK, GraphType
<1>2. IsFiniteSet(visited) /\ Cardinality(visited) <= Cardinality(Locks)
  BY <1>1, MutexesAssumption, FS_Subset
<1>3. Cardinality(visited) \in Nat /\ Cardinality(Locks) \in Nat
  BY <1>2, MutexesAssumption, FS_CardinalityType
<1>4. Cardinality(visited) < INF
  BY <1>2, <1>3, MutexesAssumption DEF INF
<1> QED
  BY <1>1, <1>2, <1>3, <1>4

(* A new number is for a mutex that was not visited.                       *)
LEMMA NumbersStep ==
  ASSUME SccInv, SccInv', NumbersBound, [SccNext]_sccVars
  PROVE  NumbersBound'
<1>0. /\ component \in [Locks -> Nat] /\ componentNum \in Nat
      /\ IsFiniteSet(visited) /\ Cardinality(visited) \in Nat /\ graph.nodes \subseteq Locks
  BY VisitedFinite, GraphAssumption DEF SccInv, SccTypeOK, GraphType
<1>1. CASE TopSortCall \/ TopSortReturn
  BY <1>1 DEF TopSortCall, TopSortReturn, NumbersBound
<1>2. CASE TopSortEnd
  BY <1>2, FS_EmptySet DEF TopSortEnd, NumbersBound
<1>3. ASSUME NEW n \in Locks \ visited, NEW number \in Nat, Number(n, number),
             sccPhase = "assign", sccPhase' = "assign",
             number \in {componentNum, componentNum + 1}, componentNum' = number
      PROVE  NumbersBound'
  <2>1. Cardinality(visited') = Cardinality(visited) + 1
    BY <1>0, <1>3, FS_AddElement DEF Number
  <2>2. componentNum <= Cardinality(visited) /\ \A k \in Locks : component[k] <= componentNum
    BY <1>3 DEF NumbersBound
  <2>3. number <= Cardinality(visited) + 1 /\ componentNum <= number
    BY <1>0, <1>3, <2>2
  <2>4. ASSUME NEW k \in Locks PROVE component'[k] <= number
    <3>1. CASE k = n
      BY <1>0, <1>3, <3>1 DEF Number
    <3>2. CASE k # n
      BY <1>0, <1>3, <2>2, <2>3, <3>2 DEF Number
    <3> QED
      BY <3>1, <3>2
  <2> QED
    BY <1>3, <2>1, <2>3, <2>4 DEF NumbersBound
<1>4. CASE ServeQueue
  <2> DEFINE n == Head(topologicalOrder)
  <2>1. n \in Locks
    BY <1>0, <1>4 DEF ServeQueue, SccInv, SccTypeOK
  <2>2. CASE n \in visited
    BY <1>4, <2>2 DEF ServeQueue, NumbersBound
  <2>3. CASE n \notin visited
    <3>1. /\ Number(n, componentNum + 1) /\ componentNum' = componentNum + 1
          /\ sccPhase = "assign" /\ sccPhase' = "assign"
      BY <1>4, <2>3 DEF ServeQueue
    <3> HIDE DEF n
    <3> QED
      BY <1>0, <1>3, <2>1, <2>3, <3>1
  <2> QED
    BY <2>2, <2>3
<1>5. CASE AssignCall
  <2>1. PICK n \in GetInNeibours(graph, Top) \ visited : Number(n, componentNum)
    BY <1>5 DEF AssignCall
  <2>2. n \in Locks
    BY <1>0 DEF GetInNeibours
  <2> QED
    BY <1>0, <1>3, <1>5, <2>1, <2>2 DEF AssignCall
<1>6. CASE AssignReturn \/ FindSCCEnd
  BY <1>6 DEF AssignReturn, FindSCCEnd, NumbersBound
<1>7. CASE UNCHANGED sccVars
  BY <1>7 DEF sccVars, NumbersBound
<1> QED
  BY <1>1, <1>2, <1>4, <1>5, <1>6, <1>7 DEF SccNext

(* After initialize() the hooks leave the numbers alone.                   *)
THEOREM DelayInvariance == Spec => []DelayInv
<1>1. Init => OrderInv /\ NumbersBound
  BY OrderInit DEF Init, SccInit, NumbersBound
<1>2. DelayInv /\ BaseInv' /\ [Next]_vars => DelayInv'
  <2> SUFFICES ASSUME DelayInv, BaseInv', [Next]_vars PROVE OrderInv' /\ NumbersBound'
    BY DEF DelayInv
  <2>1. CASE [SccNext]_sccVars
    BY <2>1, OrderNext, NumbersStep DEF DelayInv, BaseInv
  <2>2. CASE ~[SccNext]_sccVars
    <3>1. UNCHANGED <<graph, sccPhase, visited, stack, topologicalOrder, component, componentNum>>
      BY <2>2 DEF Next, ThreadStep, Initialize, PlainCall, BeforeLock, CheckSCC, WakeUp,
                  EndBeforeLock, LockReturns, AfterLock, ThreadLock, BeforeUnlock, UnlockReturns,
                  ThreadUnlock, AssertFails, CancelThread, vars
    <3>2. Distinct(topologicalOrder)' /\ SortVisitsOnce' /\ StackIsPath'
      BY <3>1 DEF DelayInv, OrderInv, SortVisitsOnce, StackIsPath
    <3>3. QueueDescends' /\ AcyclicSingletons'
      BY <3>1 DEF DelayInv, OrderInv, QueueDescends, AcyclicSingletons
    <3>4. NumbersDiffer' /\ NumbersBound'
      BY <3>1 DEF DelayInv, OrderInv, NumbersDiffer, NumbersBound
    <3> QED
      BY <3>2, <3>3, <3>4 DEF OrderInv
  <2> QED
    BY <2>1, <2>2
<1> QED
  BY <1>1, <1>2, BaseInvariance, PTL DEF Spec, DelayInv

(* In a graph without cycles a known nesting leads to a lower number, and  *)
(* a thread that holds nothing has INF: checkSCC delays neither, for any   *)
(* loaded graph and any program.                                           *)
THEOREM NoNeedlessDelayCorrect == Spec => NoNeedlessDelay
<1> DEFINE Needless(t) == /\ Acyclic(graph)
                          /\ <<lockHistory[t][1], Call(t).m>> \in graph.edges
           Step == \A t \in Threads : at[t] = "checkSCC" /\ at'[t] = "usleep" => ~Needless(t)
<1>1. DelayInv /\ [Next]_vars => [Step]_vars
  <2> SUFFICES ASSUME DelayInv, [Next]_vars, NEW t \in Threads,
                      at[t] = "checkSCC", at'[t] = "usleep",
                      Acyclic(graph), <<lockHistory[t][1], Call(t).m>> \in graph.edges
               PROVE  FALSE
    OBVIOUS
  <2> DEFINE last == lockHistory[t][1]
             m == Call(t).m
  <2>0. BaseInv /\ SccInv /\ SccTypeOK /\ TypeOK
    BY DEF DelayInv, BaseInv, SccInv
  <2>1. CheckSCC(t)
    BY <2>0, LeavesCheckSCC
  <2>2. sccPhase = "done" /\ at \in [Threads -> Places]
    BY <2>0, <2>1 DEF CheckSCC, Active, TypeOK
  <2>3. LastComp(t) <= Comp(m)
    BY <2>1, <2>2 DEF CheckSCC, Goto
  <2>4. last \in graph.nodes /\ m \in graph.nodes /\ graph.nodes \subseteq Locks
    BY <2>0, GraphAssumption DEF SccTypeOK, GraphType
  <2>5. last # m
    BY <2>4 DEF Acyclic
  <2>6. component[last] # component[m]
    BY <2>2, <2>4, <2>5 DEF DelayInv, OrderInv, AcyclicSingletons
  <2>7. m \in assigned /\ component[m] <= component[last]
    BY <2>0, <2>2, <2>4 DEF SccInv, EdgesDescend
  <2>8. component[m] \in Nat /\ component[last] \in Nat /\ component[m] <= componentNum
    BY <2>0, <2>4 DEF SccTypeOK, DelayInv, NumbersBound
  <2>9. component[m] < INF
    <3>1. componentNum <= Cardinality(visited) /\ componentNum \in Nat
      BY <2>0, <2>2 DEF DelayInv, NumbersBound, SccTypeOK
    <3>2. Cardinality(visited) \in Nat /\ Cardinality(visited) < INF
      BY <2>0, VisitedFinite
    <3> QED
      BY <2>8, <3>1, <3>2 DEF INF
  <2>10. Comp(m) = component[m] /\ LastComp(t) \in {INF, component[last]}
    BY <2>7 DEF Comp, LastComp
  <2> HIDE DEF last, m
  <2> QED
    BY <2>3, <2>6, <2>7, <2>8, <2>9, <2>10 DEF INF
<1> QED
  BY <1>1, DelayInvariance, PTL DEF Spec, NoNeedlessDelay
=============================================================================
