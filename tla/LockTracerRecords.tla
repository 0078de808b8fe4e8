-------------------------- MODULE LockTracerRecords --------------------------
(***************************************************************************)
(* Proofs about what the lock tracer remembers, for any threads, mutexes,  *)
(* programs and loaded graphs: its records of who holds what and of the    *)
(* nested acquisitions agree with what the program did.                    *)
(***************************************************************************)
EXTENDS LockTracerProofs

(* Between a real unlock and its after-hook the thread does not hold a     *)
(* default mutex.                                                          *)
ReleasedInv ==
  \A t \in Threads, m \in Locks \ Recursive : InAfterUnlock(t, m) => owner[m] # t

(* Between a real lock and Thread::lock the thread holds nothing that it   *)
(* did not hold at the acquisition.                                        *)
NestedInv ==
  \A t \in Threads, a, b \in Locks : Pending(t, <<a, b>>) => <<a, b>> \in nested

RecordFacts ==
  /\ RecordsExact
  /\ ReleasedInv
  /\ NestedInv
  /\ OneRecordedHolder
  /\ RaogSound
  /\ RaogComplete
  /\ AbortOnlyOnMisuse

(* The inductive invariant of the records.                                 *)
RecordsInv == BaseInv /\ RecordFacts
-----------------------------------------------------------------------------
(* What one call of the C library does to the holders.                     *)

(* How often a thread holds a mutex is a number.                           *)
LEMMA HoldCountType ==
  ASSUME ProgTypeOK, NEW t \in Threads, NEW m \in Locks
  PROVE  HoldCount(t, m) \in Nat
BY DEF ProgTypeOK, HoldCount

(* A call of t changes only the mutex it names, gives nothing to another   *)
(* thread, and takes something from one only if that is misuse.            *)
LEMMA ForeignEffect ==
  ASSUME ProgTypeOK, MutexInv, NEW t \in Threads, ProgStep(t)
  PROVE  /\ Call(t).m \in Locks /\ ip[t] \in 1..Len(prog[t])
         /\ misuse => misuse'
         /\ \A m \in Locks : m # Call(t).m =>
              owner'[m] = owner[m] /\ count'[m] = count[m]
         /\ \A u \in Threads \ {t}, m \in Locks :
              /\ owner'[m] = u => owner[m] = u
              /\ HoldCount(u, m)' <= HoldCount(u, m)
              /\ ~misuse' => HoldCount(u, m)' = HoldCount(u, m)
<1> DEFINE m0 == Call(t).m
<1>1. m0 \in Locks /\ ip[t] \in 1..Len(prog[t]) /\ t # NoThread
  BY CallType, ProgramAssumption DEF ProgStep, Acquire, TryFail, Release, Running, Call
<1>2. owner \in [Locks -> Threads \cup {NoThread}] /\ count \in [Locks -> Nat]
  BY DEF ProgTypeOK
<1> HIDE DEF m0
<1>3. /\ misuse => misuse'
      /\ \A m \in Locks : m # m0 => owner'[m] = owner[m] /\ count'[m] = count[m]
      /\ \A u \in Threads \ {t} :
           /\ owner'[m0] = u => owner[m0] = u /\ count'[m0] = count[m0]
           /\ ~misuse' /\ owner[m0] = u => owner'[m0] = u /\ count'[m0] = count[m0]
  <2>1. CASE Acquire(t)
    <3>1. /\ owner' = [owner EXCEPT ![m0] = t] /\ count' = [count EXCEPT ![m0] = @ + 1]
          /\ misuse' = misuse /\ owner[m0] \in {t, NoThread}
      BY <2>1 DEF Acquire, Available, m0
    <3> QED
      BY <1>1, <1>2, <3>1, ProgramAssumption
  <2>2. CASE TryFail(t)
    BY <2>2 DEF TryFail
  <2>3. CASE Release(t)
    <3>1. misuse' = (misuse \/ owner[m0] # t)
      BY <2>3 DEF Release, m0
    <3>2. CASE m0 \in Recursive /\ owner[m0] # t
      <4>1. UNCHANGED <<owner, count>>
        BY <2>3, <3>2 DEF Release, m0
      <4> QED
        BY <3>1, <4>1
    <3>3. CASE ~(m0 \in Recursive /\ owner[m0] # t)
      <4>1. PICK left : /\ count' = [count EXCEPT ![m0] = left]
                        /\ owner' = [owner EXCEPT ![m0] =
                                       IF left = 0 THEN NoThread ELSE @]
                        /\ m0 \notin Recursive => left = 0
        BY <2>3, <3>3 DEF Release, m0
      <4>2. owner'[m0] = NoThread \/ owner'[m0] = t
        BY <1>1, <1>2, <3>3, <4>1
      <4>3. \A m \in Locks : m # m0 => owner'[m] = owner[m] /\ count'[m] = count[m]
        BY <1>2, <4>1
      <4> QED
        BY <3>1, <4>2, <4>3, ProgramAssumption
    <3> QED
      BY <3>2, <3>3
  <2> QED
    BY <2>1, <2>2, <2>3 DEF ProgStep
<1>4. ASSUME NEW u \in Threads \ {t}, NEW m \in Locks
      PROVE  /\ owner'[m] = u => owner[m] = u
             /\ HoldCount(u, m)' <= HoldCount(u, m)
             /\ ~misuse' => HoldCount(u, m)' = HoldCount(u, m)
  <2>1. HoldCount(u, m) \in Nat
    BY HoldCountType
  <2>2. CASE m = m0
    BY <1>3, <2>1, <2>2 DEF HoldCount
  <2>3. CASE m # m0
    BY <1>3, <2>1, <2>3 DEF HoldCount
  <2> QED
    BY <2>2, <2>3
<1> QED
  BY <1>1, <1>3, <1>4 DEF m0

(* A lock call adds one to what its thread holds.                          *)
LEMMA AcquireEffect ==
  ASSUME ProgTypeOK, MutexInv, NEW t \in Threads, Acquire(t),
         NEW m0 \in Locks, m0 = Call(t).m
  PROVE  /\ ip'[t] = ip[t] + 1 /\ misuse' = misuse
         /\ HoldCount(t, m0)' = HoldCount(t, m0) + 1
         /\ nested' = nested \cup (HeldBy(t) \X {m0})
<1>1. t # NoThread
  BY ProgramAssumption
<1>2. /\ owner \in [Locks -> Threads \cup {NoThread}] /\ count \in [Locks -> Nat]
      /\ ip \in [Threads -> Nat \ {0}]
  BY DEF ProgTypeOK
<1>3. /\ owner' = [owner EXCEPT ![m0] = t] /\ count' = [count EXCEPT ![m0] = @ + 1]
      /\ misuse' = misuse /\ owner[m0] \in {t, NoThread}
      /\ ip' = [ip EXCEPT ![t] = @ + 1]
      /\ nested' = nested \cup (HeldBy(t) \X {m0})
  BY DEF Acquire, Available
<1>4. owner'[m0] = t /\ count'[m0] = count[m0] + 1 /\ ip'[t] = ip[t] + 1
  BY <1>1, <1>2, <1>3
<1>5. HoldCount(t, m0)' = HoldCount(t, m0) + 1
  <2>1. HoldCount(t, m0) = count[m0]
    BY <1>1, <1>2, <1>3 DEF HoldCount, MutexInv
  <2>2. HoldCount(t, m0)' = count'[m0]
    BY <1>4 DEF HoldCount
  <2> QED
    BY <1>4, <2>1, <2>2
<1> QED
  BY <1>3, <1>4, <1>5

(* An unlock call by the holder takes one away; nobody holds a default     *)
(* mutex after it.                                                         *)
LEMMA ReleaseEffect ==
  ASSUME ProgTypeOK, MutexInv, NEW t \in Threads, Release(t),
         NEW m0 \in Locks, m0 = Call(t).m
  PROVE  /\ ip'[t] = ip[t] + 1 /\ nested' = nested
         /\ m0 \notin Recursive => owner'[m0] # t
         /\ ~misuse' => HoldCount(t, m0) = HoldCount(t, m0)' + 1
<1>1. t # NoThread
  BY ProgramAssumption
<1>2. /\ owner \in [Locks -> Threads \cup {NoThread}] /\ count \in [Locks -> Nat]
      /\ ip \in [Threads -> Nat \ {0}]
  BY DEF ProgTypeOK
<1>3. /\ misuse' = (misuse \/ owner[m0] # t)
      /\ ip' = [ip EXCEPT ![t] = @ + 1] /\ nested' = nested
  BY DEF Release
<1>4. CASE m0 \notin Recursive
  <2>1. /\ owner' = [owner EXCEPT ![m0] = NoThread] /\ count' = [count EXCEPT ![m0] = 0]
    BY <1>4 DEF Release
  <2>2. owner'[m0] # t /\ HoldCount(t, m0)' = 0
    BY <1>1, <1>2, <2>1 DEF HoldCount
  <2>3. owner[m0] = t => HoldCount(t, m0) = 1
    BY <1>1, <1>2, <1>4 DEF HoldCount, MutexInv
  <2>4. ~misuse' => owner[m0] = t
    BY <1>3
  <2>5. ip'[t] = ip[t] + 1
    BY <1>2, <1>3
  <2>6. ~misuse' => HoldCount(t, m0) = HoldCount(t, m0)' + 1
    BY <2>2, <2>3, <2>4
  <2> QED
    BY <1>3, <2>2, <2>5, <2>6
<1>5. CASE m0 \in Recursive /\ owner[m0] = t
  <2>1. /\ count' = [count EXCEPT ![m0] = count[m0] - 1]
        /\ owner' = [owner EXCEPT ![m0] = IF count[m0] - 1 = 0 THEN NoThread ELSE @]
    BY <1>5 DEF Release
  <2>2. count'[m0] = count[m0] - 1 /\ count[m0] \in Nat \ {0}
    BY <1>1, <1>2, <1>5, <2>1 DEF MutexInv
  <2>3. owner'[m0] = IF count[m0] - 1 = 0 THEN NoThread ELSE t
    BY <1>1, <1>2, <1>5, <2>1
  <2>4. HoldCount(t, m0) = HoldCount(t, m0)' + 1
    BY <1>1, <1>5, <2>2, <2>3 DEF HoldCount
  <2> QED
    BY <1>2, <1>3, <1>5, <2>4
<1>6. CASE m0 \in Recursive /\ owner[m0] # t
  BY <1>2, <1>3, <1>6
<1> QED
  BY <1>4, <1>5, <1>6
-----------------------------------------------------------------------------
(* The records are exact initially ...                                     *)
LEMMA RecordsInit == Init => RecordsInv
<1> SUFFICES ASSUME Init PROVE RecordsInv
  OBVIOUS
<1>1. /\ at = [t \in Threads |-> "program"]
      /\ locks = [t \in Threads |-> [m \in Locks |-> 0]]
      /\ owner = [m \in Locks |-> NoThread]
      /\ lockThreadMap = [m \in Locks |-> NoThread]
      /\ nested = {} /\ RAOG = graph /\ ~aborted
  BY DEF Init, ProgInit
<1>2. \A t \in Threads, m \in Locks : /\ HoldCount(t, m) = 0 /\ locks[t][m] = 0
                                      /\ ~InAfterLock(t, m) /\ ~InAfterUnlock(t, m)
                                      /\ lockThreadMap[m] # t
  BY <1>1, ProgramAssumption DEF HoldCount, InAfterLock, InAfterUnlock
<1>3. RecordsExact /\ ReleasedInv /\ OneRecordedHolder
  BY <1>2 DEF RecordsExact, ReleasedInv, OneRecordedHolder
<1>4. NestedInv
  BY <1>2 DEF NestedInv, Pending
<1>5. RaogSound /\ RaogComplete /\ AbortOnlyOnMisuse
  BY <1>1 DEF RaogSound, RaogComplete, AbortOnlyOnMisuse
<1> QED
  BY <1>3, <1>4, <1>5, BaseInit DEF RecordsInv, RecordFacts

(* ... a step that moves threads, but none into or out of an after-hook,   *)
(* disturbs nothing, unless an assert fails without reason,                *)
LEMMA QuietStep ==
  ASSUME RecordFacts,
         UNCHANGED <<prog, ip, owner, count, nested, misuse, locks,
                     lockThreadMap, graph>>,
         RAOG'.edges = RAOG.edges,
         aborted' => \/ aborted \/ misuse
                     \/ \E u \in Threads : /\ at[u] = "afterUnlock"
                                           /\ ~Traced(LastCall(u).m),
         \A u \in Threads :
           /\ at'[u] \in {"afterLock", "lock"} <=> at[u] \in {"afterLock", "lock"}
           /\ at'[u] = "afterUnlock" <=> at[u] = "afterUnlock"
  PROVE  RecordFacts'
<1> USE DEF RecordFacts
<1>1. \A m : Traced(m)' <=> Traced(m)
  BY DEF Traced
<1>2. \A u \in Threads : LastCall(u)' = LastCall(u)
  BY DEF LastCall
<1>3. \A u \in Threads : \A m : /\ InAfterLock(u, m)' <=> InAfterLock(u, m)
                                /\ InAfterUnlock(u, m)' <=> InAfterUnlock(u, m)
                                /\ HoldCount(u, m)' = HoldCount(u, m)
  BY <1>2 DEF InAfterLock, InAfterUnlock, HoldCount
<1>4. \A u \in Threads : \A e : Pending(u, e)' <=> Pending(u, e)
  BY <1>3 DEF Pending
<1>5. RecordsExact'
  BY <1>1, <1>3 DEF RecordsExact
<1>6. ReleasedInv' /\ NestedInv' /\ OneRecordedHolder'
  BY <1>1, <1>3, <1>4 DEF ReleasedInv, NestedInv, OneRecordedHolder
<1>7. RaogSound' /\ RaogComplete'
  BY <1>1, <1>4 DEF RaogSound, RaogComplete
<1>8. AbortOnlyOnMisuse'
  BY <1>1, <1>2 DEF AbortOnlyOnMisuse
<1> QED
  BY <1>5, <1>6, <1>7, <1>8

(* a real call changes the holders and the places together,                *)
LEMMA CallStep ==
  ASSUME RecordsInv, NEW t \in Threads,
         PlainCall(t) \/ LockReturns(t) \/ UnlockReturns(t)
  PROVE  RecordFacts'
<1> USE DEF RecordsInv, RecordFacts
<1>0. /\ ProgTypeOK /\ MutexInv /\ at \in [Threads -> Places]
      /\ nested \subseteq Locks \X Locks /\ ip \in [Threads -> Nat \ {0}]
      /\ locks \in [Threads -> [Locks -> Nat]]
  BY DEF BaseInv, TypeOK, ProgTypeOK
<1>1. /\ ProgStep(t) /\ ~aborted
      /\ UNCHANGED <<locks, lockThreadMap, RAOG, graph, aborted>>
  BY DEF PlainCall, LockReturns, UnlockReturns, ProgStep, tracerVars, threadVars,
         sccVars, Active
<1>2. PICK m0 \in Locks : m0 = Call(t).m
  BY <1>0, <1>1, ForeignEffect
<1>3. /\ ip[t] \in 1..Len(prog[t]) /\ prog' = prog
      /\ misuse => misuse'
      /\ \A m \in Locks : m # m0 => owner'[m] = owner[m] /\ count'[m] = count[m]
      /\ \A u \in Threads \ {t} : ip'[u] = ip[u]
  BY <1>0, <1>1, <1>2, ForeignEffect, ProgStepFrame
<1>4. \A u \in Threads \ {t}, m \in Locks :
        /\ owner'[m] = u => owner[m] = u
        /\ HoldCount(u, m)' <= HoldCount(u, m)
        /\ ~misuse' => HoldCount(u, m)' = HoldCount(u, m)
  BY <1>0, <1>1, ForeignEffect
<1>5. \A u \in Threads, m \in Locks : HoldCount(u, m) \in Nat
  BY <1>0, HoldCountType
<1>5a. \A u \in Threads, m \in Locks : HoldCount(u, m)' \in Nat
  <2>1. ProgTypeOK'
    BY <1>0, <1>1, ProgStepInv
  <2> QED
    BY <2>1 DEF ProgTypeOK, HoldCount
<1>6. \A m : Traced(m)' <=> Traced(m)
  BY <1>3 DEF Traced
<1>7. \A u \in Threads \ {t} : \A m :
        /\ InAfterLock(u, m)' <=> InAfterLock(u, m)
        /\ InAfterUnlock(u, m)' <=> InAfterUnlock(u, m)
  <2>1. \A u \in Threads \ {t} : at'[u] = at[u] /\ LastCall(u)' = LastCall(u)
    BY <1>0, <1>3 DEF PlainCall, LockReturns, UnlockReturns, Goto, tracerVars,
                      hookVars, LastCall
  <2> QED
    BY <2>1 DEF InAfterLock, InAfterUnlock
<1>8. \A m : ~InAfterLock(t, m) /\ ~InAfterUnlock(t, m)
  BY DEF PlainCall, LockReturns, UnlockReturns, InAfterLock, InAfterUnlock
<1>9. \A m \in Locks : m # m0 => HoldCount(t, m)' = HoldCount(t, m)
  BY <1>3 DEF HoldCount
<1>10. \/ PlainCall(t) /\ ~Traced(m0) /\ at'[t] = "program"
       \/ Acquire(t) /\ at'[t] = "afterLock" /\ prog'[t][ip'[t] - 1].m = m0
       \/ Release(t) /\ at'[t] = "afterUnlock" /\ prog'[t][ip'[t] - 1].m = m0
  <2>1. CASE PlainCall(t)
    <3>1. at'[t] = "program"
      BY <2>1 DEF PlainCall, tracerVars, hookVars
    <3>2. ~Traced(m0)
      <4>1. DOMAIN prog[t] = 1..Len(prog[t])
        BY <1>0, LenProperties DEF ProgTypeOK
      <4> QED
        BY <1>2, <1>3, <2>1, <4>1 DEF PlainCall, Traced, Call
    <3> QED
      BY <2>1, <3>1, <3>2
  <2>2. CASE LockReturns(t)
    <3>1. at'[t] = "afterLock" /\ Acquire(t)
      BY <1>0, <2>2 DEF LockReturns, Goto
    <3>2. ip'[t] - 1 = ip[t]
      <4>1. ip'[t] = ip[t] + 1
        BY <1>0, <1>2, <3>1, AcquireEffect
      <4> QED
        BY <1>0, <4>1
    <3>3. prog'[t][ip'[t] - 1].m = m0
      BY <1>2, <1>3, <3>2 DEF Call
    <3> QED
      BY <3>1, <3>3
  <2>3. CASE UnlockReturns(t)
    <3>1. at'[t] = "afterUnlock" /\ Release(t)
      BY <1>0, <2>3 DEF UnlockReturns, Goto
    <3>2. ip'[t] - 1 = ip[t]
      <4>1. ip'[t] = ip[t] + 1
        BY <1>0, <1>2, <3>1, ReleaseEffect
      <4> QED
        BY <1>0, <4>1
    <3>3. prog'[t][ip'[t] - 1].m = m0
      BY <1>2, <1>3, <3>2 DEF Call
    <3> QED
      BY <3>1, <3>3
  <2> QED
    BY <2>1, <2>2, <2>3
<1>11. Acquire(t) => HoldCount(t, m0)' = HoldCount(t, m0) + 1
  BY <1>0, <1>2, AcquireEffect
<1>12. Release(t) => /\ m0 \notin Recursive => owner'[m0] # t
                     /\ ~misuse' => HoldCount(t, m0) = HoldCount(t, m0)' + 1
  BY <1>0, <1>2, ReleaseEffect
<1>13. /\ nested \subseteq nested'
       /\ \A e \in nested' \ nested : Acquire(t) /\ e \in HeldBy(t) \X {m0}
       /\ Acquire(t) => HeldBy(t) \X {m0} \subseteq nested'
  BY <1>0, <1>1, <1>2, AcquireEffect, ReleaseEffect DEF ProgStep, TryFail
<1>14. RecordsExact'
  <2> SUFFICES ASSUME ~misuse', NEW u \in Threads, NEW m \in Locks, Traced(m)
               PROVE  locks[u][m] + (IF InAfterLock(u, m)' THEN 1 ELSE 0)
                        = HoldCount(u, m)' + (IF InAfterUnlock(u, m)' THEN 1 ELSE 0)
    BY <1>1, <1>6 DEF RecordsExact
  <2>1. locks[u][m] + (IF InAfterLock(u, m) THEN 1 ELSE 0)
          = HoldCount(u, m) + (IF InAfterUnlock(u, m) THEN 1 ELSE 0)
    BY <1>3 DEF RecordsExact
  <2>2. CASE u # t
    BY <1>4, <1>7, <2>1, <2>2
  <2>3. CASE u = t
    <3>1. locks[t][m] = HoldCount(t, m) /\ HoldCount(t, m) \in Nat
      BY <1>0, <1>5, <1>8, <2>1, <2>3
    <3>2. CASE m # m0
      BY <1>9, <1>10, <2>3, <3>1, <3>2
         DEF InAfterLock, InAfterUnlock, LastCall, HoldCount
    <3>3. CASE m = m0
      BY <1>5a, <1>10, <1>11, <1>12, <2>3, <3>1, <3>3
         DEF InAfterLock, InAfterUnlock, LastCall, HoldCount
    <3> QED
      BY <3>2, <3>3
  <2> QED
    BY <2>2, <2>3
<1>15. ReleasedInv'
  <2> SUFFICES ASSUME NEW u \in Threads, NEW m \in Locks \ Recursive,
                      InAfterUnlock(u, m)'
               PROVE  owner'[m] # u
    BY DEF ReleasedInv
  <2>1. CASE u # t
    BY <1>4, <1>7, <2>1 DEF ReleasedInv
  <2>2. CASE u = t
    BY <1>10, <1>12, <2>2 DEF InAfterUnlock, LastCall
  <2> QED
    BY <2>1, <2>2
<1>16. NestedInv'
  <2> SUFFICES ASSUME NEW u \in Threads, NEW a \in Locks, NEW b \in Locks,
                      Pending(u, <<a, b>>)'
               PROVE  <<a, b>> \in nested'
    BY DEF NestedInv
  <2>1. /\ InAfterLock(u, b)'
        /\ HoldCount(u, a)' > (IF a = b THEN 1 ELSE 0)
    BY DEF Pending
  <2>2. CASE u # t
    <3>1. HoldCount(u, a) > (IF a = b THEN 1 ELSE 0)
      BY <1>4, <1>5, <1>5a, <2>1, <2>2
    <3>2. Pending(u, <<a, b>>)
      BY <1>7, <2>1, <2>2, <3>1 DEF Pending
    <3> QED
      BY <1>13, <3>2 DEF NestedInv
  <2>3. CASE u = t
    <3>1. Acquire(t) /\ b = m0
      BY <1>10, <2>1, <2>3 DEF InAfterLock, LastCall
    <3>2. HoldCount(t, a) > 0
      <4>1. CASE a = m0
        BY <1>5, <1>11, <2>1, <2>3, <3>1, <4>1
      <4>2. CASE a # m0
        BY <1>5, <1>9, <2>1, <2>3, <3>1, <4>2
      <4> QED
        BY <4>1, <4>2
    <3>3. a \in HeldBy(t)
      BY <3>2 DEF HoldCount, HeldBy
    <3> QED
      BY <1>13, <3>1, <3>3
  <2> QED
    BY <2>2, <2>3
<1>17. OneRecordedHolder' /\ AbortOnlyOnMisuse'
  BY <1>1, <1>3, <1>6 DEF OneRecordedHolder, AbortOnlyOnMisuse
<1>18. RaogSound'
  BY <1>1, <1>3, <1>6, <1>13 DEF RaogSound
<1>19. RaogComplete'
  <2> SUFFICES ASSUME ~misuse', NEW e \in nested', Traced(e[1]), Traced(e[2])
               PROVE  e \in RAOG.edges \/ \E u \in Threads : Pending(u, e)'
    BY <1>1, <1>6 DEF RaogComplete
  <2>1. CASE e \in nested
    <3>1. CASE e \in RAOG.edges
      BY <3>1
    <3>2. CASE e \notin RAOG.edges
      <4>1. PICK u \in Threads : Pending(u, e)
        BY <1>3, <2>1, <3>2 DEF RaogComplete
      <4>2. u # t /\ e[1] \in Locks /\ e[2] \in Locks
        BY <1>0, <1>8, <2>1, <4>1 DEF Pending
      <4>3. HoldCount(u, e[1])' = HoldCount(u, e[1])
        BY <1>4, <4>2
      <4>4. Pending(u, e)'
        BY <1>7, <4>1, <4>2, <4>3 DEF Pending
      <4> QED
        BY <4>4
    <3> QED
      BY <3>1, <3>2
  <2>2. CASE e \notin nested
    <3>1. Acquire(t) /\ e[1] \in HeldBy(t) /\ e[2] = m0
      BY <1>13, <2>2
    <3>2. InAfterLock(t, m0)'
      BY <1>10, <3>1 DEF Acquire, Release, InAfterLock, LastCall
    <3>3. e[1] \in Locks /\ HoldCount(t, e[1]) > 0
      BY <1>0, <3>1, ProgramAssumption DEF HeldBy, HoldCount, MutexInv, ProgTypeOK
    <3>4. HoldCount(t, e[1])' > (IF e[1] = e[2] THEN 1 ELSE 0)
      BY <1>5, <1>9, <1>11, <3>1, <3>3
    <3>5. Pending(t, e)'
      BY <3>1, <3>2, <3>4 DEF Pending
    <3> QED
      BY <3>5
  <2> QED
    BY <2>1, <2>2
<1> QED
  BY <1>14, <1>15, <1>16, <1>17, <1>18, <1>19

(* Thread::lock catches up with the real call,                             *)
LEMMA ThreadLockStep ==
  ASSUME RecordsInv, NEW t \in Threads, ThreadLock(t)
  PROVE  RecordFacts'
<1> USE DEF RecordsInv, RecordFacts
<1>0. /\ ProgTypeOK /\ MutexInv /\ at \in [Threads -> Places]
      /\ locks \in [Threads -> [Locks -> Nat]] /\ RAOG \in GraphType
      /\ nested \subseteq Locks \X Locks
      /\ lockThreadMap \in [Locks -> Threads \cup {NoThread}]
  BY DEF BaseInv, TypeOK, ProgTypeOK
<1>1. PICK m0 \in Locks : m0 = LastCall(t).m
  BY <1>0, CallType DEF BaseInv, PlacesInv, ThreadLock, LastCall
<1>2. /\ at[t] = "lock" /\ at' = [at EXCEPT ![t] = "program"] /\ ~aborted
      /\ UNCHANGED <<prog, ip, owner, count, nested, misuse, graph, aborted>>
      /\ locks' = [locks EXCEPT ![t][m0] = @ + 1]
      /\ lockThreadMap' = [lockThreadMap EXCEPT ![m0] = t]
      /\ RAOG' = AddEdges(RAOG, LocksHeld(t), m0)
  BY <1>1 DEF ThreadLock, Goto, progVars, sccVars, Active
<1>3. \A m : Traced(m)' <=> Traced(m)
  BY <1>2 DEF Traced
<1>4. \A u \in Threads, m \in Locks :
        /\ HoldCount(u, m)' = HoldCount(u, m) /\ HoldCount(u, m) \in Nat
        /\ InAfterUnlock(u, m)' <=> InAfterUnlock(u, m)
        /\ InAfterLock(u, m)' <=> (InAfterLock(u, m) /\ u # t)
  BY <1>0, <1>2, HoldCountType DEF HoldCount, InAfterLock, InAfterUnlock, LastCall
<1>5. \A m \in Locks : /\ InAfterLock(t, m) <=> m = m0
                       /\ ~InAfterUnlock(t, m)
  BY <1>1, <1>2 DEF InAfterLock, InAfterUnlock
<1>6. \A u \in Threads \ {t} : at[u] # "afterUnlock"
  BY <1>2 DEF BaseInv, SerializedHooks, Critical
<1>7. /\ \A u \in Threads, m \in Locks :
           locks'[u][m] = IF u = t /\ m = m0 THEN locks[u][m] + 1 ELSE locks[u][m]
      /\ \A m \in Locks : lockThreadMap'[m] = IF m = m0 THEN t ELSE lockThreadMap[m]
  BY <1>0, <1>2
<1>8. ASSUME ~misuse, NEW m \in Locks, Traced(m)
      PROVE  locks[t][m] + (IF m = m0 THEN 1 ELSE 0) = HoldCount(t, m)
  BY <1>0, <1>4, <1>5, <1>8 DEF RecordsExact
<1>9. RecordsExact'
  <2> SUFFICES ASSUME ~misuse, NEW u \in Threads, NEW m \in Locks, Traced(m)
               PROVE  locks'[u][m] + (IF InAfterLock(u, m)' THEN 1 ELSE 0)
                        = HoldCount(u, m)' + (IF InAfterUnlock(u, m)' THEN 1 ELSE 0)
    BY <1>2, <1>3 DEF RecordsExact
  <2>1. locks[u][m] + (IF InAfterLock(u, m) THEN 1 ELSE 0)
          = HoldCount(u, m) + (IF InAfterUnlock(u, m) THEN 1 ELSE 0)
    BY DEF RecordsExact
  <2>2. CASE u # t
    BY <1>4, <1>7, <2>1, <2>2
  <2>3. CASE u = t
    BY <1>0, <1>4, <1>5, <1>7, <2>1, <2>3
  <2> QED
    BY <2>2, <2>3
<1>10. ReleasedInv'
  BY <1>2, <1>4 DEF ReleasedInv
<1>11. \A u \in Threads, e \in Locks \X Locks : Pending(u, e)' <=> Pending(u, e) /\ u # t
  BY <1>4 DEF Pending
<1>12. NestedInv'
  BY <1>2, <1>11 DEF NestedInv
<1>13. OneRecordedHolder'
  <2> SUFFICES ASSUME ~misuse, NEW m \in Locks \ Recursive, Traced(m),
                      NEW u \in Threads
               PROVE  lockThreadMap'[m] = u <=> locks'[u][m] > 0
    BY <1>2, <1>3 DEF OneRecordedHolder
  <2>1. CASE m # m0
    BY <1>7, <2>1 DEF OneRecordedHolder
  <2>2. CASE m = m0 /\ u = t
    BY <1>0, <1>7, <2>2
  <2>3. CASE m = m0 /\ u # t
    <3>1. HoldCount(t, m) > 0
      BY <1>0, <1>8, <2>3
    <3>2. HoldCount(u, m) = 0
      BY <2>3, <3>1 DEF HoldCount
    <3>3. ~InAfterUnlock(u, m)
      BY <1>6, <2>3 DEF InAfterUnlock
    <3>4. locks[u][m] + (IF InAfterLock(u, m) THEN 1 ELSE 0) = 0
      BY <3>2, <3>3 DEF RecordsExact
    <3>5. locks[u][m] = 0
      BY <1>0, <3>4
    <3> QED
      BY <1>7, <2>3, <3>5
  <2> QED
    BY <2>1, <2>2, <2>3
<1>14. RAOG'.edges = RAOG.edges \cup (LocksHeld(t) \X {m0})
  <2>1. CASE LocksHeld(t) = {}
    BY <1>2, <2>1 DEF AddEdges
  <2>2. CASE LocksHeld(t) # {}
    BY <1>2, <2>2 DEF AddEdges
  <2> QED
    BY <2>1, <2>2
<1>15. RaogSound'
  <2> SUFFICES ASSUME ~misuse, NEW a \in LocksHeld(t), Traced(a)
               PROVE  <<a, m0>> \in nested
    BY <1>2, <1>3, <1>14 DEF RaogSound
  <2>1. a \in Locks /\ locks[t][a] > 0
    BY DEF LocksHeld
  <2>2. HoldCount(t, a) > (IF a = m0 THEN 1 ELSE 0)
    BY <1>0, <1>8, <2>1
  <2>3. Pending(t, <<a, m0>>)
    BY <1>5, <2>2 DEF Pending
  <2> QED
    BY <2>1, <2>3 DEF NestedInv
<1>16. RaogComplete'
  <2> SUFFICES ASSUME ~misuse, NEW e \in nested, Traced(e[1]), Traced(e[2]),
                      e \notin RAOG.edges
               PROVE  e \in RAOG'.edges \/ \E u \in Threads : Pending(u, e)'
    BY <1>2, <1>3, <1>14 DEF RaogComplete
  <2>1. PICK u \in Threads : Pending(u, e)
    BY DEF RaogComplete
  <2>2. e \in Locks \X Locks
    BY <1>0
  <2>3. CASE u # t
    BY <1>11, <2>1, <2>2, <2>3
  <2>4. CASE u = t
    <3>1. e[2] = m0 /\ HoldCount(t, e[1]) > (IF e[1] = e[2] THEN 1 ELSE 0)
      BY <1>5, <2>1, <2>2, <2>4 DEF Pending
    <3>2. locks[t][e[1]] > 0
      BY <1>0, <1>4, <1>8, <2>2, <3>1
    <3>3. e[1] \in LocksHeld(t) /\ e = <<e[1], e[2]>>
      BY <2>2, <3>2 DEF LocksHeld
    <3> QED
      BY <1>14, <3>1, <3>3
  <2> QED
    BY <2>3, <2>4
<1>17. AbortOnlyOnMisuse'
  BY <1>2 DEF AbortOnlyOnMisuse
<1> QED
  BY <1>9, <1>10, <1>12, <1>13, <1>15, <1>16, <1>17

(* and so does Thread::unlock.                                             *)
LEMMA ThreadUnlockStep ==
  ASSUME RecordsInv, NEW t \in Threads, ThreadUnlock(t)
  PROVE  RecordFacts'
<1> USE DEF RecordsInv, RecordFacts
<1>0. /\ ProgTypeOK /\ MutexInv /\ at \in [Threads -> Places]
      /\ locks \in [Threads -> [Locks -> Nat]]
      /\ nested \subseteq Locks \X Locks
      /\ lockThreadMap \in [Locks -> Threads \cup {NoThread}]
  BY DEF BaseInv, TypeOK, ProgTypeOK
<1>1. PICK m0 \in Locks : m0 = LastCall(t).m
  BY <1>0, CallType DEF BaseInv, PlacesInv, ThreadUnlock, LastCall
<1>2. /\ at[t] = "afterUnlock" /\ at' = [at EXCEPT ![t] = "program"] /\ ~aborted
      /\ UNCHANGED <<prog, ip, owner, count, nested, misuse, graph, RAOG, aborted>>
      /\ locks[t][m0] > 0
      /\ locks' = [locks EXCEPT ![t][m0] = @ - 1]
      /\ lockThreadMap' = [lockThreadMap EXCEPT ![m0] = NoThread]
  BY <1>1 DEF ThreadUnlock, Goto, progVars, sccVars, Active
<1>3. \A m : Traced(m)' <=> Traced(m)
  BY <1>2 DEF Traced
<1>4. \A u \in Threads, m \in Locks :
        /\ HoldCount(u, m)' = HoldCount(u, m) /\ HoldCount(u, m) \in Nat
        /\ InAfterLock(u, m)' <=> InAfterLock(u, m)
        /\ InAfterUnlock(u, m)' <=> (InAfterUnlock(u, m) /\ u # t)
  BY <1>0, <1>2, HoldCountType DEF HoldCount, InAfterLock, InAfterUnlock, LastCall
<1>5. \A m \in Locks : /\ InAfterUnlock(t, m) <=> m = m0
                       /\ ~InAfterLock(t, m)
  BY <1>1, <1>2 DEF InAfterLock, InAfterUnlock
<1>7. /\ \A u \in Threads, m \in Locks :
           locks'[u][m] = IF u = t /\ m = m0 THEN locks[u][m] - 1 ELSE locks[u][m]
      /\ \A m \in Locks :
           lockThreadMap'[m] = IF m = m0 THEN NoThread ELSE lockThreadMap[m]
  BY <1>0, <1>2
<1>8. ASSUME ~misuse, NEW m \in Locks, Traced(m)
      PROVE  locks[t][m] = HoldCount(t, m) + (IF m = m0 THEN 1 ELSE 0)
  BY <1>0, <1>4, <1>5, <1>8 DEF RecordsExact
<1>9. RecordsExact'
  <2> SUFFICES ASSUME ~misuse, NEW u \in Threads, NEW m \in Locks, Traced(m)
               PROVE  locks'[u][m] + (IF InAfterLock(u, m)' THEN 1 ELSE 0)
                        = HoldCount(u, m)' + (IF InAfterUnlock(u, m)' THEN 1 ELSE 0)
    BY <1>2, <1>3 DEF RecordsExact
  <2>1. locks[u][m] + (IF InAfterLock(u, m) THEN 1 ELSE 0)
          = HoldCount(u, m) + (IF InAfterUnlock(u, m) THEN 1 ELSE 0)
    BY DEF RecordsExact
  <2>2. CASE u # t
    BY <1>4, <1>7, <2>1, <2>2
  <2>3. CASE u = t
    BY <1>0, <1>4, <1>5, <1>7, <2>1, <2>3
  <2> QED
    BY <2>2, <2>3
<1>10. ReleasedInv'
  BY <1>2, <1>4 DEF ReleasedInv
<1>11. \A u \in Threads, e \in Locks \X Locks : Pending(u, e)' <=> Pending(u, e)
  BY <1>4 DEF Pending
<1>12. NestedInv' /\ RaogSound'
  BY <1>2, <1>3, <1>11 DEF NestedInv, RaogSound
<1>13. RaogComplete'
  BY <1>0, <1>2, <1>3, <1>11 DEF RaogComplete
<1>14. OneRecordedHolder'
  <2> SUFFICES ASSUME ~misuse, NEW m \in Locks \ Recursive, Traced(m),
                      NEW u \in Threads
               PROVE  lockThreadMap'[m] = u <=> locks'[u][m] > 0
    BY <1>2, <1>3 DEF OneRecordedHolder
  <2>1. CASE m # m0
    BY <1>7, <2>1 DEF OneRecordedHolder
  <2>2. CASE m = m0 /\ u = t
    <3>1. HoldCount(t, m) = 0
      BY <1>5, <2>2 DEF ReleasedInv, HoldCount
    <3>2. locks'[u][m] = 0
      BY <1>0, <1>7, <1>8, <2>2, <3>1
    <3> QED
      BY <1>7, <2>2, <3>2, ProgramAssumption
  <2>3. CASE m = m0 /\ u # t
    <3>1. lockThreadMap[m] = t
      BY <1>2, <2>3 DEF OneRecordedHolder
    <3>2. ~(locks[u][m] > 0)
      BY <2>3, <3>1 DEF OneRecordedHolder
    <3> QED
      BY <1>7, <2>3, <3>2, ProgramAssumption
  <2> QED
    BY <2>1, <2>2, <2>3
<1>15. AbortOnlyOnMisuse'
  BY <1>2 DEF AbortOnlyOnMisuse
<1> QED
  BY <1>9, <1>10, <1>12, <1>13, <1>14, <1>15

(* The assert of Thread::unlock fails only with reason.                    *)
LEMMA AssertStep ==
  ASSUME RecordsInv, NEW t \in Threads, AssertFails(t)
  PROVE  RecordFacts'
<1> USE DEF RecordsInv, RecordFacts
<1>0. ProgTypeOK /\ locks \in [Threads -> [Locks -> Nat]]
  BY DEF BaseInv, TypeOK
<1>1. PICK m0 \in Locks : m0 = LastCall(t).m
  BY <1>0, CallType DEF BaseInv, PlacesInv, AssertFails, LastCall
<1>2. /\ at[t] = "afterUnlock" /\ ~(locks[t][m0] > 0)
      /\ UNCHANGED <<prog, ip, owner, count, nested, misuse, locks, lockThreadMap,
                     graph, RAOG, at>>
  BY <1>1 DEF AssertFails, progVars, sccVars, hookVars, threadVars
<1>3. misuse \/ ~Traced(m0)
  <2> SUFFICES ASSUME ~misuse, Traced(m0) PROVE FALSE
    OBVIOUS
  <2>1. InAfterUnlock(t, m0) /\ ~InAfterLock(t, m0)
    BY <1>1, <1>2 DEF InAfterUnlock, InAfterLock
  <2>2. locks[t][m0] = HoldCount(t, m0) + 1
    BY <1>0, <2>1 DEF RecordsExact
  <2> QED
    BY <1>0, <1>2, <2>2, HoldCountType
<1> QED
  BY <1>1, <1>2, <1>3, QuietStep

(* Every step keeps the invariant of the records.                          *)
LEMMA RecordsNext == RecordsInv /\ [Next]_vars => RecordsInv'
<1> SUFFICES ASSUME RecordsInv, [Next]_vars PROVE RecordsInv'
  OBVIOUS
<1>0. BaseInv' /\ at \in [Threads -> Places]
  BY BaseNext DEF RecordsInv, BaseInv, TypeOK
<1>1. CASE Initialize
  <2>1. UNCHANGED <<progVars, tracerVars, graph>>
    BY <1>1 DEF Initialize, SccNext, TopSortCall, TopSortReturn, TopSortEnd,
                ServeQueue, AssignCall, AssignReturn, FindSCCEnd
  <2>2. RecordFacts'
    BY <2>1, QuietStep DEF RecordsInv, progVars, tracerVars, hookVars, threadVars
  <2> QED
    BY <1>0, <2>2 DEF RecordsInv
<1>2. ASSUME NEW t \in Threads, ThreadStep(t) \/ CancelThread(t)
      PROVE  RecordsInv'
  <2>1. CASE PlainCall(t) \/ LockReturns(t) \/ UnlockReturns(t)
    BY <1>0, <2>1, CallStep DEF RecordsInv
  <2>2. CASE ThreadLock(t)
    BY <1>0, <2>2, ThreadLockStep DEF RecordsInv
  <2>3. CASE ThreadUnlock(t)
    BY <1>0, <2>3, ThreadUnlockStep DEF RecordsInv
  <2>4. CASE AssertFails(t)
    BY <1>0, <2>4, AssertStep DEF RecordsInv
  <2>5. CASE CancelThread(t)
    <3>1. UNCHANGED <<prog, ip, owner, count, nested, misuse, sccVars, tracerVars>>
      BY <2>5 DEF CancelThread, Cancel
    <3>2. RecordFacts'
      BY <3>1, QuietStep DEF RecordsInv, sccVars, tracerVars, hookVars, threadVars
    <3> QED
      BY <1>0, <3>2 DEF RecordsInv
  <2>6. CASE \/ BeforeLock(t) \/ CheckSCC(t) \/ WakeUp(t) \/ EndBeforeLock(t)
            \/ AfterLock(t) \/ BeforeUnlock(t)
    <3>1. /\ UNCHANGED <<progVars, graph, locks, lockThreadMap, aborted>>
          /\ RAOG' = RAOG \/ RAOG' = GetNode(RAOG, Call(t).m)
      BY <2>6 DEF BeforeLock, CheckSCC, WakeUp, EndBeforeLock, AfterLock,
                  BeforeUnlock, sccVars, threadVars
    <3>2. RAOG'.edges = RAOG.edges
      BY <3>1 DEF GetNode, RecordsInv, BaseInv, TypeOK, GraphType
    <3>3. PICK p \in {"checkSCC", "usleep", "endBefore", "pthread_lock", "lock",
                      "pthread_unlock"} :
            /\ at' = [at EXCEPT ![t] = p]
            /\ at[t] \in {"program", "checkSCC", "usleep", "endBefore", "afterLock"}
            /\ p = "lock" <=> at[t] = "afterLock"
      <4>1. CASE CheckSCC(t)
        BY <4>1 DEF CheckSCC, Goto
      <4>2. CASE ~CheckSCC(t)
        BY <2>6, <4>2 DEF BeforeLock, WakeUp, EndBeforeLock, AfterLock,
                          BeforeUnlock, HookedCall, TakeBigLock, Goto
      <4> QED
        BY <4>1, <4>2
    <3>4. \A u \in Threads :
            /\ at'[u] \in {"afterLock", "lock"} <=> at[u] \in {"afterLock", "lock"}
            /\ at'[u] = "afterUnlock" <=> at[u] = "afterUnlock"
      BY <1>0, <3>3
    <3>5. RecordFacts'
      BY <3>1, <3>2, <3>4, QuietStep DEF RecordsInv, progVars
    <3> QED
      BY <1>0, <3>5 DEF RecordsInv
  <2> QED
    BY <1>2, <2>1, <2>2, <2>3, <2>4, <2>5, <2>6 DEF ThreadStep
<1>3. CASE UNCHANGED vars
  <2>1. RecordFacts'
    BY <1>3, QuietStep DEF RecordsInv, vars, progVars, sccVars, tracerVars, hookVars,
                           threadVars
  <2> QED
    BY <1>0, <2>1 DEF RecordsInv
<1> QED
  BY <1>1, <1>2, <1>3 DEF Next
-----------------------------------------------------------------------------
(* The invariant of the records holds in every reachable state.            *)
THEOREM RecordsInvariance == Spec => []RecordsInv
<1>1. Init => RecordsInv
  BY RecordsInit
<1>2. RecordsInv /\ [Next]_vars => RecordsInv'
  BY RecordsNext
<1> QED
  BY <1>1, <1>2, PTL DEF Spec

(* Thread::locks agrees with the real mutexes, recursive ones included,    *)
(* for every program that unlocks only what it holds.                      *)
THEOREM RecordsExactCorrect == Spec => []RecordsExact
<1>1. RecordsInv => RecordsExact
  BY DEF RecordsInv, RecordFacts
<1> QED
  BY <1>1, RecordsInvariance, PTL

(* lockThreadMap names the one recorded holder of a default mutex: the     *)
(* after-hooks of the old and the new owner cannot overtake each other,    *)
(* because beforeUnlock takes tracerBigLock ahead of the real unlock.      *)
THEOREM OneRecordedHolderCorrect == Spec => []OneRecordedHolder
<1>1. RecordsInv => OneRecordedHolder
  BY DEF RecordsInv, RecordFacts
<1> QED
  BY <1>1, RecordsInvariance, PTL

(* Every edge the tracer adds to RAOG is a nesting that happened.          *)
THEOREM RaogSoundCorrect == Spec => []RaogSound
<1>1. RecordsInv => RaogSound
  BY DEF RecordsInv, RecordFacts
<1> QED
  BY <1>1, RecordsInvariance, PTL

(* Every nesting that happened is an edge of RAOG, or about to be one.     *)
THEOREM RaogCompleteCorrect == Spec => []RaogComplete
<1>1. RecordsInv => RaogComplete
  BY DEF RecordsInv, RecordFacts
<1> QED
  BY <1>1, RecordsInvariance, PTL

(* The assert of Thread::unlock cannot end a program whose threads unlock  *)
(* only what they hold and whose mutexes are all hooked.                   *)
THEOREM AbortOnlyOnMisuseCorrect == Spec => []AbortOnlyOnMisuse
<1>1. RecordsInv => AbortOnlyOnMisuse
  BY DEF RecordsInv, RecordFacts
<1> QED
  BY <1>1, RecordsInvariance, PTL
=============================================================================
