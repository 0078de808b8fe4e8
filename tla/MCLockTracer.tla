---------------------------- MODULE MCLockTracer -----------------------------
(***************************************************************************)
(* Instances of LockTracer: three threads and three mutexes, of which the  *)
(* third is recursive, running programs shaped after evaluation/ubench and *)
(* the evaluated servers, with graphs an earlier run may have left.        *)
(***************************************************************************)
EXTENDS LockTracer

CONSTANTS t1, t2, t3

MCThreads == {t1, t2, t3}
MCLocks == 1..3

Script(call, m, hooked) == [call |-> call, m |-> m, hooked |-> hooked, onFail |-> 1]
L(m)  == Script("lock", m, TRUE)
U(m)  == Script("unlock", m, TRUE)
PL(m) == Script("lock", m, FALSE)
PU(m) == Script("unlock", m, FALSE)
Try(m, i) == [call |-> "trylock", m |-> m, hooked |-> FALSE, onFail |-> i]

Three(s1, s2, s3) == [t \in MCThreads |-> CASE t = t1 -> s1
                                            [] t = t2 -> s2
                                            [] t = t3 -> s3]
Two(s1, s2) == Three(s1, s2, <<>>)

(* three-lock-deadlock: every thread takes two mutexes of a ring.          *)
ThreeLockDeadlock ==
  LET Pair(a, b) == <<L(a), L(b), U(b), U(a)>>
  IN  Three(Pair(1, 2), Pair(2, 3), Pair(3, 1))

(* Two mutexes in opposite orders.                                         *)
TwoLockDeadlock == Two(<<L(1), L(2), U(2), U(1)>>, <<L(2), L(1), U(1), U(2)>>)

(* Three nested mutexes against a holder of the last two.                  *)
Nested == Two(<<L(1), L(2), L(3), U(3), U(2), U(1)>>, <<L(2), L(3), U(3), U(2)>>)

(* Hand over hand: the last mutex locked may be released before the next.  *)
HandOverHand == Two(<<L(1), L(2), U(2), L(3), U(3), U(1)>>,
                    <<L(1), L(2), U(1), L(3), U(2), U(3)>>)

(* A recursive mutex, with another one inside.                             *)
Reentrant == Two(<<L(3), L(3), L(1), U(1), U(3), U(3)>>, <<L(1), L(3), U(3), U(1)>>)

(* A thread unlocks a mutex that it does not hold.                         *)
ForeignUnlock == Two(<<L(1), U(2), U(1)>>, <<L(2), L(1), U(1), U(2)>>)
ForeignRecursive == Two(<<L(3), U(3)>>, <<U(3), L(3), U(3)>>)

(* pthread_cond_wait: the library releases and retakes the mutex.          *)
CondWait == Two(<<L(2), L(1), PU(1), PL(1), U(1), U(2)>>, <<L(1), U(1), L(3), U(3)>>)

(* A mutex that is taken by trylock and released by a hooked unlock.       *)
TryLock == Two(<<L(1), Try(2, 4), U(2), U(1)>>, <<L(2), L(3), U(3), U(2)>>)

Graph(E) == [nodes |-> UNION {{e[1], e[2]} : e \in E}, edges |-> E]
NoGraph    == Graph({})
OneOrder   == Graph({<<1, 2>>, <<2, 3>>, <<1, 3>>})
TwoCycle   == Graph({<<1, 2>>, <<2, 1>>})
CycleTail  == Graph({<<1, 3>>, <<3, 1>>, <<3, 3>>, <<1, 2>>})

WellBehaved == {ThreeLockDeadlock, TwoLockDeadlock, Nested, HandOverHand, Reentrant}
AllPrograms == WellBehaved \cup
  {ForeignUnlock, ForeignRecursive, CondWait, TryLock}
FairPrograms == WellBehaved \cup {CondWait}
CancelPrograms == {Two(<<L(1), U(1)>>, <<L(2), U(2)>>)}
TryPrograms == {TryLock}
MCGraphs == {NoGraph, OneOrder, TwoCycle, CycleTail}
=============================================================================
