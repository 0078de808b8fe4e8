----------------------------- MODULE LoopProofs ------------------------------
(***************************************************************************)
(* What a loop computes.  Facts about all numbers of passes are proved     *)
(* with the least number for which they fail.                              *)
(***************************************************************************)
EXTENDS Loops, FiniteSetTheorems, WellFoundedInduction, TLAPS

(* A set of numbers that is not empty has a least member.                   *)
LEMMA LeastNumber ==
    ASSUME NEW T, T \subseteq Nat, T # {}
    PROVE  \E l \in T : \A k \in T : l <= k
<1> DEFINE Less == {ss \in Nat \X Nat : ss[1] < ss[2]}
<1>1. IsWellFoundedOn(Less, Nat)
  BY NatLessThanWellFounded DEF OpToRel
<1>2. PICK l \in T : \A k \in T : ~ (<<k, l>> \in Less)
  <2> HIDE DEF Less
  <2> QED
    BY <1>1, WFMin
<1>3. \A k \in T : l <= k
  <2> SUFFICES ASSUME NEW k \in T, ~ (l <= k) PROVE FALSE
    OBVIOUS
  <2>1. k \in Nat /\ l \in Nat /\ k < l
    OBVIOUS
  <2>2. <<k, l>> \in Less
    BY <2>1
  <2> QED
    BY <1>2, <2>2
<1> QED
  BY <1>3

(* Induction, for a set of numbers.                                         *)
LEMMA Inductive ==
    ASSUME NEW T, 0 \in T, \A n \in Nat : n \in T => n + 1 \in T
    PROVE  \A n \in Nat : n \in T
<1> SUFFICES ASSUME NEW n \in Nat, n \notin T PROVE FALSE
  OBVIOUS
<1> DEFINE Bad == {k \in Nat : k \notin T}
<1>1. PICK l \in Bad : \A k \in Bad : l <= k
  <2>1. Bad \subseteq Nat /\ Bad # {}
    OBVIOUS
  <2> HIDE DEF Bad
  <2> QED
    BY <2>1, LeastNumber
<1>2. l # 0 /\ l \in Nat
  OBVIOUS
<1>3. l - 1 \in Nat /\ l - 1 \in T
  BY <1>1, <1>2
<1>4. l = (l - 1) + 1
  BY <1>2
<1> QED
  BY <1>3, <1>4
-----------------------------------------------------------------------------
(* A loop is well defined: no pass leaves the state alone, one pass more    *)
(* applies the body once more.                                              *)
LEMMA RepeatLoop ==
    ASSUME NEW S, NEW body \in [S -> S], NEW s \in S
    PROVE  /\ Repeat(body, s, 0) = s
           /\ \A k \in Nat : /\ Repeat(body, s, k) \in S
                             /\ Repeat(body, s, k + 1) = body[Repeat(body, s, k)]
<1> DEFINE Runs(n) == {h \in [0 .. n -> S] :
                          h[0] = s /\ \A k \in 1 .. n : h[k] = body[h[k - 1]]}
<1>1. \A n \in Nat : Runs(n) # {}
  <2> DEFINE T == {n \in Nat : Runs(n) # {}}
  <2>1. 0 \in T
    <3>1. [k \in 0 .. 0 |-> s] \in Runs(0)
      OBVIOUS
    <3> QED
      BY <3>1
  <2>2. ASSUME NEW n \in Nat, n \in T PROVE n + 1 \in T
    <3>1. PICK h \in Runs(n) : TRUE
      BY <2>2
    <3> DEFINE g == [k \in 0 .. (n + 1) |-> IF k = n + 1 THEN body[h[n]] ELSE h[k]]
    <3>2. g \in [0 .. (n + 1) -> S]
      OBVIOUS
    <3>3. g[0] = s
      OBVIOUS
    <3>4. ASSUME NEW k \in 1 .. (n + 1) PROVE g[k] = body[g[k - 1]]
      <4>1. k - 1 \in 0 .. n /\ g[k - 1] = h[k - 1]
        OBVIOUS
      <4>2. CASE k = n + 1
        <5>1. g[k] = body[h[n]] /\ k - 1 = n
          BY <4>2
        <5> QED
          BY <4>1, <5>1
      <4>3. CASE k # n + 1
        <5>1. k \in 1 .. n /\ g[k] = h[k]
          BY <4>3
        <5> QED
          BY <4>1, <5>1
      <4> QED
        BY <4>2, <4>3
    <3> HIDE DEF g
    <3>5. g \in Runs(n + 1)
      BY <3>2, <3>3, <3>4
    <3> QED
      BY <3>5
  <2> HIDE DEF T
  <2>3. \A n \in Nat : n \in T
    BY <2>1, <2>2, Inductive
  <2> QED
    BY <2>3 DEF T
<1>2. ASSUME NEW n \in Nat, NEW m \in Nat, n <= m, NEW g \in Runs(n), NEW h \in Runs(m)
      PROVE  g[n] = h[n]
  <2> DEFINE T == {k \in Nat : k <= n => g[k] = h[k]}
  <2>1. 0 \in T
    OBVIOUS
  <2>2. ASSUME NEW k \in Nat, k \in T PROVE k + 1 \in T
    <3> SUFFICES ASSUME k + 1 <= n PROVE g[k + 1] = h[k + 1]
      OBVIOUS
    <3>1. k + 1 \in 1 .. n /\ k + 1 \in 1 .. m /\ (k + 1) - 1 = k /\ g[k] = h[k]
      BY <1>2, <2>2
    <3>2. g[k + 1] = body[g[(k + 1) - 1]] /\ h[k + 1] = body[h[(k + 1) - 1]]
      BY <3>1
    <3> QED
      BY <3>1, <3>2
  <2> HIDE DEF T
  <2>3. n \in T
    BY <2>1, <2>2, Inductive
  <2> QED
    BY <2>3 DEF T
<1> HIDE DEF Runs
<1> DEFINE g == [n \in Nat |-> (CHOOSE h \in Runs(n) : TRUE)[n]]
           after[j \in Nat] == IF j = 0 THEN s ELSE body[after[j - 1]]
<1>3. ASSUME NEW n \in Nat
      PROVE  \E h \in Runs(n) : g[n] = h[n]
  BY <1>1
<1>4. g[0] = s
  <2>1. PICK h \in Runs(0) : g[0] = h[0]
    BY <1>3
  <2> QED
    BY <2>1 DEF Runs
<1>5. ASSUME NEW n \in Nat PROVE g[n] \in S /\ g[n + 1] = body[g[n]]
  <2>1. PICK h \in Runs(n) : g[n] = h[n]
    BY <1>3
  <2>2. n + 1 \in Nat
    OBVIOUS
  <2>3. PICK hh \in Runs(n + 1) : g[n + 1] = hh[n + 1]
    BY <1>3, <2>2
  <2> HIDE DEF g
  <2>4. h[n] = hh[n]
    BY <1>2, <2>2
  <2>5. h[n] \in S
    BY DEF Runs
  <2>6. n + 1 \in 1 .. (n + 1) /\ (n + 1) - 1 = n
    OBVIOUS
  <2>7. hh[n + 1] = body[hh[(n + 1) - 1]]
    BY <2>6 DEF Runs
  <2> QED
    BY <2>1, <2>3, <2>4, <2>5, <2>6, <2>7
<1>6. g = [j \in Nat |-> IF j = 0 THEN s ELSE body[g[j - 1]]]
  <2>1. ASSUME NEW j \in Nat, j # 0 PROVE g[j] = body[g[j - 1]]
    <3>1. j - 1 \in Nat /\ (j - 1) + 1 = j
      BY <2>1
    <3> HIDE DEF g
    <3> QED
      BY <1>5, <3>1
  <2>2. DOMAIN g = Nat /\ g = [j \in Nat |-> g[j]]
    OBVIOUS
  <2> HIDE DEF g
  <2> QED
    BY <1>4, <2>1, <2>2
<1>7. after = [j \in Nat |-> IF j = 0 THEN s ELSE body[after[j - 1]]]
  <2> HIDE DEF g
  <2> QED
    BY <1>6
<1>8. \A k : Repeat(body, s, k) = after[k]
  BY DEF Repeat
<1> HIDE DEF after, g
<1>9. after[0] = s
  BY <1>7
<1>10. ASSUME NEW k \in Nat PROVE after[k + 1] = body[after[k]]
  <2>1. k + 1 \in Nat /\ k + 1 # 0 /\ (k + 1) - 1 = k
    OBVIOUS
  <2>2. after[k + 1] = body[after[(k + 1) - 1]]
    BY <1>7, <2>1
  <2> QED
    BY <2>1, <2>2
<1>11. \A k \in Nat : after[k] \in S
  <2> DEFINE T == {k \in Nat : after[k] \in S}
  <2>1. 0 \in T /\ \A n \in Nat : n \in T => n + 1 \in T
    BY <1>9, <1>10
  <2> HIDE DEF T
  <2>2. \A n \in Nat : n \in T
    BY <2>1, Inductive
  <2> QED
    BY <2>2 DEF T
<1> QED
  BY <1>8, <1>9, <1>10, <1>11

(* The invariant of a loop: T relates the number of passes and the state.   *)
LEMMA LoopInvariant ==
    ASSUME NEW S, NEW body \in [S -> S], NEW s \in S, NEW m \in Nat, NEW T,
           <<0, s>> \in T,
           \A k \in Nat, x \in S : k < m /\ <<k, x>> \in T => <<k + 1, body[x]>> \in T
    PROVE  \A k \in 0 .. m : <<k, Repeat(body, s, k)>> \in T
<1> DEFINE U == {k \in Nat : k <= m => <<k, Repeat(body, s, k)>> \in T}
<1>1. 0 \in U
  BY RepeatLoop
<1>2. ASSUME NEW k \in Nat, k \in U PROVE k + 1 \in U
  <2> SUFFICES ASSUME k + 1 <= m PROVE <<k + 1, Repeat(body, s, k + 1)>> \in T
    OBVIOUS
  <2>1. k < m /\ <<k, Repeat(body, s, k)>> \in T
    BY <1>2
  <2>2. Repeat(body, s, k) \in S /\ Repeat(body, s, k + 1) = body[Repeat(body, s, k)]
    BY RepeatLoop
  <2> QED
    BY <2>1, <2>2
<1> HIDE DEF U
<1>3. \A k \in Nat : k \in U
  BY <1>1, <1>2, Inductive
<1>4. \A k \in 0 .. m : k \in Nat /\ k <= m
  OBVIOUS
<1> QED
  BY <1>3, <1>4 DEF U
-----------------------------------------------------------------------------
(* A part of a finite set cannot grow for ever.                             *)
LEMMA LeastGrows ==
    ASSUME NEW U, IsFiniteSet(U), NEW step \in [SUBSET U -> SUBSET U],
           \A R \in SUBSET U : R \subseteq step[R],
           NEW base \in SUBSET U
    PROVE  \E n \in 0 .. Cardinality(U) : Repeat(step, base, n + 1) = Repeat(step, base, n)
<1> DEFINE N == Cardinality(U)
           A(n) == Repeat(step, base, n)
<1>1. A(0) = base /\ \A k \in Nat : A(k) \in SUBSET U /\ A(k + 1) = step[A(k)]
  BY RepeatLoop
<1>2. N \in Nat /\ \A R \in SUBSET U : /\ IsFiniteSet(R) /\ Cardinality(R) \in Nat
                                       /\ Cardinality(R) <= N
  BY FS_CardinalityType, FS_Subset
<1> HIDE DEF A, N
<1>3. \E n \in 0 .. N : A(n + 1) = A(n)
  <2> SUFFICES ASSUME \A n \in 0 .. N : A(n + 1) # A(n) PROVE FALSE
    OBVIOUS
  <2> DEFINE T == {n \in Nat : n <= N + 1 => Cardinality(A(n)) >= n}
  <2>1. 0 \in T
    BY <1>1, <1>2
  <2>2. ASSUME NEW n \in Nat, n \in T PROVE n + 1 \in T
    <3> SUFFICES ASSUME n + 1 <= N + 1 PROVE Cardinality(A(n + 1)) >= n + 1
      OBVIOUS
    <3>1. n \in 0 .. N /\ n <= N + 1
      BY <1>2
    <3>2. A(n) \in SUBSET U /\ A(n + 1) \in SUBSET U /\ A(n) \subseteq A(n + 1) /\ A(n + 1) # A(n)
      BY <1>1, <3>1
    <3>3. Cardinality(A(n)) <= Cardinality(A(n + 1)) /\ Cardinality(A(n)) # Cardinality(A(n + 1))
      BY <1>2, <3>2, FS_Subset
    <3>4. Cardinality(A(n)) >= n
      BY <2>2, <3>1
    <3> QED
      BY <1>2, <3>2, <3>3, <3>4
  <2> HIDE DEF T
  <2>3. N + 1 \in T
    BY <1>2, <2>1, <2>2, Inductive
  <2>4. Cardinality(A(N + 1)) >= N + 1
    BY <1>2, <2>3 DEF T
  <2> QED
    BY <1>1, <1>2, <2>4
<1> QED
  BY <1>3 DEF A, N

(* Growing a part of a finite set until nothing changes: the result is      *)
(* closed, and no closed set with the same base lacks a member of it.       *)
LEMMA LeastIsClosed ==
    ASSUME NEW U, IsFiniteSet(U), NEW step \in [SUBSET U -> SUBSET U],
           \A R \in SUBSET U : R \subseteq step[R],
           NEW base \in SUBSET U
    PROVE  /\ Least(step, base, Cardinality(U)) \in SUBSET U
           /\ base \subseteq Least(step, base, Cardinality(U))
           /\ step[Least(step, base, Cardinality(U))] = Least(step, base, Cardinality(U))
<1> DEFINE N == Cardinality(U)
           A(n) == Repeat(step, base, n)
<1>1. A(0) = base /\ \A k \in Nat : A(k) \in SUBSET U /\ A(k + 1) = step[A(k)]
  BY RepeatLoop
<1>2. N \in Nat
  BY FS_CardinalityType
<1> HIDE DEF A, N
<1>3. \E n \in 0 .. N : A(n + 1) = A(n)
  BY LeastGrows DEF A, N
<1>4. PICK n \in 0 .. N : Least(step, base, N) = A(n) /\ A(n + 1) = A(n)
  BY <1>3 DEF Least, A
<1>5. n \in Nat
  BY <1>2
<1>6. base \subseteq A(n)
  <2> DEFINE T == {k \in Nat : base \subseteq A(k)}
  <2>1. 0 \in T /\ \A k \in Nat : k \in T => k + 1 \in T
    BY <1>1
  <2> HIDE DEF T
  <2>2. n \in T
    BY <1>5, <2>1, Inductive
  <2> QED
    BY <2>2 DEF T
<1> QED
  BY <1>1, <1>4, <1>5, <1>6 DEF N

LEMMA LeastIsLeast ==
    ASSUME NEW U, IsFiniteSet(U), NEW step \in [SUBSET U -> SUBSET U],
           \A R \in SUBSET U : R \subseteq step[R],
           NEW base \in SUBSET U, NEW Q, base \subseteq Q,
           \A R \in SUBSET U : R \subseteq Q => step[R] \subseteq Q
    PROVE  Least(step, base, Cardinality(U)) \subseteq Q
<1> DEFINE A(n) == Repeat(step, base, n)
           T == {k \in Nat : A(k) \subseteq Q}
<1>1. A(0) = base /\ \A k \in Nat : A(k) \in SUBSET U /\ A(k + 1) = step[A(k)]
  BY RepeatLoop
<1> HIDE DEF A
<1>2. 0 \in T /\ \A k \in Nat : k \in T => k + 1 \in T
  BY <1>1
<1> HIDE DEF T
<1>3. \A k \in Nat : k \in T
  BY <1>2, Inductive
<1>4. \E n \in 0 .. Cardinality(U) : Repeat(step, base, n + 1) = Repeat(step, base, n)
  BY LeastGrows DEF A
<1>5. PICK n \in 0 .. Cardinality(U) : Least(step, base, Cardinality(U)) = A(n)
  BY <1>4 DEF Least, A
<1>6. n \in Nat
  BY FS_CardinalityType
<1> QED
  BY <1>3, <1>5, <1>6 DEF T
=============================================================================
