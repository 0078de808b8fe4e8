------------------------- MODULE LocationIndexProofs -------------------------
(***************************************************************************)
(* The numbering of the source locations, proved for any set of locations  *)
(* and of compilations.                                                    *)
(***************************************************************************)
EXTENDS LocationIndex, FiniteSetTheorems, WellFoundedInduction, TLAPS

(* The first line with a blank is one of the file, in front of all others.  *)
LEMMA FirstBrokenIsFirst ==
    ASSUME NEW f, DOMAIN f \subseteq Keys, Broken(f) # {}
    PROVE  /\ FirstBroken(f) \in Broken(f)
           /\ \A k \in Broken(f) : FirstBroken(f) <= k
<1>1. Broken(f) \subseteq Nat
  BY LocationsAssumption DEF Broken
<1> DEFINE Less == {ss \in Nat \X Nat : ss[1] < ss[2]}
<1>2. IsWellFoundedOn(Less, Nat)
  BY NatLessThanWellFounded DEF OpToRel
<1>3. PICK l \in Broken(f) : \A k \in Broken(f) : ~ (<<k, l>> \in Less)
  <2> HIDE DEF Less
  <2> QED
    BY <1>1, <1>2, WFMin
<1>4. \A k \in Broken(f) : l <= k
  <2> SUFFICES ASSUME NEW k \in Broken(f), ~ (l <= k) PROVE FALSE
    OBVIOUS
  <2>1. k \in Nat /\ l \in Nat
    BY <1>1
  <2>2. k < l
    BY <2>1
  <2>3. <<k, l>> \in Less
    BY <2>1, <2>2
  <2> QED
    BY <1>3, <2>3
<1> QED
  BY <1>4 DEF FirstBroken

(* Adding a location to a map gives a map.                                  *)
LEMMA ExtendIsMap ==
    ASSUME NEW f, IsMap(f), NEW l \in Keys, NEW n \in Nat
    PROVE  /\ IsMap(Extend(f, l, n))
           /\ DOMAIN Extend(f, l, n) = DOMAIN f \cup {l}
           /\ Extend(f, l, n)[l] = n
           /\ \A k \in DOMAIN f : k # l => Extend(f, l, n)[k] = f[k]
<1>1. IsFiniteSet(DOMAIN f \cup {l})
  BY FS_AddElement DEF IsMap
<1> QED
  BY <1>1 DEF IsMap, Extend

(* What is read is a map, and the number of its lines is a number.          *)
LEMMA ReadIsMap ==
    ASSUME NEW f, IsMap(f)
    PROVE  IsMap(ReadMap(f)) /\ Lines(f) \in Nat
<1>1. CASE Broken(f) = {}
  BY <1>1, FS_CardinalityType DEF ReadMap, Lines, IsMap
<1>2. CASE Broken(f) # {}
  <2> DEFINE b == FirstBroken(f)
             before == {l \in DOMAIN f : l < b}
             g == [l \in before |-> f[l]]
  <2>1. b \in Blank
    BY <1>2, FirstBrokenIsFirst DEF IsMap, Broken
  <2>2. Word(b) \in Keys
    BY <2>1 DEF Keys
  <2>3. IsFiniteSet(before) /\ Cardinality(before) \in Nat
    BY FS_Subset, FS_CardinalityType DEF IsMap
  <2>4. IsMap(g)
    BY <2>3 DEF IsMap
  <2>5. IsMap(Extend(g, Word(b), 0))
    BY <2>2, <2>4, ExtendIsMap
  <2> QED
    BY <1>2, <2>3, <2>5 DEF ReadMap, Lines
<1> QED
  BY <1>1, <1>2

(* The map and the next index of a pass after a call of getLocationIndex.   *)
LEMMA NumberedIsMap ==
    ASSUME TypeOK, NEW p \in Passes, NEW l \in Locations
    PROVE  /\ IsMap(Numbered(p, l))
           /\ l \in DOMAIN Numbered(p, l)
           /\ Numbered(p, l)[l] \in Nat
<1>1. IsMap(locIndex[p]) /\ locNum[p] \in Nat /\ l \in Keys
  BY DEF TypeOK, Keys
<1>2. CASE l \in DOMAIN locIndex[p]
  BY <1>1, <1>2 DEF Numbered, IsMap
<1>3. CASE l \notin DOMAIN locIndex[p]
  <2> DEFINE g == Extend(locIndex[p], l, locNum[p])
  <2>1. IsMap(g) /\ DOMAIN g = DOMAIN locIndex[p] \cup {l} /\ g[l] = locNum[p]
    BY <1>1, ExtendIsMap
  <2>2. Numbered(p, l) = g
    BY <1>3 DEF Numbered
  <2> HIDE DEF g
  <2> QED
    BY <1>1, <2>1, <2>2
<1> QED
  BY <1>2, <1>3

LEMMA NothingIsMap == IsMap(Nothing) /\ DOMAIN Nothing = {}
BY FS_EmptySet DEF IsMap, Nothing

LEMMA TypeStep == TypeOK /\ [Next]_vars => TypeOK'
<1> SUFFICES ASSUME TypeOK, [Next]_vars PROVE TypeOK'
  OBVIOUS
<1>1. CASE UNCHANGED vars
  BY <1>1 DEF vars, TypeOK
<1>2. ASSUME NEW p \in Passes, StartPass(p) PROVE TypeOK'
  <2>1. IsMap(ReadMap(file)) /\ Lines(file) \in Nat
    BY ReadIsMap DEF TypeOK
  <2> QED
    BY <1>2, <2>1 DEF StartPass, TypeOK
<1>3. ASSUME NEW p \in Passes, EndPass(p) PROVE TypeOK'
  <2>1. IsMap(file')
    BY <1>3 DEF EndPass, TypeOK
  <2> QED
    BY <1>3, <2>1, NothingIsMap DEF EndPass, TypeOK
<1>4. ASSUME NEW p \in Passes, NEW l \in Locations, GetLocationIndex(p, l) PROVE TypeOK'
  <2>1. IsMap(Numbered(p, l)) /\ Numbered(p, l)[l] \in Nat
    BY NumberedIsMap
  <2>2. \A q \in Passes : IsMap(locIndex'[q])
    BY <1>4, <2>1 DEF GetLocationIndex, TypeOK
  <2>3. locNum' \in [Passes -> Nat] /\ DOMAIN locIndex' = Passes
    BY <1>4 DEF GetLocationIndex, TypeOK
  <2>4. built' \subseteq Locations \X Nat
    BY <1>4, <2>1 DEF GetLocationIndex, TypeOK
  <2> QED
    BY <1>4, <2>2, <2>3, <2>4 DEF GetLocationIndex, TypeOK
<1> QED
  BY <1>1, <1>2, <1>3, <1>4 DEF Next

LEMMA TypeInit == Init => TypeOK
<1> SUFFICES ASSUME Init PROVE TypeOK
  OBVIOUS
<1>1. IsMap(file) /\ on \subseteq Passes
  BY NothingIsMap DEF Init
<1>2. DOMAIN locIndex = Passes /\ \A p \in Passes : locIndex[p] = Nothing
  BY DEF Init
<1>3. locNum \in [Passes -> Nat] /\ built \subseteq Locations \X Nat
  BY DEF Init
<1>4. overlapped \in BOOLEAN
  BY DEF Init
<1> QED
  BY <1>1, <1>2, <1>3, <1>4, NothingIsMap DEF TypeOK

(* The state of the passes and of the file has its type.                    *)
THEOREM TypeCorrect == Spec => []TypeOK
BY TypeInit, TypeStep, PTL DEF Spec
-----------------------------------------------------------------------------
(* As long as no location has a blank, the file and the map of every pass   *)
(* number such locations only, densely, and the next index of a pass is the *)
(* number of its locations.                                                 *)
IsPlain(f) == DOMAIN f \subseteq Locations \ Blank /\ IsDense(f)
Dense == /\ IsPlain(file)
         /\ \A p \in on : /\ IsPlain(locIndex[p])
                          /\ locNum[p] = Cardinality(DOMAIN locIndex[p])

(* Every hook has the index that the map f gives to its location.           *)
Holds(f) == \A x \in built : x[1] \in DOMAIN f /\ f[x[1]] = x[2]

(* As long as passes do not overlap, the one that is on, or else the file,  *)
(* has the index of every hook compiled so far.                             *)
Kept == /\ \A p, q \in on : p = q
        /\ \A p \in on : Holds(locIndex[p])
        /\ on = {} => Holds(file)

IInv == /\ TypeOK
        /\ NoBlank => Dense
        /\ Clean => Kept

(* A map without a blank is read as it was written.                         *)
LEMMA PlainIsRead ==
    ASSUME NEW f, IsPlain(f)
    PROVE  ReadMap(f) = f /\ Lines(f) = Cardinality(DOMAIN f)
<1>1. Broken(f) = {}
  BY DEF Broken, IsPlain
<1> QED
  BY <1>1 DEF ReadMap, Lines

(* A dense map stays dense when a new location gets the number of its       *)
(* locations as its index.                                                  *)
LEMMA ExtendIsPlain ==
    ASSUME NEW f, IsMap(f), IsPlain(f), NEW l \in Locations \ Blank, l \notin DOMAIN f
    PROVE  LET g == Extend(f, l, Cardinality(DOMAIN f))
           IN  IsPlain(g) /\ Cardinality(DOMAIN g) = Cardinality(DOMAIN f) + 1
<1> DEFINE n == Cardinality(DOMAIN f)
           g == Extend(f, l, n)
<1>1. n \in Nat
  BY FS_CardinalityType DEF IsMap
<1>2. l \in Keys
  BY DEF Keys
<1>3. /\ DOMAIN g = DOMAIN f \cup {l} /\ g[l] = n
      /\ \A k \in DOMAIN f : k # l => g[k] = f[k]
  BY DEF Extend
<1>4. Cardinality(DOMAIN f \cup {l}) = n + 1
  BY FS_AddElement DEF IsMap
<1>5. \A k \in DOMAIN f : f[k] \in 0 .. n - 1
  BY DEF IsPlain, IsDense
<1>6. \A j, k \in DOMAIN f : f[j] = f[k] => j = k
  BY DEF IsPlain, IsDense
<1> HIDE DEF n, g
<1>7. \A k \in DOMAIN g : g[k] \in 0 .. n
  BY <1>1, <1>3, <1>5
<1>8. \A j, k \in DOMAIN g : g[j] = g[k] => j = k
  BY <1>1, <1>3, <1>5, <1>6
<1>9. DOMAIN g \subseteq Locations \ Blank
  BY <1>3 DEF IsPlain
<1>10. Cardinality(DOMAIN g) = n + 1
  BY <1>3, <1>4
<1>11. Cardinality(DOMAIN g) - 1 = n
  BY <1>1, <1>10
<1>12. IsPlain(g)
  BY <1>7, <1>8, <1>9, <1>11 DEF IsPlain, IsDense
<1> QED
  BY <1>10, <1>12 DEF g, n

(* A call of getLocationIndex for a location without a blank.               *)
LEMMA NumberedIsPlain ==
    ASSUME TypeOK, NEW p \in Passes, NEW l \in Locations \ Blank,
           IsPlain(locIndex[p]), locNum[p] = Cardinality(DOMAIN locIndex[p])
    PROVE  /\ IsPlain(Numbered(p, l))
           /\ Cardinality(DOMAIN Numbered(p, l)) =
                IF l \in DOMAIN locIndex[p] THEN locNum[p] ELSE locNum[p] + 1
           /\ l \in DOMAIN Numbered(p, l)
           /\ \A k \in DOMAIN locIndex[p] :
                k \in DOMAIN Numbered(p, l) /\ Numbered(p, l)[k] = locIndex[p][k]
<1>1. CASE l \in DOMAIN locIndex[p]
  BY <1>1 DEF Numbered
<1>2. CASE l \notin DOMAIN locIndex[p]
  <2> DEFINE g == Extend(locIndex[p], l, locNum[p])
  <2>1. IsMap(locIndex[p]) /\ locNum[p] \in Nat /\ l \in Keys
    BY DEF TypeOK, Keys
  <2>2. IsPlain(g) /\ Cardinality(DOMAIN g) = locNum[p] + 1
    BY <1>2, <2>1, ExtendIsPlain
  <2>3. /\ DOMAIN g = DOMAIN locIndex[p] \cup {l}
        /\ \A k \in DOMAIN locIndex[p] : k # l => g[k] = locIndex[p][k]
    BY <2>1, ExtendIsMap
  <2>4. Numbered(p, l) = g
    BY <1>2 DEF Numbered
  <2> HIDE DEF g
  <2> QED
    BY <1>2, <2>2, <2>3, <2>4
<1> QED
  BY <1>1, <1>2
-----------------------------------------------------------------------------
LEMMA IInvInit == Init => IInv
<1> SUFFICES ASSUME Init PROVE IInv
  OBVIOUS
<1>1. TypeOK
  BY TypeInit
<1>2. IsPlain(file)
  BY NothingIsMap DEF Init, IsPlain, IsDense
<1>3. on = {} /\ built = {}
  BY DEF Init
<1>4. Dense /\ Kept
  BY <1>2, <1>3 DEF Dense, Kept, Holds
<1> QED
  BY <1>1, <1>4 DEF IInv

LEMMA DenseStep ==
    ASSUME IInv, [Next]_vars, NoBlank'
    PROVE  Dense'
<1>1. TypeOK
  BY DEF IInv
<1>2. built \subseteq built'
  BY DEF Next, vars, StartPass, EndPass, GetLocationIndex
<1>3. NoBlank /\ Dense
  BY <1>2 DEF NoBlank, IInv
<1>4. CASE UNCHANGED vars
  BY <1>3, <1>4 DEF vars, Dense
<1>5. ASSUME NEW p \in Passes, StartPass(p) PROVE Dense'
  <2>1. ReadMap(file) = file /\ Lines(file) = Cardinality(DOMAIN file)
    BY <1>3, PlainIsRead DEF Dense
  <2>2. /\ on' = on \cup {p} /\ file' = file
        /\ locIndex' = [locIndex EXCEPT ![p] = file]
        /\ locNum' = [locNum EXCEPT ![p] = Cardinality(DOMAIN file)]
    BY <1>5, <2>1 DEF StartPass
  <2>3. ASSUME NEW q \in on'
        PROVE  IsPlain(locIndex'[q]) /\ locNum'[q] = Cardinality(DOMAIN (locIndex'[q]))
    <3>1. CASE q = p
      BY <1>1, <1>3, <2>2, <3>1 DEF TypeOK, Dense
    <3>2. CASE q # p
      BY <1>1, <1>3, <2>2, <3>2 DEF TypeOK, Dense
    <3> QED
      BY <3>1, <3>2
  <2> QED
    BY <1>3, <2>2, <2>3 DEF Dense
<1>6. ASSUME NEW p \in Passes, EndPass(p) PROVE Dense'
  <2>1. IsPlain(file')
    BY <1>3, <1>6 DEF EndPass, Dense
  <2>2. ASSUME NEW q \in on'
        PROVE  IsPlain(locIndex'[q]) /\ locNum'[q] = Cardinality(DOMAIN (locIndex'[q]))
    <3>1. q \in on /\ q \in Passes /\ locIndex'[q] = locIndex[q] /\ locNum'[q] = locNum[q]
      BY <1>1, <1>6, <2>2 DEF EndPass, TypeOK
    <3> QED
      BY <1>3, <3>1 DEF Dense
  <2> QED
    BY <2>1, <2>2 DEF Dense
<1>7. ASSUME NEW p \in Passes, NEW l \in Locations, GetLocationIndex(p, l) PROVE Dense'
  <2>1. l \in Locations \ Blank
    <3>1. <<l, Numbered(p, l)[l]>> \in built'
      BY <1>7 DEF GetLocationIndex
    <3> QED
      BY <3>1 DEF NoBlank
  <2>2. /\ IsPlain(Numbered(p, l))
        /\ Cardinality(DOMAIN Numbered(p, l)) =
             IF l \in DOMAIN locIndex[p] THEN locNum[p] ELSE locNum[p] + 1
    BY <1>1, <1>3, <1>7, <2>1, NumberedIsPlain DEF GetLocationIndex, Dense
  <2>3. /\ on' = on /\ file' = file
        /\ locIndex' = [locIndex EXCEPT ![p] = Numbered(p, l)]
        /\ locNum'[p] = IF l \in DOMAIN locIndex[p] THEN locNum[p] ELSE locNum[p] + 1
        /\ \A q \in Passes : q # p => locNum'[q] = locNum[q]
    BY <1>1, <1>7 DEF GetLocationIndex, TypeOK
  <2>4. ASSUME NEW q \in on'
        PROVE  IsPlain(locIndex'[q]) /\ locNum'[q] = Cardinality(DOMAIN (locIndex'[q]))
    <3>1. CASE q = p
      <4>1. locIndex'[q] = Numbered(p, l)
        BY <1>1, <2>3, <3>1 DEF TypeOK
      <4> QED
        BY <2>2, <2>3, <3>1, <4>1
    <3>2. CASE q # p
      <4>1. q \in on /\ locIndex'[q] = locIndex[q] /\ locNum'[q] = locNum[q]
        BY <1>1, <2>3, <3>2 DEF TypeOK
      <4> QED
        BY <1>3, <4>1 DEF Dense
    <3> QED
      BY <3>1, <3>2
  <2> QED
    BY <1>3, <2>3, <2>4 DEF Dense
<1> QED
  BY <1>4, <1>5, <1>6, <1>7 DEF Next

LEMMA KeptStep ==
    ASSUME IInv, [Next]_vars, Clean'
    PROVE  Kept'
<1>1. TypeOK
  BY DEF IInv
<1>2. built \subseteq built' /\ ~ overlapped
  <2>1. built \subseteq built'
    BY DEF Next, vars, StartPass, EndPass, GetLocationIndex
  <2>2. overlapped' = overlapped \/ overlapped' = (overlapped \/ on # {})
    BY DEF Next, vars, StartPass, EndPass, GetLocationIndex
  <2> QED
    BY <1>1, <2>1, <2>2 DEF Clean, TypeOK
<1>3. NoBlank /\ Clean /\ Dense /\ Kept
  BY <1>2 DEF NoBlank, Clean, IInv
<1>4. CASE UNCHANGED vars
  BY <1>3, <1>4 DEF vars, Kept, Holds
<1>5. ASSUME NEW p \in Passes, StartPass(p) PROVE Kept'
  <2>1. ReadMap(file) = file
    BY <1>3, PlainIsRead DEF Dense
  <2>2. on = {} /\ on' = {p} /\ built' = built
    BY <1>5 DEF StartPass, Clean
  <2>3. locIndex'[p] = file
    BY <1>1, <1>5, <2>1 DEF StartPass, TypeOK
  <2> QED
    BY <1>3, <2>2, <2>3 DEF Kept, Holds
<1>6. ASSUME NEW p \in Passes, EndPass(p) PROVE Kept'
  <2>1. on = {p} /\ on' = {} /\ built' = built /\ Holds(locIndex[p])
    BY <1>3, <1>6 DEF EndPass, Kept
  <2>2. CASE file' = locIndex[p]
    BY <2>1, <2>2 DEF Kept, Holds
  <2>3. CASE p \in LockPasses /\ locNum[p] = 0
    <3>1. DOMAIN locIndex[p] = {}
      BY <1>1, <1>3, <2>1, <2>3, FS_EmptySet DEF Dense, TypeOK, IsMap
    <3>2. built = {}
      BY <2>1, <3>1 DEF Holds
    <3> QED
      BY <2>1, <3>2 DEF Kept, Holds
  <2> QED
    BY <1>6, <2>2, <2>3 DEF EndPass
<1>7. ASSUME NEW p \in Passes, NEW l \in Locations, GetLocationIndex(p, l) PROVE Kept'
  <2>1. <<l, Numbered(p, l)[l]>> \in built'
    BY <1>7 DEF GetLocationIndex
  <2>2. l \in Locations \ Blank
    BY <2>1 DEF Clean, NoBlank
  <2>3. /\ l \in DOMAIN Numbered(p, l)
        /\ \A k \in DOMAIN locIndex[p] :
             k \in DOMAIN Numbered(p, l) /\ Numbered(p, l)[k] = locIndex[p][k]
    BY <1>1, <1>3, <1>7, <2>2, NumberedIsPlain DEF GetLocationIndex, Dense
  <2>4. on = {p} /\ on' = {p} /\ Holds(locIndex[p])
    BY <1>3, <1>7 DEF GetLocationIndex, Kept
  <2>5. locIndex'[p] = Numbered(p, l) /\ built' = built \cup {<<l, Numbered(p, l)[l]>>}
    BY <1>1, <1>7 DEF GetLocationIndex, TypeOK
  <2>6. \A x \in built' : x[1] \in DOMAIN Numbered(p, l) /\ Numbered(p, l)[x[1]] = x[2]
    BY <2>3, <2>4, <2>5 DEF Holds
  <2> QED
    BY <2>4, <2>5, <2>6 DEF Kept, Holds
<1> QED
  BY <1>4, <1>5, <1>6, <1>7 DEF Next

LEMMA IInvStep == IInv /\ [Next]_vars => IInv'
<1> SUFFICES ASSUME IInv, [Next]_vars PROVE IInv'
  OBVIOUS
<1>1. TypeOK'
  BY TypeStep DEF IInv
<1>2. NoBlank' => Dense'
  BY DenseStep
<1>3. Clean' => Kept'
  BY KeptStep
<1> QED
  BY <1>1, <1>2, <1>3 DEF IInv

LEMMA IInvAlways == Spec => []IInv
BY IInvInit, IInvStep, PTL DEF Spec
-----------------------------------------------------------------------------
(* However passes overlap, the file stays dense (the count of lines read is *)
(* a free index) unless a file name has a blank.                            *)
THEOREM FileStaysDense == Spec => []FileDense
<1>1. IInv => FileDense
  BY DEF IInv, Dense, IsPlain, FileDense
<1> QED
  BY <1>1, IInvAlways, PTL

LEMMA OneMapOneIndex ==
    ASSUME NEW f, IsPlain(f), Holds(f)
    PROVE  \A x, y \in built : x[1] = y[1] <=> x[2] = y[2]
BY DEF Holds, IsPlain, IsDense

(* Passes that do not overlap give an index to one location, and a location *)
(* one index.                                                               *)
THEOREM IndicesAreUnique == Spec => []IndicesUnique
<1>1. ASSUME IInv, Clean PROVE \A x, y \in built : x[1] = y[1] <=> x[2] = y[2]
  <2>1. Dense /\ Kept
    BY <1>1 DEF IInv, Clean
  <2>2. CASE on = {}
    BY <2>1, <2>2, OneMapOneIndex DEF Dense, Kept
  <2>3. CASE on # {}
    <3>1. PICK p \in on : TRUE
      BY <2>3
    <3>2. IsPlain(locIndex[p]) /\ Holds(locIndex[p])
      BY <2>1, <3>1 DEF Dense, Kept
    <3> QED
      BY <3>2, OneMapOneIndex
  <2> QED
    BY <2>2, <2>3
<1>2. IInv => IndicesUnique
  BY <1>1 DEF IndicesUnique
<1> QED
  BY <1>2, IInvAlways, PTL

(* Between compilations the runtime names the location of every hook.       *)
THEOREM NamesAreRight == Spec => []NamesRight
<1>1. ASSUME IInv, Clean, on = {}, NEW x \in built PROVE NamesOf(x[2]) = {x[1]}
  <2>1. IsPlain(file) /\ Holds(file)
    BY <1>1 DEF IInv, Clean, Dense, Kept
  <2>2. ReadMap(file) = file
    BY <2>1, PlainIsRead
  <2>3. x[1] \in DOMAIN file /\ file[x[1]] = x[2]
    BY <2>1 DEF Holds
  <2>4. \A k \in DOMAIN file : file[k] = x[2] => k = x[1]
    BY <2>1, <2>3 DEF IsPlain, IsDense
  <2> QED
    BY <2>2, <2>3, <2>4 DEF NamesOf
<1>2. IInv => NamesRight
  BY <1>1 DEF NamesRight
<1> QED
  BY <1>2, IInvAlways, PTL
=============================================================================
