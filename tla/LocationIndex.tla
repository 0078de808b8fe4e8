---------------------------- MODULE LocationIndex ----------------------------
(***************************************************************************)
(* location-index-map.txt, in which the instrumentation passes             *)
(* (LockInstrumenter and MemInstrumenter) number the source locations of   *)
(* the hooks they insert, and which the runtime reads to name a location.  *)
(* Every compilation of a module runs a pass that reads the file, numbers  *)
(* the locations it meets and writes the file; compilations may overlap.   *)
(*                                                                         *)
(* A location stands for its text, file:line, and locations are ordered as *)
(* std::map orders the texts.  Word(l) is the part of the text of l up to  *)
(* its first blank.                                                        *)
(***************************************************************************)
EXTENDS Integers, FiniteSets

CONSTANTS Locations,   \* the locations of the program, as numbers
          Blank,       \* those with a blank in the name of their file
          LockPasses,  \* the runs of LockInstrumenter that can be on at a time
          MemPasses,   \* the same of MemInstrumenter
          Word(_)

ASSUME LocationsAssumption ==
    /\ Locations \subseteq Nat /\ Blank \subseteq Locations
    /\ \A l \in Blank : Word(l) \in Int \ Locations
    /\ LockPasses \cap MemPasses = {}

VARIABLES file,      \* the file: location -> index
          on,        \* the passes that run
          locIndex,  \* of a pass: location -> index
          locNum,    \* of a pass: the next index
          built,     \* <<location, index>> of every hook in a compiled module
          overlapped \* history: two passes were on at the same time

Passes == LockPasses \cup MemPasses
vars == <<file, on, locIndex, locNum, built, overlapped>>

Nothing == [l \in {} |-> 0]
Extend(f, l, n) == [k \in DOMAIN f \cup {l} |-> IF k = l THEN n ELSE f[k]]

Init ==
    /\ file = Nothing /\ on = {}
    /\ locIndex = [p \in Passes |-> Nothing]
    /\ locNum = [p \in Passes |-> 0]
    /\ built = {} /\ overlapped = FALSE

(* The lines in front of the first one with a blank are read.  Of that one  *)
(* the first word is taken for a location, and the number is not: reading   *)
(* it fails, which yields 0 and ends the loop.                              *)
Broken(f) == {l \in DOMAIN f : l \in Blank}
FirstBroken(f) == CHOOSE l \in Broken(f) : \A k \in Broken(f) : l <= k
ReadMap(f) ==
    IF Broken(f) = {} THEN f
    ELSE LET b == FirstBroken(f)
             before == {l \in DOMAIN f : l < b}
         IN  Extend([l \in before |-> f[l]], Word(b), 0)

(* How many lines were read.                                                *)
LinesOff(f) == Cardinality(DOMAIN f) - 1
Lines(f) == IF Broken(f) = {} THEN Cardinality(DOMAIN f)
            ELSE Cardinality({l \in DOMAIN f : l < FirstBroken(f)}) + 1

(* initLocationIndexMap.                                                    *)
StartPass(p) ==
    /\ p \notin on
    /\ on' = on \cup {p}
    /\ locIndex' = [locIndex EXCEPT ![p] = ReadMap(file)]
    /\ locNum' = [locNum EXCEPT ![p] = Lines(file)]
    /\ overlapped' = (overlapped \/ on # {})
    /\ UNCHANGED <<file, built>>

(* getLocationIndex for a hook at location l.                               *)
NumberedAgain(p, l) == Extend(locIndex[p], l, locNum[p])
Numbered(p, l) == IF l \in DOMAIN locIndex[p] THEN locIndex[p]
                  ELSE Extend(locIndex[p], l, locNum[p])

GetLocationIndex(p, l) ==
    /\ p \in on
    /\ locIndex' = [locIndex EXCEPT ![p] = Numbered(p, l)]
    /\ locNum' = [locNum EXCEPT ![p] = IF l \in DOMAIN locIndex[p] THEN @ ELSE @ + 1]
    /\ built' = built \cup {<<l, Numbered(p, l)[l]>>}
    /\ UNCHANGED <<file, on, overlapped>>

(* printLocationIndexMap writes the whole file, of the LockInstrumenter     *)
(* only if it has a location.                                               *)
EndPassNew(p) ==
    /\ p \in on
    /\ on' = on \ {p}
    /\ file' = [l \in DOMAIN locIndex[p] \ DOMAIN file |-> locIndex[p][l]]
    /\ locIndex' = [locIndex EXCEPT ![p] = Nothing]
    /\ locNum' = [locNum EXCEPT ![p] = 0]
    /\ UNCHANGED <<built, overlapped>>

EndPass(p) ==
    /\ p \in on
    /\ on' = on \ {p}
    /\ file' = IF p \in LockPasses /\ locNum[p] = 0 THEN file ELSE locIndex[p]
    /\ locIndex' = [locIndex EXCEPT ![p] = Nothing]
    /\ locNum' = [locNum EXCEPT ![p] = 0]
    /\ UNCHANGED <<built, overlapped>>

Next == \E p \in Passes : \/ StartPass(p) \/ EndPass(p)
                          \/ \E l \in Locations : GetLocationIndex(p, l)

Spec == Init /\ [][Next]_vars

(* initLocationStringMap of the runtime: index -> the locations it may name *)
NamesOf(n) == {l \in DOMAIN ReadMap(file) : ReadMap(file)[l] = n}
-----------------------------------------------------------------------------
Keys == Locations \cup {Word(l) : l \in Blank}

IsMap(f) == DOMAIN f \subseteq Keys /\ f \in [DOMAIN f -> Nat] /\ IsFiniteSet(DOMAIN f)

(* Type of the state.                                                       *)
TypeOK ==
    /\ IsMap(file)
    /\ on \subseteq Passes
    /\ DOMAIN locIndex = Passes /\ \A p \in Passes : IsMap(locIndex[p])
    /\ locNum \in [Passes -> Nat]
    /\ built \subseteq Locations \X Nat
    /\ overlapped \in BOOLEAN

(* No hook is in a file with a blank in its name.                           *)
NoBlank == \A x \in built : x[1] \notin Blank

(* The indices of a numbering are 0, 1, ... without a gap, each used once:  *)
(* what makes the number of lines read the next free index.                 *)
IsDense(f) == /\ \A l \in DOMAIN f : f[l] \in 0 .. Cardinality(DOMAIN f) - 1
              /\ \A k, l \in DOMAIN f : f[k] = f[l] => k = l

(* The file is dense, however passes overlap and overwrite each other's,    *)
(* unless a file name has a blank.                                          *)
FileDense == NoBlank => IsDense(file)

(* As long as passes do not overlap, two hooks have the same index only if  *)
(* they are at the same location, and a location keeps its index over all   *)
(* the modules compiled.                                                    *)
Clean == NoBlank /\ ~ overlapped
IndicesUnique == Clean => \A x, y \in built : x[1] = y[1] <=> x[2] = y[2]

(* Between compilations the runtime gives every hook its own location, and  *)
(* no other.                                                                *)
NamesRight == Clean /\ on = {} => \A x \in built : NamesOf(x[2]) = {x[1]}
=============================================================================
