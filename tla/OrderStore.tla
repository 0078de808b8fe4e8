----------------------------- MODULE OrderStore -----------------------------
(***************************************************************************)
(* What the runtime promises about the lock orders it keeps between runs   *)
(* of a program: a run starts from what is stored; a save stores all that  *)
(* the run knows, in one step; a run that is killed leaves the store as it *)
(* is, or, in the middle of a save, with a part of what it knew.  Only a   *)
(* save that other threads disturb by adding orders may store anything.    *)
(***************************************************************************)
CONSTANT Pairs

VARIABLES disk,     \* the stored orders
          known,    \* the orders the current run knows
          state,    \* "down", "up" or "saving"
          quiet     \* no order was added since the save began

vars == <<disk, known, state, quiet>>

Init == disk = {} /\ known = {} /\ state = "down" /\ quiet = TRUE

Start == state = "down" /\ state' = "up" /\ known' = disk /\ UNCHANGED <<disk, quiet>>

Learn == /\ state # "down"
         /\ known' \in {known} \cup {known \cup {e} : e \in Pairs}
         /\ quiet' = (quiet /\ state # "saving")
         /\ UNCHANGED <<disk, state>>

Begin == state = "up" /\ state' = "saving" /\ quiet' = TRUE /\ UNCHANGED <<disk, known>>

Save == /\ state = "saving" /\ state' = "up"
        /\ IF quiet THEN disk' = known ELSE disk' \in SUBSET Pairs
        /\ UNCHANGED <<known, quiet>>

Exit == /\ state = "up" /\ state' = "down"
        /\ known' = {} /\ quiet' = TRUE /\ UNCHANGED disk

Torn == /\ state = "saving" /\ state' = "down"
        /\ disk' \in SUBSET (IF quiet THEN known ELSE Pairs)
        /\ known' = {} /\ quiet' = TRUE

Delete == disk' = {} /\ known' = {} /\ state' = "down" /\ quiet' = TRUE

Next == Start \/ Learn \/ Begin \/ Save \/ Exit \/ Torn \/ Delete

Spec == Init /\ [][Next]_vars
=============================================================================
