------------------------------ MODULE Campaign ------------------------------
(***************************************************************************)
(* Runs of one instrumented program in one directory, started by the loop  *)
(* of test.sh or by hand, and the file in which the runs pass on the lock  *)
(* orders they saw (LockGraph::load and save, finalize, and the destructor *)
(* of the global RAOG).  A run may hang, and may be killed at any time.    *)
(* Saving takes no lock: a step writes one line, and other threads of the  *)
(* program may record orders between two lines.                            *)
(***************************************************************************)
EXTENDS GraphFile, TestDriver

CONSTANT MaxEdges     \* bound: edges in a graph that a run adds to

VARIABLES file,       \* _runtime-address-order-graph.txt, as pairs
          mem,        \* RAOG
          run,        \* "none", "up", "hung", "saving", "finalized" or "exiting"
          line,       \* while saving: the line to write next
          cursor,     \* while saving: the node written last
          final,      \* the save is the destructor's
          quiet,      \* history: no order was recorded since the save began
          disk,       \* history: the orders a run would find in the file; while
                      \* a save is on, those before it
          learned,    \* history: the orders the runs of this test recorded
          disturbed   \* history: a save of this test was not quiet

runVars == <<file, mem, run, line, cursor, final, quiet, disk, learned, disturbed>>
vars == <<file, mem, run, line, cursor, final, quiet, disk, learned, disturbed,
          loop, i, log, old, rc, verdict>>

Alive == run \notin {"none", "exiting"}

(* The orders a run would find; what junk is does not matter for them.      *)
Stored == Orders(Parse(file, CHOOSE j \in Junk : TRUE))

Init ==
    /\ DriverInit
    /\ file = NoFile /\ mem = Empty /\ run = "none"
    /\ line = "header" /\ cursor = 0 /\ final = FALSE
    /\ quiet = TRUE /\ disk = {} /\ learned = {} /\ disturbed = FALSE

----------------------------------------------------------------------------
(* initialize loads the graph.                                              *)
Load == /\ run = "none"
        /\ \E junk \in Junk : mem' = Parse(file, junk)
        /\ run' = "up"
        /\ UNCHANGED <<file, line, cursor, final, quiet, disk, learned, disturbed>>

DriverRun == LoopRuns /\ Load

ManualRun == loop \in {"off", "ended"} /\ Load /\ UNCHANGED driverVars

(* Another thread changes the graph, perhaps while it is being saved.       *)
Disturbs == /\ quiet' = (quiet /\ run # "saving")
            /\ disturbed' = (disturbed \/ run = "saving")

(* Thread::lock records that e[2] was acquired while e[1] was held; one     *)
(* mutex twice, when it is recursive, which is no order.                    *)
Record ==
    /\ Alive /\ run # "hung"
    /\ \E e \in Pairs :
        /\ Cardinality({d \in Pairs \ {e} : mem.w[d] > 0}) < MaxEdges
        /\ mem.w[e] < MaxWeight
        /\ mem' = AddEdge(mem, e[1], e[2], 1)
        /\ learned' = learned \cup ({e} \cap Orders(mem'))
    /\ Disturbs
    /\ UNCHANGED <<file, run, line, cursor, final, disk, driverVars>>

(* checkSCC asks for the node of a mutex that has no order yet.             *)
Touch ==
    /\ Alive /\ run # "hung"
    /\ \E a \in Locks \ mem.nodes : mem' = GetNode(mem, a)
    /\ Disturbs
    /\ UNCHANGED <<file, run, line, cursor, final, disk, learned, driverVars>>

Hang ==
    /\ run = "up"
    /\ run' = "hung"
    /\ UNCHANGED <<file, mem, line, cursor, final, quiet, disk, learned, disturbed, driverVars>>

----------------------------------------------------------------------------
(* LockGraph::save opens the file, which empties it, and prints the graph.  *)
Open(f) ==
    /\ run' = "saving"
    /\ file' = NoFile
    /\ line' = "header"
    /\ cursor' = 0
    /\ final' = f
    /\ quiet' = TRUE
    /\ UNCHANGED <<mem, disk, learned, disturbed, driverVars>>

(* finalize, before the last instruction of main.                           *)
Finalize == run = "up" /\ Open(FALSE)

(* The destructor, on every way out of the process by exit or return.       *)
Destructor == run \in {"up", "finalized"} /\ Open(TRUE)

Written == UNCHANGED <<mem, run, final, quiet, disk, learned, disturbed, driverVars>>

WriteHeader ==
    /\ run = "saving" /\ line = "header"
    /\ file' = HeaderLine(mem)
    /\ line' = "node"
    /\ UNCHANGED cursor
    /\ Written

(* The next node in the order of the map, with its number of edges.         *)
After == {a \in mem.nodes : a > cursor}

WriteNode ==
    /\ run = "saving" /\ line = "node" /\ After # {}
    /\ cursor' = (CHOOSE a \in After : \A b \in After : a <= b)
    /\ file' = [file EXCEPT !.pairs = @ \o NodeLine(mem, cursor')]
    /\ line' = "edges"
    /\ Written

WriteEdges ==
    /\ run = "saving" /\ line = "edges"
    /\ \E edges \in EdgesLines(mem, cursor) : file' = [file EXCEPT !.pairs = @ \o edges]
    /\ line' = "node"
    /\ UNCHANGED cursor
    /\ Written

Close ==
    /\ run = "saving" /\ line = "node" /\ After = {}
    /\ run' = IF final THEN "exiting" ELSE "finalized"
    /\ line' = "header" /\ cursor' = 0 /\ final' = FALSE
    /\ disk' = Stored
    /\ UNCHANGED <<file, mem, quiet, learned, disturbed, driverVars>>

----------------------------------------------------------------------------
(* The process is gone; a run of the driver hands its result to the loop.   *)
Gone(ret) ==
    /\ run' = "none"
    /\ mem' = Empty
    /\ line' = "header" /\ cursor' = 0 /\ final' = FALSE /\ quiet' = TRUE
    /\ disk' = IF run = "saving" THEN Stored ELSE disk
    /\ IF loop = "wait" THEN LoopContinues(ret) ELSE UNCHANGED driverVars
    /\ UNCHANGED <<file, learned, disturbed>>

Exit == run = "exiting" /\ \E ret \in {0, 1} : Gone(ret)

(* abort, a signal, or the user.                                            *)
Kill == Alive /\ Gone(1)

(* A new test has a directory of its own, which stop removes.               *)
NewDirectory ==
    /\ file' = NoFile /\ mem' = Empty /\ run' = "none"
    /\ line' = "header" /\ cursor' = 0 /\ final' = FALSE /\ quiet' = TRUE
    /\ disk' = {} /\ learned' = {} /\ disturbed' = FALSE

Start == run = "none" /\ StartTest /\ NewDirectory
Stop == StopTest /\ NewDirectory

LogCommand == Log /\ UNCHANGED runVars

Next ==
    \/ DriverRun \/ ManualRun \/ Record \/ Touch \/ Hang
    \/ Finalize \/ Destructor \/ WriteHeader \/ WriteNode \/ WriteEdges \/ Close
    \/ Exit \/ Kill \/ Start \/ Stop \/ LogCommand

Spec == Init /\ [][Next]_vars

(* Somebody asks for the log again and again.                               *)
FairSpec == Spec /\ WF_vars(LogCommand)

----------------------------------------------------------------------------
(* Type of the state.                                                       *)
TypeOK ==
    /\ mem.nodes \subseteq Locks
    /\ \A e \in Pairs : mem.w[e] \in 0 .. MaxWeight /\ (mem.w[e] > 0 => {e[1], e[2]} \subseteq mem.nodes)
    /\ file.n \in -1 .. Cardinality(Locks)
    /\ run \in {"none", "up", "hung", "saving", "finalized", "exiting"}
    /\ loop \in {"off", "next", "wait", "ended"}
    /\ i \in 0 .. RUNS
    /\ {log, old} \subseteq (-2 .. RUNS) /\ rc \in {Absent, 0, 1}

(* The file and the graph together are a store of lock orders: a save that  *)
(* no other thread disturbs is one step and loses nothing, a run killed in  *)
(* it leaves a part of what it knew and never an order between two mutexes  *)
(* that was not seen, whatever the reader makes of the missing lines.       *)
Store == INSTANCE OrderStore WITH
            Pairs <- {e \in Pairs : e[1] # e[2]},
            disk <- disk,
            known <- IF run = "none" THEN {} ELSE Orders(mem),
            state <- CASE run = "none" -> "down" [] run = "saving" -> "saving" [] OTHER -> "up",
            quiet <- quiet
IsStore == Store!Spec

(* Text and back: after a save that nothing disturbed the file is read as   *)
(* exactly the graph that was saved, isolated nodes and weights included.   *)
SavedExactly == run = "exiting" /\ quiet => \A junk \in Junk : Parse(file, junk) = mem

(* A test gathers knowledge: while the driver's loop goes on, every run     *)
(* knows all orders that earlier runs of the test recorded, since the loop  *)
(* ends with the first run that was killed, and a run that exits saves.     *)
NothingForgotten ==
    loop = "wait" /\ run \in {"up", "hung"} /\ ~ disturbed => learned \subseteq Orders(mem)

(* "program crashed!" is only said of a test whose last run failed, and     *)
(* then no run of its loop is on.                                           *)
CrashVerdictTrue == verdict = "crashed" => loop = "ended" /\ rc = 1

(* A run that hangs is reported as "looks like deadlock!" and a failed one  *)
(* as "program crashed!", if only the log is asked for often enough.        *)
TroubleReported ==
    /\ (run = "hung" /\ loop = "wait") ~> (verdict = "deadlock" \/ run # "hung")
    /\ (loop = "ended" /\ rc = 1) ~> (verdict = "crashed" \/ loop = "off")
=============================================================================
