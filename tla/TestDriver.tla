----------------------------- MODULE TestDriver -----------------------------
(***************************************************************************)
(* One test of tools/scripts/test.sh: the loop that "start" leaves in the  *)
(* background, and the commands "log" and "stop".  The numbers the script  *)
(* averages are left out.  -2 is a file that does not exist.               *)
(***************************************************************************)
EXTENDS Integers

CONSTANT RUNS         \* runs the loop makes; the script's default is 1000000

ASSUME RunsAssumption == RUNS \in Nat \ {0}

VARIABLES loop,       \* "off", "next" (before a run), "wait" (a run is on), "ended"
          i,          \* the loop counter
          log,        \* $t.log: the run that was started last
          old,        \* $t.log.old: what the last "log" command saw
          rc,         \* $t.log.rc: how the last finished run ended
          verdict     \* what the last "log" command said of the test

driverVars == <<loop, i, log, old, rc, verdict>>

Absent == -2

DriverInit == /\ loop = "off" /\ i = 0 /\ log = Absent /\ old = Absent /\ rc = Absent
              /\ verdict = "none"

(* start: refused while the directory of another test exists.               *)
StartTest ==
    /\ loop = "off"
    /\ loop' = "next"
    /\ i' = 1
    /\ log' = Absent
    /\ old' = -1
    /\ rc' = Absent
    /\ verdict' = "none"

(* The loop starts run i.                                                   *)
LoopRuns ==
    /\ loop = "next"
    /\ log' = i
    /\ loop' = "wait"
    /\ UNCHANGED <<i, old, rc, verdict>>

(* The run is over: its result is written, and the loop goes on unless the  *)
(* result is not 0 or this was the last run.                                *)
LoopContinuesAlways(ret) ==
    /\ loop = "wait"
    /\ rc' = ret
    /\ loop' = IF i < RUNS THEN "next" ELSE "ended"
    /\ i' = IF i < RUNS THEN i + 1 ELSE i
    /\ UNCHANGED <<log, old, verdict>>

LoopContinues(ret) ==
    /\ loop = "wait"
    /\ rc' = ret
    /\ loop' = IF ret = 0 /\ i < RUNS THEN "next" ELSE "ended"
    /\ i' = IF ret = 0 /\ i < RUNS THEN i + 1 ELSE i
    /\ UNCHANGED <<log, old, verdict>>

(* log: the same run as last time, so the test crashed or looks stuck.  A   *)
(* result that is missing counts as 0.                                      *)
JudgeMissing == IF log # old THEN "running" ELSE IF rc # 0 THEN "crashed" ELSE "deadlock"
Judge == IF log # old THEN "running"
         ELSE IF rc \notin {0, Absent} THEN "crashed" ELSE "deadlock"

LogKeepsOld ==
    /\ loop # "off" /\ log # Absent
    /\ verdict' = Judge
    /\ UNCHANGED <<loop, i, log, old, rc>>

Log ==
    /\ loop # "off" /\ log # Absent
    /\ verdict' = Judge
    /\ old' = log
    /\ UNCHANGED <<loop, i, log, rc>>

(* stop: the loop is killed and the directory removed.                      *)
StopTest ==
    /\ loop # "off"
    /\ loop' = "off"
    /\ i' = 0
    /\ log' = Absent /\ old' = Absent /\ rc' = Absent
    /\ verdict' = "none"
=============================================================================
