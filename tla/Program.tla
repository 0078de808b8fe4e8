------------------------------- MODULE Program -------------------------------
(***************************************************************************)
(* A multithreaded program as Break sees it: the calls each thread makes   *)
(* on pthread mutexes, without any instrumentation.  It is the abstract    *)
(* specification that an instrumented binary has to implement: Break       *)
(* promises to preserve the semantics of the program it instruments.       *)
(*                                                                         *)
(* The mutexes are those of the C library (external code), modelled from   *)
(* how the programs under evaluation/ and the hooks of the tracers use     *)
(* them: default mutexes, whose unlock does not look at the owner, and     *)
(* recursive ones, which count.                                            *)
(***************************************************************************)
EXTENDS Naturals, Sequences, FiniteSets, LockGraph

CONSTANTS Threads,    (* pthread_t values; a value that is reused for a     *)
                      (* later thread is the same member                    *)
          Recursive,  (* the mutexes of type PTHREAD_MUTEX_RECURSIVE        *)
          Programs,   (* the programs under test                            *)
          Cancelable, (* threads that may be cancelled asynchronously       *)
          NoThread    (* owner of a free mutex                              *)

(* A call of a thread's script.  hooked: the call is a direct call in      *)
(* instrumented code.  onFail: where a failed trylock continues.           *)
Calls == [call : {"lock", "trylock", "unlock"}, m : Locks,
          hooked : BOOLEAN, onFail : Nat \ {0}]

ASSUME ProgramAssumption ==
  /\ Recursive \subseteq Locks
  /\ Cancelable \subseteq Threads
  /\ NoThread \notin Threads
  /\ Programs \subseteq [Threads -> Seq(Calls)]

VARIABLES
  prog,    (* the program that runs; chosen once                            *)
  ip,      (* the next call of each thread                                  *)
  owner,   (* the thread that holds each mutex, or NoThread                 *)
  count,   (* how many times the owner holds it                             *)
  alive,   (* threads that have not been cancelled                          *)
  nested,  (* history: <<a, b>> when b was acquired by a holder of a        *)
  misuse   (* history: some thread unlocked a mutex it did not hold         *)

progVars == <<prog, ip, owner, count, alive, nested, misuse>>

Running(t) == t \in alive /\ ip[t] \in 1..Len(prog[t])
Call(t)    == prog[t][ip[t]]
HeldBy(t)  == {m \in Locks : owner[m] = t}

(* A lock call on m by t returns at once.                                  *)
Available(t, m) == owner[m] = NoThread \/ (owner[m] = t /\ m \in Recursive)

ProgInit ==
  /\ prog \in Programs
  /\ ip = [t \in Threads |-> 1]
  /\ owner = [m \in Locks |-> NoThread]
  /\ count = [m \in Locks |-> 0]
  /\ alive = Threads
  /\ nested = {}
  /\ misuse = FALSE

(* pthread_mutex_lock, or a pthread_mutex_trylock that succeeds.           *)
Acquire(t) ==
  /\ Running(t)
  /\ Call(t).call \in {"lock", "trylock"}
  /\ Available(t, Call(t).m)
  /\ LET m == Call(t).m IN
       /\ owner' = [owner EXCEPT ![m] = t]
       /\ count' = [count EXCEPT ![m] = @ + 1]
       /\ nested' = nested \cup (HeldBy(t) \X {m})
  /\ ip' = [ip EXCEPT ![t] = @ + 1]
  /\ UNCHANGED <<prog, alive, misuse>>

(* pthread_mutex_trylock returns EBUSY.                                    *)
TryFail(t) ==
  /\ Running(t)
  /\ Call(t).call = "trylock"
  /\ ~Available(t, Call(t).m)
  /\ ip' = [ip EXCEPT ![t] = Call(t).onFail]
  /\ UNCHANGED <<prog, owner, count, alive, nested, misuse>>

(* pthread_mutex_unlock.  A default mutex is freed whoever unlocks it; a   *)
(* recursive one refuses (EPERM) a thread that is not its owner.           *)
Release(t) ==
  /\ Running(t)
  /\ Call(t).call = "unlock"
  /\ LET m == Call(t).m
         refused == m \in Recursive /\ owner[m] # t
         left == IF m \in Recursive THEN count[m] - 1 ELSE 0
     IN /\ IF refused
           THEN UNCHANGED <<owner, count>>
           ELSE /\ count' = [count EXCEPT ![m] = left]
                /\ owner' = [owner EXCEPT ![m] = IF left = 0 THEN NoThread ELSE @]
        /\ misuse' = (misuse \/ owner[m] # t)
  /\ ip' = [ip EXCEPT ![t] = @ + 1]
  /\ UNCHANGED <<prog, alive, nested>>

(* pthread_cancel of a thread of cancel type PTHREAD_CANCEL_ASYNCHRONOUS:  *)
(* it stops wherever it is and keeps the mutexes it holds.                 *)
Cancel(t) ==
  /\ t \in alive \cap Cancelable
  /\ alive' = alive \ {t}
  /\ UNCHANGED <<prog, ip, owner, count, nested, misuse>>

ProgStep(t) == Acquire(t) \/ TryFail(t) \/ Release(t)
ProgNext == \E t \in Threads : ProgStep(t) \/ Cancel(t)

ProgSpec == ProgInit /\ [][ProgNext]_progVars

(* A thread whose next call can return does return: the scheduler starves  *)
(* nobody, and a mutex that stays free is granted.                         *)
ProgFairSpec == ProgSpec /\ \A t \in Threads : WF_progVars(ProgStep(t))

ProgTypeOK ==
  /\ prog \in [Threads -> Seq(Calls)]
  /\ ip \in [Threads -> Nat \ {0}]
  /\ owner \in [Locks -> Threads \cup {NoThread}]
  /\ count \in [Locks -> Nat]
  /\ alive \subseteq Threads
  /\ nested \subseteq Locks \X Locks
  /\ misuse \in BOOLEAN
=============================================================================
